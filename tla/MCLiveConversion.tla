-------------------------- MODULE MCLiveConversion --------------------------
(***************************************************************************)
(* Live conversion on small readings.  MCLiveConversion<Question>.cfg gives *)
(* the bounds, the user's settings and the properties of one question.      *)
(***************************************************************************)
EXTENDS LiveConversion

\* Characters a user types: kana only, or kana and the consonants of romaji
\* pairs that the next vowel rewrites in place.
Kana == {"a"}
Romaji == {"a", "r"}
=============================================================================
