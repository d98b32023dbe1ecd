---------------------------- MODULE Presentation ----------------------------
(***************************************************************************)
(* The text a Session puts on the screen while live conversion is pending.  *)
(*                                                                         *)
(* A reading (the composer's query) is a sequence of characters: a kana, or *)
(* the consonant of an unfinished romaji pair.  A text is a sequence of     *)
(* surfaces, one per character of its reading, each saying how that         *)
(* character is written: left raw, converted by Mozc, chosen by the user    *)
(* (another candidate, a transliteration) or rewritten by Zenz.             *)
(* A character is a converter segment of its own, except that what the user *)
(* transliterates as a whole is one segment.  The "stable presentation      *)
(* spans" of the code are the leading segments of a text.                   *)
(***************************************************************************)
EXTENDS Naturals, Sequences, SequencesExt

\* "r" is a consonant whose vowel has not been typed yet; "k" is the kana the
\* pair becomes; "." is a punctuation mark of the direct-commit set.
Characters == {"a", "k", "r", "."}

Styles == {"raw", "mozc", "chosen", "zenz"}

Surface(c, style) == <<c, style>>

Write(reading, style) ==
  [i \in 1..Len(reading) |-> Surface(reading[i], style)]

Raw(reading) == Write(reading, "raw")

Reading(text) == [i \in 1..Len(text) |-> text[i][1]]

\* GetQueryForPrediction() differs from GetQueryForConversion().
HasTransientTail(reading) == reading # <<>> /\ Last(reading) = "r"

(***************************************************************************)
(* PendingLiveConversionPresentation: a text the user has seen, and how     *)
(* many of its leading surfaces are proven reading/value spans.             *)
(***************************************************************************)
NoPresentation == [value |-> <<>>, stable |-> 0]

Presentation(value, stable) == [value |-> value, stable |-> stable]

Cut(value, n) == Presentation(SubSeq(value, 1, n), n)

CommonLength(t, u) == Len(LongestCommonPrefix({t, u}))

\* Where the segments of a text end.
Ends(text) ==
  {n \in DOMAIN text :
     n = Len(text) \/ {text[n][2], text[n + 1][2]} # {"chosen"}}

\* The length of the whole segments among the first n characters.
Whole(text, n) == Max({m \in Ends(text) \cup {0} : m <= n})

\* The spans already proven stay proven as far as they still hold; the latest
\* Mozc result can only extend them.  With nothing to merge from this is
\* BuildStablePresentationSpans.
MergeStableSpans(liveValue, value, previous) ==
  LET proven == SubSeq(previous.value, 1, previous.stable)
      kept == Whole(proven, CommonLength(proven,
                                         SubSeq(value, 1, Len(liveValue))))
  IN  IF liveValue = <<>> \/ value = <<>> THEN 0
      ELSE Max({n \in {kept} \cup Ends(liveValue) :
                  /\ n \in kept..Len(value)
                  /\ \A i \in kept + 1 .. n : liveValue[i] = value[i]})

BuildStableSpans(liveValue, value) ==
  MergeStableSpans(liveValue, value, NoPresentation)

(***************************************************************************)
(* OutputPendingLiveConversionWithPresentation.  The text shown is a basis  *)
(* the user has already seen followed by the rest of the reading in raw     *)
(* form.  The basis is, in this order: the whole presentation when the      *)
(* reading extends it; the spans of it that the reading still starts with;  *)
(* the part of the last Mozc result that agrees with it; that Mozc result.  *)
(***************************************************************************)
SurvivingSpans(reading, presentation) ==
  LET proven == SubSeq(presentation.value, 1, presentation.stable)
  IN  Whole(proven, CommonLength(Reading(proven), reading))

SurvivingSegments(reading, presentation, liveValue) ==
  LET agreed == CommonLength(liveValue, presentation.value)
  IN  Whole(liveValue, CommonLength(Reading(SubSeq(liveValue, 1, agreed)),
                                    reading))

Basis(reading, presentation, liveValue) ==
  LET spans    == SurvivingSpans(reading, presentation)
      segments == SurvivingSegments(reading, presentation, liveValue)
  IN  IF presentation = NoPresentation
        THEN Presentation(liveValue, Len(liveValue))
      ELSE IF IsPrefix(Reading(presentation.value), reading)
        THEN presentation
      ELSE IF spans > 0
        THEN Cut(presentation.value, spans)
      ELSE IF segments > 0
        THEN Cut(liveValue, segments)
        ELSE Presentation(liveValue, Len(liveValue))

\* FALSE when no basis fits: the caller must convert at once instead.
CanPresent(reading, presentation, liveValue) ==
  IsPrefix(Reading(Basis(reading, presentation, liveValue).value), reading)

Extend(value, reading) ==
  value \o Raw(SubSeq(reading, Len(value) + 1, Len(reading)))

Present(reading, presentation, liveValue) ==
  Extend(Basis(reading, presentation, liveValue).value, reading)

\* GetPendingLiveConversionDisplayCommitStrings: what Enter takes the display
\* to be.  Only whole presentations are considered, never their spans.
PendingCommitText(reading, presentation, liveValue) ==
  CASE /\ presentation # NoPresentation
       /\ IsPrefix(Reading(presentation.value), reading)
         -> Extend(presentation.value, reading)
    [] /\ ~(/\ presentation # NoPresentation
            /\ IsPrefix(Reading(presentation.value), reading))
       /\ liveValue # <<>>
       /\ IsPrefix(Reading(liveValue), reading)
         -> Extend(liveValue, reading)
    [] OTHER -> Raw(reading)

=============================================================================
