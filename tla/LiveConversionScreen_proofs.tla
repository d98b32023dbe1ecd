--------------------- MODULE LiveConversionScreen_proofs ---------------------
(***************************************************************************)
(* Proofs that the screen always spells the reading that was typed, that   *)
(* a session keeps its type, that only the commit of a correction makes    *)
(* Undo inexact, that Undo puts back on the screen what was committed, and *)
(* that a callback that comes too late changes nothing, for every alphabet,*)
(* configuration, number of timers, of polls and of contexts to undo.      *)
(*                                                                         *)
(* Sessions is what a Session object may hold; Consistent is what its      *)
(* members say of each other at any point of a handler; Spells adds the    *)
(* screen a handler leaves; Ready is what the next handler may count on;   *)
(* Accounts is what a handler may do to the document of the user.          *)
(* One lemma per function of the session leads from one to the next.       *)
(***************************************************************************)
EXTENDS LiveConversion_proofs, SequenceTheorems, WellFoundedInduction,
        FiniteSetTheorems

-----------------------------------------------------------------------------
(***************************************************************************)
(* Whatever basis a pending display is built on, the text shown spells the *)
(* reading of the composer, and so does the text that Enter takes the      *)
(* display to be (Presentation).                                           *)
(***************************************************************************)

Readings == Seq(Characters)
Texts == Seq(Characters \X Styles)
Presentations ==
  {p \in [value : Texts, stable : Nat] : p.stable <= Len(p.value)}

\* A reading written in one style is a text that spells it.
LEMMA WriteSpells ==
  ASSUME NEW reading \in Readings, NEW style \in Styles
  PROVE  /\ Write(reading, style) \in Texts
         /\ Len(Write(reading, style)) = Len(reading)
         /\ Reading(Write(reading, style)) = reading
         /\ \A i \in 1..Len(reading) :
              Write(reading, style)[i] = <<reading[i], style>>
<1>1. Write(reading, style) = [i \in 1..Len(reading) |-> <<reading[i], style>>]
  BY DEF Write, Surface
<1>2. Write(reading, style) \in Texts
      /\ Len(Write(reading, style)) = Len(reading)
  BY <1>1 DEF Texts, Readings
<1>3. \A i \in 1..Len(reading) : Write(reading, style)[i][1] = reading[i]
  BY <1>1
<1>4. Reading(Write(reading, style)) = [i \in 1..Len(reading) |-> reading[i]]
  BY <1>2, <1>3 DEF Reading
<1> QED
  BY <1>1, <1>2, <1>4 DEF Readings

\* The raw text of a reading is a text, as long as the reading, that spells it.
LEMMA RawSpells ==
  ASSUME NEW reading \in Readings
  PROVE  /\ Raw(reading) \in Texts
         /\ Len(Raw(reading)) = Len(reading)
         /\ Reading(Raw(reading)) = reading
BY WriteSpells DEF Raw, Styles

\* A text spells a reading of its own length.
LEMMA ReadingIsAReading ==
  ASSUME NEW text \in Texts
  PROVE  /\ Reading(text) \in Readings
         /\ Len(Reading(text)) = Len(text)
         /\ \A i \in 1..Len(text) : Reading(text)[i] = text[i][1]
  BY DEF Reading, Texts, Readings

\* Extending a text whose reading starts the composer's spells the latter:
\* "value + suffix_value" in OutputPendingLiveConversionWithPresentation and
\* in GetPendingLiveConversionDisplayCommitStrings.
LEMMA ExtendSpells ==
  ASSUME NEW value \in Texts, NEW reading \in Readings,
         IsPrefix(Reading(value), reading)
  PROVE  /\ Extend(value, reading) \in Texts
         /\ Reading(Extend(value, reading)) = reading
<1> DEFINE rest == SubSeq(reading, Len(value) + 1, Len(reading))
<1>1. /\ Len(value) <= Len(reading)
      /\ \A i \in 1..Len(value) : value[i][1] = reading[i]
  BY ReadingIsAReading DEF IsPrefix, Readings, Texts
<1>2. /\ rest \in Readings
      /\ Len(rest) = Len(reading) - Len(value)
      /\ \A i \in 1..Len(rest) : rest[i] = reading[Len(value) + i]
  BY <1>1 DEF Readings, Texts
<1>3. /\ Raw(rest) \in Texts
      /\ Len(Raw(rest)) = Len(rest)
      /\ \A i \in 1..Len(rest) : Raw(rest)[i][1] = rest[i]
  <2> HIDE DEF rest
  <2>1. Raw(rest) \in Texts /\ Len(Raw(rest)) = Len(rest)
    BY <1>2, RawSpells
  <2>2. Reading(Raw(rest)) = rest
    BY <1>2, RawSpells
  <2>3. \A i \in 1..Len(rest) : Reading(Raw(rest))[i] = Raw(rest)[i][1]
    BY <2>1, ReadingIsAReading
  <2> QED
    BY <2>1, <2>2, <2>3
<1> DEFINE whole == value \o Raw(rest)
<1>4. whole \in Texts /\ Len(whole) = Len(reading)
  BY <1>1, <1>2, <1>3 DEF Texts, Readings
<1>5. ASSUME NEW i \in 1..Len(reading)
      PROVE  whole[i][1] = reading[i]
  <2>1. CASE i <= Len(value)
    BY <2>1, <1>1, <1>3 DEF Texts, Readings
  <2>2. CASE i > Len(value)
    <3>1. i - Len(value) \in 1..Len(rest)
      BY <2>2, <1>1, <1>2 DEF Texts, Readings
    <3>2. whole[i] = Raw(rest)[i - Len(value)]
      BY <2>2, <3>1, <1>1, <1>2, <1>3 DEF Texts, Readings
    <3>3. rest[i - Len(value)] = reading[i]
      BY <3>1, <1>2, <1>1 DEF Texts, Readings
    <3> QED
      BY <3>1, <3>2, <3>3, <1>3
  <2>3. i <= Len(value) \/ i > Len(value)
    BY <1>1 DEF Texts, Readings
  <2> HIDE DEF whole
  <2> QED
    BY <2>1, <2>2, <2>3
<1>6. Reading(whole) = [i \in 1..Len(reading) |-> reading[i]]
  BY <1>4, <1>5, ReadingIsAReading DEF Reading
<1>7. Extend(value, reading) = whole
  BY DEF Extend
<1> HIDE DEF whole
<1> QED
  BY <1>4, <1>6, <1>7 DEF Readings

(***************************************************************************)
(* The greatest element of a bounded set, and what is measured with it.     *)
(***************************************************************************)

\* A nonempty set of naturals has a least element (from well-foundedness).
LEMMA LeastNatural ==
  ASSUME NEW T, T \subseteq Nat, T # {}
  PROVE  \E x \in T : \A y \in T : x <= y
<1> DEFINE R == OpToRel(<, Nat)
<1>1. IsWellFoundedOn(R, Nat)
  BY NatLessThanWellFounded
<1>2. \A x, y \in Nat : x < y => <<x, y>> \in R
  BY DEF OpToRel
<1> HIDE DEF R
<1>3. PICK x \in T : \A y \in T : ~(<<y, x>> \in R)
  BY <1>1, WFMin
<1>4. ASSUME NEW y \in T PROVE x <= y
  <2>1. x \in Nat /\ y \in Nat /\ ~(y < x)
    BY <1>2, <1>3
  <2> QED
    BY <2>1
<1> QED
  BY <1>4

\* Max is the greatest element of a nonempty bounded set of naturals.
LEMMA MaxIsGreatest ==
  ASSUME NEW n \in Nat, NEW S, S \subseteq 0..n, S # {}
  PROVE  Max(S) \in S /\ \A y \in S : Max(S) >= y
<1> DEFINE T == {n - x : x \in S}
<1>1. T \subseteq Nat /\ T # {}
  <2>1. \A x \in S : x \in 0..n
    OBVIOUS
  <2>2. \A x \in S : n - x \in Nat
    BY <2>1
  <2> QED
    BY <2>2
<1>2. PICK t \in T : \A u \in T : t <= u
  BY <1>1, LeastNatural
<1>3. PICK x \in S : t = n - x
  BY <1>2
<1>4. \A y \in S : n - y \in T
  OBVIOUS
<1>5. \A y \in S : x >= y
  BY <1>2, <1>3, <1>4
<1> QED
  BY <1>5 DEF Max

\* The longest common prefix of two sequences is one of their common prefixes.
LEMMA LongestIsCommon ==
  ASSUME NEW A, NEW t \in Seq(A), NEW u \in Seq(A)
  PROVE  LET p == LongestCommonPrefix({t, u})
         IN  /\ p \in Seq(A) /\ Len(p) \in 0..Len(t)
             /\ IsPrefix(p, t) /\ IsPrefix(p, u)
<1> DEFINE C == CommonPrefixes({t, u})
           L == {Len(p) : p \in C}
           n == Len(t)
<1>1. \A p \in C : p \in Seq(A) /\ Len(p) \in 0..n
  <2>1. ASSUME NEW s \in {t, u}, NEW l \in 0..Len(s)
        PROVE  SubSeq(s, 1, l) \in Seq(A) /\ Len(SubSeq(s, 1, l)) \in Nat
    OBVIOUS
  <2>2. \A p \in C : p \in Seq(A) /\ Len(p) \in Nat
    BY <2>1 DEF CommonPrefixes, Prefixes
  <2>3. \A p \in C : Len(p) <= Len(t)
    BY DEF CommonPrefixes, IsPrefix
  <2>4. n \in Nat
    OBVIOUS
  <2>5. \A p \in C : Len(p) <= n
    BY <2>3
  <2> HIDE DEF C, n
  <2> QED
    BY <2>2, <2>4, <2>5
<1>2. <<>> \in C
  <2>1. SubSeq(t, 1, 0) = <<>>
    OBVIOUS
  <2>2. <<>> \in Prefixes(t)
    BY <2>1 DEF Prefixes
  <2>3. IsPrefix(<<>>, t) /\ IsPrefix(<<>>, u)
    BY DEF IsPrefix
  <2> QED
    BY <2>2, <2>3 DEF CommonPrefixes
<1> HIDE DEF C
<1>3. L \subseteq 0..n /\ L # {}
  BY <1>1, <1>2
<1>4. n \in Nat
  OBVIOUS
<1>5. Max(L) \in L /\ \A m \in L : Max(L) >= m
  BY <1>3, <1>4, MaxIsGreatest
<1>6. PICK p \in C : Len(p) = Max(L)
  BY <1>5
<1>7. \A q \in C : Len(q) <= Len(p)
  BY <1>1, <1>5, <1>6
<1>8. LongestCommonPrefix({t, u}) \in C
  BY <1>7 DEF LongestCommonPrefix, C
<1>9. \A q \in C : IsPrefix(q, t) /\ IsPrefix(q, u)
  BY DEF C, CommonPrefixes
<1> QED
  BY <1>1, <1>8, <1>9

\* Two sequences agree as far as their common length, which is within both.
LEMMA CommonLengthIsBounded ==
  ASSUME NEW A, NEW t \in Seq(A), NEW u \in Seq(A)
  PROVE  /\ CommonLength(t, u) \in 0..Len(t)
         /\ CommonLength(t, u) <= Len(u)
         /\ \A i \in 1..CommonLength(t, u) : t[i] = u[i]
<1>1. PICK p : /\ p = LongestCommonPrefix({t, u})
               /\ p \in Seq(A) /\ Len(p) \in 0..Len(t)
               /\ IsPrefix(p, t) /\ IsPrefix(p, u)
  BY LongestIsCommon
<1>2. CommonLength(t, u) = Len(p)
  BY <1>1 DEF CommonLength
<1>3. /\ Len(p) <= Len(u)
      /\ SubSeq(p, 1, Len(p)) = SubSeq(t, 1, Len(p))
      /\ SubSeq(p, 1, Len(p)) = SubSeq(u, 1, Len(p))
  BY <1>1 DEF IsPrefix
<1>4. ASSUME NEW i \in 1..Len(p)
      PROVE  /\ SubSeq(t, 1, Len(p))[i] = t[i]
             /\ SubSeq(u, 1, Len(p))[i] = u[i]
  BY <1>1, <1>3
<1>5. \A i \in 1..Len(p) : t[i] = u[i]
  BY <1>3, <1>4
<1> QED
  BY <1>1, <1>2, <1>3, <1>5

\* Whole segments end within the text, and within what was asked for.
LEMMA WholeIsWithin ==
  ASSUME NEW text \in Texts, NEW n \in Nat
  PROVE  Whole(text, n) \in 0..Len(text) /\ Whole(text, n) <= n
<1> DEFINE S == {m \in Ends(text) \cup {0} : m <= n}
<1>1. S \subseteq 0..Len(text) /\ 0 \in S
  BY DEF Ends, Texts
<1>2. Len(text) \in Nat
  BY DEF Texts
<1>3. Max(S) \in S
  BY <1>1, <1>2, MaxIsGreatest
<1> QED
  BY <1>1, <1>3 DEF Whole

(***************************************************************************)
(* Parts of texts.                                                          *)
(***************************************************************************)

\* A part of a text spells that part of its reading.
LEMMA PartSpells ==
  ASSUME NEW text \in Texts, NEW m \in Nat, NEW n \in Nat, 1 <= m,
         n <= Len(text)
  PROVE  /\ SubSeq(text, m, n) \in Texts
         /\ Len(SubSeq(text, m, n)) = IF m <= n THEN n - m + 1 ELSE 0
         /\ SubSeq(Reading(text), m, n) \in Readings
         /\ Reading(SubSeq(text, m, n)) = SubSeq(Reading(text), m, n)
<1> DEFINE part == SubSeq(text, m, n)
           read == SubSeq(Reading(text), m, n)
           length == IF m <= n THEN n - m + 1 ELSE 0
<1>1. /\ part \in Texts /\ Len(part) = length
      /\ \A i \in 1..length : part[i] = text[m + i - 1]
  BY DEF Texts
<1>2. /\ Reading(text) \in Readings /\ Len(Reading(text)) = Len(text)
      /\ \A i \in 1..Len(text) : Reading(text)[i] = text[i][1]
  BY ReadingIsAReading
<1>3. /\ read \in Readings /\ Len(read) = length
      /\ \A i \in 1..length : read[i] = Reading(text)[m + i - 1]
  BY <1>2 DEF Readings
<1>4. \A i \in 1..length : m + i - 1 \in 1..Len(text)
  BY DEF Texts
<1>5. length \in Nat
  OBVIOUS
<1> HIDE DEF part, read, length
<1>6. \A i \in 1..length : read[i] = part[i][1]
  BY <1>1, <1>2, <1>3, <1>4
<1>7. /\ Reading(part) \in Readings /\ Len(Reading(part)) = length
      /\ \A i \in 1..length : Reading(part)[i] = part[i][1]
  BY <1>1, ReadingIsAReading
<1>8. Reading(part) = read
  BY <1>3, <1>6, <1>7 DEF Readings
<1> QED
  BY <1>1, <1>3, <1>8 DEF part, read, length

\* One text after another spells one reading after the other.
LEMMA JoinSpells ==
  ASSUME NEW t \in Texts, NEW u \in Texts
  PROVE  /\ t \o u \in Texts
         /\ Len(t \o u) = Len(t) + Len(u)
         /\ Reading(t \o u) = Reading(t) \o Reading(u)
<1> DEFINE m == Len(t)
           n == Len(u)
           whole == t \o u
           read == Reading(t) \o Reading(u)
<1>1. m \in Nat /\ n \in Nat
  BY DEF Texts
<1>2. /\ whole \in Texts /\ Len(whole) = m + n
      /\ \A i \in 1..m + n : whole[i] = IF i <= m THEN t[i] ELSE u[i - m]
  BY ConcatProperties DEF Texts
<1>3. /\ Reading(t) \in Readings /\ Len(Reading(t)) = m
      /\ Reading(u) \in Readings /\ Len(Reading(u)) = n
      /\ \A i \in 1..m : Reading(t)[i] = t[i][1]
      /\ \A i \in 1..n : Reading(u)[i] = u[i][1]
  BY ReadingIsAReading
<1>4. /\ read \in Readings /\ Len(read) = m + n
      /\ \A i \in 1..m + n :
           read[i] = IF i <= m THEN Reading(t)[i] ELSE Reading(u)[i - m]
  <2> HIDE DEF m, n
  <2> QED
    BY <1>3, ConcatProperties DEF Readings
<1>5. /\ Reading(whole) \in Readings /\ Len(Reading(whole)) = m + n
      /\ \A i \in 1..m + n : Reading(whole)[i] = whole[i][1]
  BY <1>2, ReadingIsAReading
<1> HIDE DEF whole, read, m, n
<1>6. ASSUME NEW i \in 1..m + n PROVE Reading(whole)[i] = read[i]
  <2>1. CASE i <= m
    BY <1>1, <1>2, <1>3, <1>4, <1>5, <2>1
  <2>2. CASE i > m
    <3>1. i - m \in 1..n /\ ~(i <= m)
      BY <1>1, <2>2
    <3> QED
      BY <1>2, <1>3, <1>4, <1>5, <3>1
  <2> QED
    BY <1>1, <2>1, <2>2
<1>7. Reading(whole) = read
  BY <1>1, <1>4, <1>5, <1>6 DEF Readings
<1> QED
  BY <1>2, <1>7 DEF whole, read, m, n

\* Cut anywhere, a reading is its two parts.
LEMMA PartsJoin ==
  ASSUME NEW reading \in Readings, NEW n \in 0..Len(reading)
  PROVE  /\ SubSeq(reading, 1, n) \in Readings
         /\ SubSeq(reading, n + 1, Len(reading)) \in Readings
         /\ SubSeq(reading, 1, n) \o SubSeq(reading, n + 1, Len(reading))
              = reading
<1>1. Len(reading) \in Nat
  BY DEF Readings
<1>2. /\ SubSeq(reading, 1, n) \in Readings
      /\ SubSeq(reading, n + 1, Len(reading)) \in Readings
  BY DEF Readings
<1>3. SubSeq(reading, 1, n) \o SubSeq(reading, n + 1, Len(reading))
        = SubSeq(reading, 1, Len(reading))
  <2>1. /\ reading \in Seq(Characters) /\ 1 \in 1..Len(reading) + 1
        /\ n \in 1 - 1..Len(reading) /\ Len(reading) \in n..Len(reading)
    BY <1>1 DEF Readings
  <2> QED
    BY <2>1, ConcatAdjacentSubSeq, Zenon
<1> QED
  BY <1>2, <1>3, SubSeqFull DEF Readings

\* The first segment is a part of the text, and of one the user wrote as a
\* whole it is the whole.
LEMMA FirstSegment ==
  ASSUME NEW text \in Texts, text # <<>>
  PROVE  /\ Min(Ends(text)) \in 1..Len(text)
         /\ (\A i \in 1..Len(text) : text[i][2] = "chosen") =>
              Min(Ends(text)) = Len(text)
<1>1. Len(text) \in Nat /\ Len(text) >= 1 /\ DOMAIN text = 1..Len(text)
  BY DEF Texts
<1>2. Ends(text) \subseteq 1..Len(text) /\ Len(text) \in Ends(text)
  BY <1>1 DEF Ends
<1>3. \E x \in Ends(text) : \A y \in Ends(text) : x <= y
  BY <1>1, <1>2, LeastNatural
<1>4. Min(Ends(text)) \in Ends(text)
  BY <1>3 DEF Min
<1>5. ASSUME \A i \in 1..Len(text) : text[i][2] = "chosen"
      PROVE  Ends(text) \subseteq {Len(text)}
  <2>1. ASSUME NEW n \in Ends(text), n # Len(text)
        PROVE  FALSE
    <3>1. n \in 1..Len(text) /\ n + 1 \in 1..Len(text)
      BY <1>1, <1>2, <2>1
    <3>2. text[n][2] = "chosen" /\ text[n + 1][2] = "chosen"
      BY <1>5, <3>1
    <3> QED
      BY <2>1, <3>2 DEF Ends
  <2> QED
    BY <2>1
<1> QED
  BY <1>2, <1>4, <1>5

\* The first segment written anew and the rest as it was spell the same.
LEMMA FirstRewritten ==
  ASSUME NEW text \in Texts, NEW n \in 0..Len(text), NEW style \in Styles,
         NEW reading, reading = Reading(text)
  PROVE  LET new == Write(SubSeq(reading, 1, n), style)
                      \o SubSeq(text, n + 1, Len(text))
         IN  new \in Texts /\ Reading(new) = reading
<1> DEFINE head == Write(SubSeq(reading, 1, n), style)
           rest == SubSeq(text, n + 1, Len(text))
<1>1. reading \in Readings /\ Len(reading) = Len(text) /\ Len(text) \in Nat
  BY ReadingIsAReading DEF Texts
<1>2. /\ SubSeq(reading, 1, n) \in Readings
      /\ SubSeq(reading, 1, n) \o SubSeq(reading, n + 1, Len(reading))
           = reading
  BY <1>1, PartsJoin
<1>3. head \in Texts /\ Reading(head) = SubSeq(reading, 1, n)
  BY <1>2, WriteSpells
<1>4. /\ rest \in Texts
      /\ Reading(rest) = SubSeq(reading, n + 1, Len(reading))
  <2>1. /\ n + 1 \in Nat /\ 1 <= n + 1
        /\ Len(text) \in Nat /\ Len(text) <= Len(text)
    BY <1>1
  <2>2. /\ rest \in Texts
        /\ Reading(rest) = SubSeq(Reading(text), n + 1, Len(text))
    BY <2>1, PartSpells, Zenon
  <2> QED
    BY <1>1, <2>2
<1> HIDE DEF head, rest
<1>5. head \o rest \in Texts /\ Reading(head \o rest) = reading
  BY <1>2, <1>3, <1>4, JoinSpells
<1> QED
  BY <1>5 DEF head, rest
(***************************************************************************)
(* The text on the screen.                                                  *)
(***************************************************************************)
\* What starts with the same characters is a prefix.
LEMMA StartsWith ==
  ASSUME NEW t \in Readings, NEW u \in Readings, Len(t) <= Len(u),
         \A i \in 1..Len(t) : t[i] = u[i]
  PROVE  IsPrefix(t, u)
<1>1. /\ SubSeq(t, 1, Len(t)) \in Readings
      /\ SubSeq(u, 1, Len(t)) \in Readings
      /\ Len(SubSeq(t, 1, Len(t))) = Len(t)
      /\ Len(SubSeq(u, 1, Len(t))) = Len(t)
      /\ \A i \in 1..Len(t) : SubSeq(t, 1, Len(t))[i] = t[i]
      /\ \A i \in 1..Len(t) : SubSeq(u, 1, Len(t))[i] = u[i]
  BY DEF Readings
<1>2. \A i \in 1..Len(t) :
        SubSeq(t, 1, Len(t))[i] = SubSeq(u, 1, Len(t))[i]
  BY <1>1
<1>3. SubSeq(t, 1, Len(t)) = SubSeq(u, 1, Len(t))
  BY <1>1, <1>2, SeqEqual DEF Readings
<1> QED
  BY <1>3 DEF IsPrefix

LEMMA PrefixOfItself ==
  ASSUME NEW reading \in Readings
  PROVE  IsPrefix(reading, reading)
BY StartsWith DEF Readings

\* As much of a text as the reading still starts with is a basis that fits.
LEMMA CutFits ==
  ASSUME NEW text \in Texts, NEW m \in 0..Len(text), NEW reading \in Readings,
         NEW n \in Nat,
         n <= CommonLength(Reading(SubSeq(text, 1, m)), reading)
  PROVE  /\ Cut(text, n) \in Presentations
         /\ IsPrefix(Reading(Cut(text, n).value), reading)
<1> DEFINE part == SubSeq(text, 1, m)
           cut == SubSeq(text, 1, n)
<1>1. Len(text) \in Nat /\ m \in Nat /\ 1 \in Nat
  BY DEF Texts
<1>2. /\ part \in Texts /\ Len(part) = m
      /\ \A i \in 1..m : part[i] = text[i]
  BY <1>1 DEF Texts
<1>3. /\ Reading(part) \in Readings /\ Len(Reading(part)) = m
      /\ \A i \in 1..m : Reading(part)[i] = part[i][1]
  <2> HIDE DEF part
  <2> QED
    BY <1>2, ReadingIsAReading
<1>4. /\ n <= m /\ n <= Len(reading)
      /\ \A i \in 1..n : Reading(part)[i] = reading[i]
  <2> DEFINE common == CommonLength(Reading(part), reading)
  <2>1. /\ common \in 0..m /\ common <= Len(reading)
        /\ \A i \in 1..common : Reading(part)[i] = reading[i]
    BY <1>3, CommonLengthIsBounded DEF Readings
  <2> HIDE DEF common
  <2>2. n <= common
    BY DEF common
  <2>3. n <= m /\ n <= Len(reading) /\ \A i \in 1..n : i \in 1..common
    BY <1>1, <2>1, <2>2 DEF Readings
  <2> QED
    BY <2>1, <2>3
<1>5. /\ cut \in Texts /\ Len(cut) = n
      /\ \A i \in 1..n : cut[i] = text[i]
  BY <1>1, <1>4 DEF Texts
<1> HIDE DEF part, cut
<1>6. /\ Reading(cut) \in Readings /\ Len(Reading(cut)) = n
      /\ \A i \in 1..n : Reading(cut)[i] = cut[i][1]
  BY <1>5, ReadingIsAReading
<1>7. \A i \in 1..n : i \in 1..m
  BY <1>1, <1>4
<1>8. \A i \in 1..n : Reading(cut)[i] = reading[i]
  BY <1>2, <1>3, <1>4, <1>5, <1>6, <1>7
<1>9. IsPrefix(Reading(cut), reading)
  BY <1>4, <1>6, <1>8, StartsWith
<1> QED
  BY <1>5, <1>9 DEF Cut, Presentation, Presentations, cut

\* The basis that is chosen fits, unless it is a Mozc result that does not.
LEMMA BasisFits ==
  ASSUME NEW reading \in Readings, NEW presentation \in Presentations,
         NEW liveValue \in Texts
  PROVE  LET basis == Basis(reading, presentation, liveValue)
         IN  /\ basis \in Presentations
             /\ IsPrefix(Reading(liveValue), reading) =>
                  IsPrefix(Reading(basis.value), reading)
<1> DEFINE value == presentation.value
           stable == presentation.stable
           spans == SurvivingSpans(reading, presentation)
           segments == SurvivingSegments(reading, presentation, liveValue)
           own == Presentation(liveValue, Len(liveValue))
<1>1. value \in Texts /\ stable \in 0..Len(value) /\ Len(value) \in Nat
  BY DEF Presentations, Texts
<1>2. /\ Cut(value, spans) \in Presentations
      /\ IsPrefix(Reading(Cut(value, spans).value), reading)
  <2> DEFINE proven == SubSeq(value, 1, stable)
             common == CommonLength(Reading(proven), reading)
  <2>1. proven \in Texts
    BY <1>1 DEF Texts
  <2>2. common \in Nat
    BY <2>1, ReadingIsAReading, CommonLengthIsBounded DEF Readings
  <2>3. Whole(proven, common) \in Nat /\ Whole(proven, common) <= common
    <3> HIDE DEF proven, common
    <3> QED
      BY <2>1, <2>2, WholeIsWithin DEF Texts
  <2>4. spans = Whole(proven, common)
    BY DEF SurvivingSpans
  <2> HIDE DEF value, stable, spans
  <2> QED
    BY <1>1, <2>3, <2>4, CutFits
<1>3. /\ Cut(liveValue, segments) \in Presentations
      /\ IsPrefix(Reading(Cut(liveValue, segments).value), reading)
  <2> DEFINE agreed == CommonLength(liveValue, value)
             shared == SubSeq(liveValue, 1, agreed)
             common == CommonLength(Reading(shared), reading)
  <2>1. agreed \in 0..Len(liveValue)
    BY <1>1, CommonLengthIsBounded DEF Texts
  <2>2. shared \in Texts
    BY <2>1 DEF Texts
  <2>3. common \in Nat
    BY <2>2, ReadingIsAReading, CommonLengthIsBounded DEF Readings
  <2>4. Whole(liveValue, common) \in Nat /\ Whole(liveValue, common) <= common
    <3> HIDE DEF common
    <3> QED
      BY <2>3, WholeIsWithin DEF Texts
  <2>5. segments = Whole(liveValue, common)
    BY DEF SurvivingSegments
  <2> HIDE DEF agreed, segments
  <2> QED
    BY <2>1, <2>4, <2>5, CutFits
<1>4. own \in Presentations /\ own.value = liveValue
  BY DEF Presentation, Presentations, Texts
<1>5. \/ Basis(reading, presentation, liveValue) = own
      \/ /\ Basis(reading, presentation, liveValue) = presentation
         /\ IsPrefix(Reading(presentation.value), reading)
      \/ Basis(reading, presentation, liveValue) = Cut(value, spans)
      \/ Basis(reading, presentation, liveValue) = Cut(liveValue, segments)
  BY DEF Basis
<1> HIDE DEF value, spans, segments, own
<1> QED
  BY <1>2, <1>3, <1>4, <1>5

\* The spans merged into a text of the same length are spans of it.
LEMMA MergedIsWithin ==
  ASSUME NEW liveValue \in Texts, NEW value \in Texts,
         Len(value) = Len(liveValue), NEW previous \in Presentations
  PROVE  MergeStableSpans(liveValue, value, previous) \in 0..Len(value)
<1> DEFINE proven == SubSeq(previous.value, 1, previous.stable)
           whole == SubSeq(value, 1, Len(liveValue))
           common == CommonLength(proven, whole)
           kept == Whole(proven, common)
           S == {n \in {kept} \cup Ends(liveValue) :
                   /\ n \in kept..Len(value)
                   /\ \A i \in kept + 1 .. n : liveValue[i] = value[i]}
<1>1. Len(value) \in Nat
  BY DEF Texts
<1>2. /\ previous.value \in Texts
      /\ previous.stable \in 0..Len(previous.value)
  BY DEF Presentations
<1>3. proven \in Texts
  BY <1>2 DEF Texts
<1>4. whole \in Texts /\ Len(whole) = Len(value)
  BY DEF Texts
<1>5. common \in Nat /\ common <= Len(value)
  <2> HIDE DEF proven, whole
  <2> QED
    BY <1>3, <1>4, CommonLengthIsBounded DEF Texts
<1>6. kept \in Nat /\ kept <= Len(value)
  <2> HIDE DEF proven, common
  <2>1. kept \in 0..Len(proven) /\ kept <= common
    BY <1>3, <1>5, WholeIsWithin
  <2> QED
    BY <1>1, <1>5, <2>1
<1>7. MergeStableSpans(liveValue, value, previous) =
        IF liveValue = <<>> \/ value = <<>> THEN 0 ELSE Max(S)
  BY DEF MergeStableSpans
<1> HIDE DEF kept
<1>8. \A n \in S : n \in 0..Len(value)
  <2>1. \A n \in kept..Len(value) : n \in 0..Len(value)
    BY <1>1, <1>6
  <2> QED
    BY <2>1
<1>9. kept \in S
  <2>1. kept \in kept..Len(value) /\ kept + 1 .. kept = {}
    BY <1>1, <1>6
  <2> QED
    BY <2>1
<1> HIDE DEF S
<1>10. Max(S) \in 0..Len(value)
  BY <1>1, <1>8, <1>9, MaxIsGreatest
<1>11. 0 \in 0..Len(value)
  BY <1>1
<1> QED
  BY <1>7, <1>10, <1>11, Zenon

\* OutputPendingLiveConversionWithPresentation: when a basis fits, the preedit
\* it builds spells the reading of the composer, whatever presentation was
\* kept and whatever the last Mozc result was.
THEOREM PresentSpells ==
  ASSUME NEW reading \in Readings, NEW presentation \in Presentations,
         NEW liveValue \in Texts,
         CanPresent(reading, presentation, liveValue)
  PROVE  /\ Present(reading, presentation, liveValue) \in Texts
         /\ Reading(Present(reading, presentation, liveValue)) = reading
<1> DEFINE value == Basis(reading, presentation, liveValue).value
<1>1. value \in Texts
  BY BasisFits DEF Presentations
<1>2. IsPrefix(Reading(value), reading)
  BY DEF CanPresent
<1> HIDE DEF value
<1>3. /\ Extend(value, reading) \in Texts
      /\ Reading(Extend(value, reading)) = reading
  BY <1>1, <1>2, ExtendSpells
<1> QED
  BY <1>3 DEF Present, value

\* GetPendingLiveConversionDisplayCommitStrings: what Enter commits of a
\* pending display is the reading of the composer, never more and never less.
THEOREM PendingCommitTextSpells ==
  ASSUME NEW reading \in Readings, NEW presentation \in Presentations,
         NEW liveValue \in Texts
  PROVE  /\ PendingCommitText(reading, presentation, liveValue) \in Texts
         /\ Reading(PendingCommitText(reading, presentation, liveValue))
              = reading
<1> DEFINE whole == /\ presentation # NoPresentation
                    /\ IsPrefix(Reading(presentation.value), reading)
           live == liveValue # <<>> /\ IsPrefix(Reading(liveValue), reading)
<1>1. presentation.value \in Texts
  BY DEF Presentations
<1>2. CASE whole
  <2>1. PendingCommitText(reading, presentation, liveValue)
          = Extend(presentation.value, reading)
    BY <1>2 DEF PendingCommitText
  <2> QED
    BY <2>1, <1>1, <1>2, ExtendSpells
<1>3. CASE ~whole /\ live
  <2>1. PendingCommitText(reading, presentation, liveValue)
          = Extend(liveValue, reading)
    BY <1>3 DEF PendingCommitText
  <2> QED
    BY <2>1, <1>3, ExtendSpells
<1>4. CASE ~whole /\ ~live
  <2>1. PendingCommitText(reading, presentation, liveValue) = Raw(reading)
    BY <1>4 DEF PendingCommitText
  <2> QED
    BY <2>1, RawSpells
<1> QED
  BY <1>2, <1>3, <1>4
-----------------------------------------------------------------------------
(***************************************************************************)
(* The session                                                             *)
(***************************************************************************)

\* The members of a Session object, one set for each record it keeps.
Numbers == Generations \cup {0}
Zenzes ==
  {z \in [pending : BOOLEAN, generation : Numbers, mozc : Texts,
          submitted : BOOLEAN, polls : 0..MaxPolls] :
     z.pending => z.generation \in Generations}
Visibles ==
  {v \in [value : Texts, mozc : Texts, stable : Nat] :
     Reading(v.value) = Reading(v.mozc) /\ v.stable <= Len(v.value)}
Deferreds ==
  {d \in [on : BOOLEAN, value : Texts, continued : Presentations,
          previous : Texts] : d.continued.stable <= Len(d.value)}
Entries ==
  {u \in [state : {"COMPOSITION", "CONVERSION"}, key : Readings,
          cursor : Nat, conversion : Texts, committed : Nat,
          pendingKey : Readings, presentation : Presentations,
          delivered : Nat, liveValue : Texts] :
     /\ u.key # <<>> /\ u.cursor <= Len(u.key)
     /\ u.state = "CONVERSION" => Reading(u.conversion) = u.key
     /\ u.pendingKey # <<>> => u.state = "COMPOSITION"}
Stacks == {u \in Seq(Entries) : Len(u) <= MaxUndo}

Sessions ==
  [state : {"DIRECT", "PRECOMPOSITION", "COMPOSITION", "CONVERSION"},
   key : Readings, cursor : Nat, conversion : Texts, committed : Nat,
   active : BOOLEAN, fromComposition : BOOLEAN, pending : BOOLEAN,
   pendingGeneration : Numbers, pendingKey : Readings, liveValue : Texts,
   presentation : Presentations, zenz : Zenzes, visible : Visibles,
   deferred : Deferreds,
   corrector : [generation : Numbers,
                status : {"none", "open", "ok", "error"}],
   undo : Stacks, preedit : Texts, result : Texts,
   callback : Callback \cup {NoCallback}]

\* What the members of the Session object say of one another, at any point of
\* a handler.
Composed(s) ==
  /\ s \in Sessions
  /\ s.cursor <= Len(s.key)
  /\ ShowsAReading(s) => s.key # <<>>
  /\ s.state = "CONVERSION" => Reading(s.conversion) = s.key

LiveSpells(s) == IsLive(s) => Reading(s.liveValue) = s.key

DeferredSpells(s) ==
  s.deferred.on /\ s.state = "CONVERSION" => Reading(s.deferred.value) = s.key

\* A pending display can be shown; one left behind by F6-F10 is of one segment.
PendingSpells(s) ==
  s.pending =>
    /\ ShowsAReading(s) => CanOutputPending(s)
    /\ s.state = "CONVERSION" => s.conversion = Write(s.key, "chosen")

Consistent(s) ==
  Composed(s) /\ LiveSpells(s) /\ DeferredSpells(s) /\ PendingSpells(s)

\* The screen is blank where there is no reading.
Emptied(s) == ~ShowsAReading(s) => s.key = <<>>

Spelling(s, text) ==
  IF ShowsAReading(s) THEN Reading(text) = s.key
  ELSE s.key = <<>> /\ text = <<>>

OnScreen(s) == Spelling(s, s.preedit)

Spells(s) == Consistent(s) /\ OnScreen(s)

\* What Consistent says of a session depends on these.
SameTexts(s, t) ==
  /\ t.state = s.state /\ t.key = s.key /\ t.cursor = s.cursor
  /\ t.conversion = s.conversion /\ t.active = s.active
  /\ t.liveValue = s.liveValue /\ t.deferred = s.deferred
  /\ t.pending = s.pending /\ t.presentation = s.presentation

\* A session that agrees on its texts is as consistent.
LEMMA SameConsistent ==
  ASSUME NEW s, Consistent(s), NEW t \in Sessions, SameTexts(s, t)
  PROVE  Consistent(t)
BY DEF Consistent, Composed, LiveSpells, DeferredSpells, PendingSpells,
   SameTexts, ShowsAReading, IsLive, CanOutputPending

\* Filling the preedit of the output changes nothing of the session.
LEMMA TextShown ==
  ASSUME NEW s, Consistent(s), NEW text \in Texts
  PROVE  LET t == [s EXCEPT !.preedit = text]
         IN  /\ Consistent(t) /\ SameTexts(s, t)
             /\ t.preedit = text /\ t.visible = s.visible /\ t.zenz = s.zenz
             /\ Spelling(s, text) => Spells(t)
<1>. DEFINE t == [s EXCEPT !.preedit = text]
<1>1. t \in Sessions
  BY DEF Consistent, Composed, Sessions
<1>2. /\ SameTexts(s, t) /\ t.preedit = text
      /\ t.visible = s.visible /\ t.zenz = s.zenz
  BY DEF Consistent, Composed, Sessions, SameTexts
<1>. HIDE DEF t
<1>3. Consistent(t)
  BY <1>1, <1>2, SameConsistent
<1>. QED
  BY <1>2, <1>3 DEF t, Spells, OnScreen, Spelling, ShowsAReading, SameTexts

\* The converter's own text spells the reading.
LEMMA PlainSpells ==
  ASSUME NEW s, Consistent(s)
  PROVE  /\ Plain(s) \in Texts
         /\ Emptied(s) => Spelling(s, Plain(s))
<1>1. s.conversion \in Texts /\ s.key \in Readings
  BY DEF Consistent, Composed, Sessions
<1>2. <<>> \in Texts
  BY DEF Texts
<1>3. Raw(s.key) \in Texts /\ Reading(Raw(s.key)) = s.key
  BY <1>1, RawSpells
<1>. QED
  BY <1>1, <1>2, <1>3
  DEF Plain, Consistent, Composed, ShowsAReading, Emptied, Spelling

\* Session::Output shows the reading or a conversion of it.
LEMMA OutputSpells ==
  ASSUME NEW s, Consistent(s), Emptied(s)
  PROVE  LET t == Output(s)
         IN  /\ Spells(t) /\ SameTexts(s, t)
             /\ t.visible = s.visible /\ t.zenz = s.zenz
BY PlainSpells, TextShown DEF Output

\* Session::OutputZenzLiveCorrection shows another text of the reading.
LEMMA ZenzShown ==
  ASSUME NEW s, Consistent(s), s.visible.value # <<>>, IsLive(s),
         s.liveValue = s.visible.mozc
  PROVE  LET t == OutputZenz(s) IN Spells(t) /\ SameTexts(s, t)
<1>1. /\ s.visible.value \in Texts
      /\ Reading(s.visible.value) = Reading(s.visible.mozc)
  BY DEF Consistent, Composed, Sessions, Visibles
<1>. QED
  BY <1>1, TextShown
  DEF OutputZenz, Consistent, LiveSpells, Spelling, IsLive, ShowsAReading

\* Session::OutputPendingLiveConversion shows a text of the whole reading.
LEMMA PendingShown ==
  ASSUME NEW s, Consistent(s), Emptied(s), CanOutputPending(s)
  PROVE  LET t == OutputPending(s) IN Spells(t) /\ SameTexts(s, t)
<1>. DEFINE text == Present(s.key, s.presentation, s.liveValue)
<1>1. s.key \in Readings /\ text \in Texts /\ Reading(text) = s.key
  BY PresentSpells DEF Consistent, Composed, Sessions, CanOutputPending
<1>. HIDE DEF text
<1>2. Spelling(s, text)
  BY <1>1, ReadingIsAReading DEF Spelling, Emptied, Texts, Readings
<1>. QED
  BY <1>1, <1>2, TextShown DEF OutputPending, text

\* A deferred text is of the reading that is converted.
LEMMA DeferredShown ==
  ASSUME NEW s, Spells(s), s.state = "CONVERSION"
  PROVE  LET t == OutputDeferred(s)
         IN  Spells(t) /\ SameTexts(s, t) /\ t.zenz = s.zenz
<1>1. s.deferred.value \in Texts
  BY DEF Spells, Consistent, Composed, Sessions, Deferreds
<1>. QED
  BY <1>1, TextShown
  DEF OutputDeferred, HasDeferred, Spells, Consistent, DeferredSpells,
     SameTexts, Spelling, ShowsAReading

\* Session::OutputCurrentLiveConversionWithZenzPending.
LEMMA PendingZenzShown ==
  ASSUME NEW s, Consistent(s), Emptied(s)
  PROVE  LET t == OutputWithZenzPending(s)
         IN  Spells(t) /\ SameTexts(s, t) /\ t.zenz = s.zenz
<1>. DEFINE o == Output(s)
<1>1. Spells(o) /\ SameTexts(s, o) /\ o.zenz = s.zenz
  BY OutputSpells
<1>. HIDE DEF o
<1>. QED
  BY <1>1, DeferredShown DEF OutputWithZenzPending, o, SameTexts
-----------------------------------------------------------------------------
\* The records a session starts with, and is reset to, are well typed.
LEMMA NothingTyped ==
  /\ NoZenz \in Zenzes /\ NoVisible \in Visibles /\ NoDeferred \in Deferreds
  /\ NoPresentation \in Presentations /\ <<>> \in Texts /\ <<>> \in Readings
  /\ 0 \in Numbers
  /\ NoQuestion \in [generation : Numbers,
                     status : {"none", "open", "ok", "error"}]
<1>1. <<>> \in Texts /\ <<>> \in Readings /\ 0 \in Numbers /\ Len(<<>>) = 0
  BY DEF Texts, Readings, Numbers
<1>2. NoPresentation \in Presentations
  BY <1>1 DEF NoPresentation, Presentations
<1>3. NoPresentation.stable = 0
  BY DEF NoPresentation
<1>4. 0 \in 0..MaxPolls
  BY BoundsAssumption
<1>. QED
  BY <1>1, <1>2, <1>3, <1>4
  DEF NoZenz, Zenzes, NoVisible, Visibles, NoDeferred, Deferreds, NoQuestion

\* Nothing is said of the texts of a session that shows no reading.
LEMMA NoReadingShown ==
  ASSUME NEW s \in Sessions, ~ShowsAReading(s), s.cursor <= Len(s.key)
  PROVE  Consistent(s)
BY DEF Consistent, Composed, LiveSpells, DeferredSpells, PendingSpells,
   ShowsAReading, IsLive

\* What an operator that does not touch the composition leaves alone.
SameComposition(s, t) ==
  /\ t.state = s.state /\ t.key = s.key /\ t.cursor = s.cursor
  /\ t.conversion = s.conversion /\ t.undo = s.undo /\ t.result = s.result
  /\ t.callback = s.callback /\ t.preedit = s.preedit

\* CancelPendingZenzLiveCorrection and ClearZenzLiveCorrectionState.
LEMMA ZenzDropped ==
  ASSUME NEW s, Composed(s), LiveSpells(s), PendingSpells(s)
  PROVE  /\ LET t == CancelPendingZenz(s)
            IN  /\ Consistent(t) /\ t.deferred = NoDeferred /\ t.zenz = NoZenz
                /\ SameComposition(s, t) /\ t.visible = s.visible
                /\ t.active = s.active /\ t.liveValue = s.liveValue
                /\ t.pending = s.pending /\ t.presentation = s.presentation
         /\ LET t == ClearZenz(s)
            IN  /\ Consistent(t) /\ t.deferred = NoDeferred /\ t.zenz = NoZenz
                /\ SameComposition(s, t) /\ t.visible = NoVisible
                /\ t.active = s.active /\ t.liveValue = s.liveValue
                /\ t.pending = s.pending /\ t.presentation = s.presentation
<1>. DEFINE c == CancelPendingZenz(s)
            z == [c EXCEPT !.visible = NoVisible]
            SameRest(t) == /\ t.deferred = NoDeferred /\ t.zenz = NoZenz
                           /\ SameComposition(s, t)
                           /\ t.active = s.active /\ t.liveValue = s.liveValue
                           /\ t.pending = s.pending
                           /\ t.presentation = s.presentation
<1>1. c \in Sessions /\ SameRest(c) /\ c.visible = s.visible
  BY NothingTyped
  DEF CancelPendingZenz, Composed, Sessions, SameComposition
<1>. HIDE DEF c
<1>2. z \in Sessions /\ SameRest(z) /\ z.visible = NoVisible
  BY <1>1, NothingTyped DEF Sessions, SameComposition
<1>3. ClearZenz(s) = z
  BY DEF ClearZenz, c
<1>. HIDE DEF z
<1>4. \A t \in Sessions : SameRest(t) => Consistent(t)
  BY DEF Consistent, Composed, LiveSpells, DeferredSpells, PendingSpells,
     SameComposition, NoDeferred, ShowsAReading, IsLive, CanOutputPending
<1>. QED
  BY <1>1, <1>2, <1>3, <1>4 DEF c

\* CancelPendingLiveConversion leaves the composition alone.
LEMMA PendingForgotten ==
  ASSUME NEW s, Composed(s)
  PROVE  LET t == DropPending(s)
         IN  /\ Composed(t) /\ PendingSpells(t) /\ SameComposition(s, t)
             /\ ~t.pending /\ t.active = s.active
             /\ t.liveValue = s.liveValue /\ t.presentation = s.presentation
             /\ t.deferred = s.deferred /\ t.visible = s.visible
             /\ t.zenz = s.zenz
             /\ Consistent(s) => Consistent(t)
<1>. DEFINE t == DropPending(s)
<1>1. /\ t \in Sessions /\ ~t.pending /\ t.active = s.active
      /\ t.liveValue = s.liveValue /\ t.presentation = s.presentation
      /\ t.deferred = s.deferred /\ t.visible = s.visible
      /\ t.zenz = s.zenz /\ SameComposition(s, t)
  BY NothingTyped DEF DropPending, Composed, Sessions, SameComposition
<1>. HIDE DEF t
<1>. QED
  BY <1>1 DEF t, Consistent, Composed, LiveSpells, DeferredSpells,
     PendingSpells, SameComposition, ShowsAReading, IsLive

\* Everything that was pending is dropped.
LEMMA AllDropped ==
  ASSUME NEW s, Composed(s), LiveSpells(s)
  PROVE  LET t == CancelPending(s)
         IN  /\ Consistent(t) /\ SameComposition(s, t) /\ ~t.pending
             /\ t.deferred = NoDeferred /\ t.zenz = NoZenz
             /\ t.visible = s.visible /\ t.active = s.active
             /\ t.liveValue = s.liveValue /\ t.presentation = s.presentation
<1>. DEFINE d == DropPending(s)
<1>1. /\ Composed(d) /\ PendingSpells(d) /\ SameComposition(s, d)
      /\ ~d.pending /\ d.active = s.active /\ d.liveValue = s.liveValue
      /\ d.presentation = s.presentation /\ d.visible = s.visible
  BY PendingForgotten
<1>. HIDE DEF d
<1>2. LiveSpells(d)
  BY <1>1 DEF LiveSpells, IsLive, SameComposition
<1>. QED
  BY <1>1, <1>2, ZenzDropped DEF CancelPending, d, SameComposition

\* ClearLiveConversionState: nothing live, pending or deferred is left.
LEMMA LiveForgotten ==
  ASSUME NEW s, Composed(s)
  PROVE  LET t == ClearLive(s)
         IN  /\ Consistent(t) /\ SameComposition(s, t) /\ ~t.pending
             /\ ~t.active /\ t.deferred = NoDeferred /\ t.zenz = NoZenz
             /\ t.visible = NoVisible /\ t.liveValue = <<>>
<1>. DEFINE d == DropPending(s)
            q == [d EXCEPT !.active = FALSE, !.fromComposition = FALSE,
                           !.liveValue = <<>>,
                           !.presentation = NoPresentation]
<1>1. Composed(d) /\ ~d.pending /\ SameComposition(s, d)
  BY PendingForgotten
<1>. HIDE DEF d
<1>2. /\ q \in Sessions /\ ~q.pending /\ ~q.active /\ q.liveValue = <<>>
      /\ SameComposition(s, q)
  BY <1>1, NothingTyped DEF Composed, Sessions, SameComposition
<1>. HIDE DEF q
<1>3. Composed(q) /\ LiveSpells(q) /\ PendingSpells(q)
  BY <1>2 DEF Composed, LiveSpells, PendingSpells, IsLive, SameComposition,
     ShowsAReading
<1>4. ClearLive(s) = ClearZenz(q)
  BY DEF ClearLive, d, q
<1>. QED
  BY <1>2, <1>3, <1>4, ZenzDropped DEF SameComposition
-----------------------------------------------------------------------------
\* What is typed, saved and on its way out.
SameWords(s, t) ==
  /\ t.key = s.key /\ t.cursor = s.cursor /\ t.undo = s.undo
  /\ t.result = s.result /\ t.callback = s.callback

\* A state that shows no reading, with or without its converter reset.
LEMMA CompositionLeft ==
  ASSUME NEW s \in Sessions, NEW state \in {"DIRECT", "PRECOMPOSITION"}
  PROVE  /\ LET t == EnterState(s, state)
            IN  /\ Consistent(t) /\ Emptied(t) /\ t.state = state
                /\ t.undo = s.undo /\ t.result = s.result
                /\ t.callback = s.callback /\ t.active = s.active
                /\ t.pending = s.pending /\ t.preedit = s.preedit
         /\ LET t == CancelConverter(EnterState(s, state))
            IN  /\ Consistent(t) /\ Emptied(t) /\ t.state = state
                /\ t.undo = s.undo /\ t.result = s.result
                /\ t.callback = s.callback /\ t.active = s.active
                /\ t.pending = s.pending /\ t.preedit = s.preedit
<1>. DEFINE e == EnterState(s, state)
            c == CancelConverter(e)
            Left(t) == /\ t \in Sessions /\ t.state = state /\ t.key = <<>>
                       /\ t.cursor = 0 /\ t.undo = s.undo
                       /\ t.result = s.result /\ t.callback = s.callback
                       /\ t.active = s.active /\ t.pending = s.pending
                       /\ t.preedit = s.preedit
<1>1. Left(e)
  BY NothingTyped DEF EnterState, Sessions
<1>. HIDE DEF e
<1>2. Left(c)
  BY <1>1, NothingTyped DEF CancelConverter, Sessions
<1>. HIDE DEF c
<1>3. \A t : Left(t) => Consistent(t) /\ Emptied(t)
  BY NoReadingShown DEF ShowsAReading, Emptied
<1>. QED
  BY <1>1, <1>2, <1>3 DEF e, c

\* Back from a conversion to its composition.
LEMMA CompositionEntered ==
  ASSUME NEW s, Consistent(s), s.key # <<>>, ShowsAReading(s) \/ ~s.pending
  PROVE  LET t == EnterState(s, "COMPOSITION")
         IN  /\ Consistent(t) /\ t.state = "COMPOSITION" /\ SameWords(s, t)
             /\ t.active = s.active /\ t.pending = s.pending
             /\ t.liveValue = s.liveValue /\ t.presentation = s.presentation
             /\ t.conversion = s.conversion /\ t.deferred = s.deferred
             /\ t.zenz = s.zenz /\ t.visible = s.visible
<1>. DEFINE t == EnterState(s, "COMPOSITION")
<1>1. t = [s EXCEPT !.state = "COMPOSITION"]
  BY DEF EnterState
<1>2. /\ t \in Sessions /\ t.state = "COMPOSITION" /\ SameWords(s, t)
      /\ t.active = s.active /\ t.pending = s.pending
      /\ t.liveValue = s.liveValue /\ t.presentation = s.presentation
      /\ t.conversion = s.conversion /\ t.deferred = s.deferred
      /\ t.zenz = s.zenz /\ t.visible = s.visible
  BY <1>1 DEF Consistent, Composed, Sessions, SameWords
<1>. HIDE DEF t
<1>. QED
  BY <1>2 DEF t, Consistent, Composed, LiveSpells, DeferredSpells,
     PendingSpells, SameWords, IsLive, ShowsAReading, CanOutputPending

\* A conversion gives way to its composition.
LEMMA ConversionGivesWay ==
  ASSUME NEW s, Consistent(s), s.state = "CONVERSION"
  PROVE  LET t == LeaveLiveConversion(s)
         IN  /\ Consistent(t) /\ t.state = "COMPOSITION" /\ SameWords(s, t)
             /\ ~t.active /\ t.pending = s.pending
             /\ t.liveValue = s.liveValue /\ t.presentation = s.presentation
             /\ t.visible = s.visible /\ t.deferred = s.deferred
<1>. DEFINE q == [s EXCEPT !.active = FALSE, !.fromComposition = FALSE]
            e == EnterState(q, "COMPOSITION")
            c == [e EXCEPT !.conversion = <<>>]
            Same(t) == /\ t \in Sessions /\ SameWords(s, t)
                       /\ ~t.active /\ t.pending = s.pending
                       /\ t.liveValue = s.liveValue
                       /\ t.presentation = s.presentation
                       /\ t.visible = s.visible /\ t.deferred = s.deferred
<1>1. /\ Same(q) /\ q.state = "CONVERSION" /\ q.conversion = s.conversion
  BY DEF Consistent, Composed, Sessions, SameWords
<1>. HIDE DEF q
<1>2. Consistent(q) /\ q.key # <<>> /\ ShowsAReading(q)
  BY <1>1 DEF Consistent, Composed, LiveSpells, DeferredSpells, PendingSpells,
     SameWords, IsLive, ShowsAReading, CanOutputPending
<1>3. Consistent(e) /\ Same(e) /\ e.state = "COMPOSITION"
  BY <1>1, <1>2, CompositionEntered DEF SameWords, Consistent, Composed
<1>. HIDE DEF e
<1>4. Same(c) /\ c.state = "COMPOSITION"
  BY <1>3, NothingTyped DEF Sessions, SameWords
<1>5. LeaveLiveConversion(s) = c
  BY DEF LeaveLiveConversion, CancelConverter, q, e
<1>. HIDE DEF c
<1>6. Consistent(c)
  BY <1>3, <1>4 DEF Consistent, Composed, LiveSpells, DeferredSpells,
     PendingSpells, SameWords, IsLive, ShowsAReading, CanOutputPending
<1>. QED
  BY <1>4, <1>5, <1>6

\* RestoreDeferredZenzLivePresentationForEditing ends a live conversion.
LEMMA DeferredTextRestored ==
  ASSUME NEW s, Consistent(s)
  PROVE  LET t == RestoreDeferred(s)
         IN  /\ Consistent(t) /\ SameWords(s, t) /\ ~t.pending
             /\ t.deferred = NoDeferred
             /\ t.presentation = s.presentation
             /\ t.state = IF IsLive(s) THEN "COMPOSITION" ELSE s.state
             /\ t.active => s.active /\ ~IsLive(s)
<1>. DEFINE c == CancelPending(s)
            l == IF s.active /\ s.state = "CONVERSION"
                 THEN LeaveLiveConversion(c) ELSE c
            t == [l EXCEPT !.liveValue = s.deferred.previous]
<1>1. /\ Consistent(c) /\ SameComposition(s, c) /\ ~c.pending
      /\ c.deferred = NoDeferred /\ c.active = s.active
      /\ c.presentation = s.presentation
  BY AllDropped DEF Consistent
<1>. HIDE DEF c
<1>2. /\ Consistent(l) /\ SameWords(s, l) /\ ~l.pending
      /\ l.state = (IF IsLive(s) THEN "COMPOSITION" ELSE s.state)
      /\ l.active => s.active /\ ~IsLive(s)
      /\ l.presentation = s.presentation /\ l.deferred = NoDeferred
  BY <1>1, ConversionGivesWay DEF SameComposition, SameWords, IsLive
<1>. HIDE DEF l
<1>3. s.deferred.previous \in Texts
  BY DEF Consistent, Composed, Sessions, Deferreds
<1>4. /\ t \in Sessions /\ SameWords(s, t) /\ ~t.pending
      /\ t.state = l.state /\ t.active = l.active
      /\ t.conversion = l.conversion
      /\ t.presentation = s.presentation /\ t.deferred = NoDeferred
  BY <1>2, <1>3 DEF Consistent, Composed, Sessions, SameWords
<1>5. RestoreDeferred(s) = t
  BY DEF RestoreDeferred, l, c
<1>. HIDE DEF t
<1>6. Consistent(t)
  BY <1>2, <1>4 DEF Consistent, Composed, LiveSpells, DeferredSpells,
     PendingSpells, SameWords, IsLive, ShowsAReading, NoDeferred
<1>. QED
  BY <1>2, <1>4, <1>5, <1>6

\* CancelLiveConversionForEditing leaves the composition, nothing of which is
\* pending, live or deferred.
LEMMA EditingTextCanceled ==
  ASSUME NEW s, Consistent(s), s.active => s.state = "CONVERSION"
  PROVE  LET t == CancelForEditing(s)
         IN  /\ Consistent(t) /\ SameWords(s, t) /\ ~t.pending /\ ~t.active
             /\ ~t.deferred.on
             /\ t.state = IF s.active THEN "COMPOSITION" ELSE s.state
<1>1. CASE HasDeferred(s)
  <2>. DEFINE r == RestoreDeferred(s)
              t == [r EXCEPT !.presentation = NoPresentation]
  <2>1. /\ Consistent(r) /\ SameWords(s, r) /\ ~r.pending
        /\ r.deferred = NoDeferred /\ ~r.active
        /\ r.state = IF s.active THEN "COMPOSITION" ELSE s.state
    BY DeferredTextRestored DEF IsLive
  <2>. HIDE DEF r
  <2>2. /\ t \in Sessions /\ SameWords(s, t) /\ ~t.pending
        /\ t.deferred = NoDeferred /\ ~t.active /\ t.state = r.state
        /\ t.conversion = r.conversion
    BY <2>1, NothingTyped DEF Consistent, Composed, Sessions, SameWords
  <2>3. CancelForEditing(s) = t
    BY <1>1 DEF CancelForEditing, r
  <2>. HIDE DEF t
  <2>4. Consistent(t)
    BY <2>1, <2>2 DEF Consistent, Composed, LiveSpells, DeferredSpells,
       PendingSpells, SameWords, IsLive, ShowsAReading
  <2>. QED
    BY <2>1, <2>2, <2>3, <2>4 DEF NoDeferred
<1>2. CASE ~HasDeferred(s)
  <2>. DEFINE p == [s EXCEPT !.presentation = NoPresentation]
              c == CancelPending(p)
              t == ClearZenz(c)
  <2>1. /\ p \in Sessions /\ SameComposition(s, p)
        /\ p.active = s.active /\ p.liveValue = s.liveValue
    BY NothingTyped DEF Consistent, Composed, Sessions, SameComposition
  <2>. HIDE DEF p
  <2>2. Composed(p) /\ LiveSpells(p)
    BY <2>1 DEF Consistent, Composed, LiveSpells, SameComposition, IsLive,
       ShowsAReading
  <2>3. /\ Consistent(c) /\ SameComposition(s, c) /\ ~c.pending
        /\ c.active = s.active
    BY <2>1, <2>2, AllDropped DEF SameComposition
  <2>. HIDE DEF c
  <2>4. /\ Consistent(t) /\ SameComposition(s, t) /\ ~t.pending
        /\ t.active = s.active /\ t.deferred = NoDeferred
    BY <2>3, ZenzDropped DEF Consistent, SameComposition
  <2>. HIDE DEF t
  <2>5. CancelForEditing(s) = IF s.active THEN LeaveLiveConversion(t) ELSE t
    BY <1>2 DEF CancelForEditing, t, c, p
  <2>. QED
    BY <2>4, <2>5, ConversionGivesWay
    DEF SameComposition, SameWords, NoDeferred
<1>. QED
  BY <1>1, <1>2
-----------------------------------------------------------------------------
\* Session::PushUndoContext saves a context that can be restored.
LEMMA ContextSaved ==
  ASSUME NEW s, Composed(s), ShowsAReading(s)
  PROVE  LET t == PushUndo(s)
         IN  Composed(t) /\ SameTexts(s, t) /\ t.result = s.result
<1>. DEFINE pending == s.pending /\ s.state = "COMPOSITION"
            entry == [state |-> s.state, key |-> s.key, cursor |-> s.cursor,
                      conversion |-> s.conversion,
                      committed |-> s.committed,
                      pendingKey |-> IF pending THEN s.pendingKey ELSE <<>>,
                      presentation |-> IF pending THEN s.presentation
                                       ELSE NoPresentation,
                      delivered |-> 0,
                      liveValue |-> IF pending THEN s.liveValue ELSE <<>>]
            stack == Append(s.undo, entry)
            undo == IF Len(stack) > MaxUndo THEN Tail(stack) ELSE stack
            t == [s EXCEPT !.undo = undo]
<1>1. entry \in Entries
  BY NothingTyped DEF Entries, Composed, Sessions, ShowsAReading
<1>. HIDE DEF entry
<1>2. s.undo \in Seq(Entries) /\ Len(s.undo) <= MaxUndo
  BY DEF Composed, Sessions, Stacks
<1>3. stack \in Seq(Entries) /\ Len(stack) = Len(s.undo) + 1
  BY <1>1, <1>2
<1>. HIDE DEF stack
<1>4. Tail(stack) \in Seq(Entries) /\ Len(Tail(stack)) = Len(s.undo)
  BY <1>2, <1>3
<1>5. undo \in Stacks
  BY <1>2, <1>3, <1>4, BoundsAssumption DEF Stacks
<1>. HIDE DEF undo
<1>6. t \in Sessions /\ SameTexts(s, t) /\ t.result = s.result
  BY <1>5 DEF Composed, Sessions, SameTexts
<1>7. PushUndo(s) = t
  BY DEF PushUndo, t, undo, stack, entry
<1>. HIDE DEF t
<1>. QED
  BY <1>6, <1>7 DEF Composed, SameTexts, ShowsAReading

\* CommitStringDirectly leaves no reading to spell.
LEMMA DirectlySpelt ==
  ASSUME NEW s \in Sessions, NEW value \in Texts, value # <<>>
  PROVE  LET t == CommitStringDirectly(s, value)
         IN  Spells(t) /\ t.state = "PRECOMPOSITION"
<1>. DEFINE q == [s EXCEPT !.result = @ \o value]
            c == [q EXCEPT !.conversion = <<>>]
            e == EnterState(c, "PRECOMPOSITION")
<1>1. s.result \o value \in Texts
  BY JoinSpells DEF Sessions
<1>2. q \in Sessions
  BY <1>1 DEF Sessions
<1>. HIDE DEF q
<1>3. c \in Sessions
  BY <1>2, NothingTyped DEF Sessions
<1>4. CommitStringDirectly(s, value) = Output(e)
  BY DEF CommitStringDirectly, CancelConverter, e, c, q
<1>. HIDE DEF c
<1>5. Consistent(e) /\ Emptied(e) /\ e.state = "PRECOMPOSITION"
  BY <1>3, CompositionLeft
<1>. HIDE DEF e
<1>. QED
  BY <1>4, <1>5, OutputSpells DEF Spells, SameTexts

\* Counting what was delivered changes nothing on the screen.
LEMMA ResultCounted ==
  ASSUME NEW s, Spells(s)
  PROVE  LET t == RememberResult(s)
         IN  Spells(t) /\ SameTexts(s, t) /\ t.result = s.result
<1>. DEFINE t == RememberResult(s)
<1>1. Len(s.result) \in Nat
  BY DEF Spells, Consistent, Composed, Sessions, Texts
<1>2. /\ t \in Sessions /\ SameTexts(s, t) /\ t.preedit = s.preedit
      /\ t.result = s.result
  BY <1>1
  DEF RememberResult, Spells, Consistent, Composed, Sessions, SameTexts
<1>. HIDE DEF t
<1>. QED
  BY <1>2, SameConsistent
  DEF t, Spells, OnScreen, Spelling, ShowsAReading, SameTexts

\* CommitInternal: the composer and the converter are left behind.
LEMMA CommittedAndLeft ==
  ASSUME NEW s, Consistent(s), Emptied(s)
  PROVE  LET t == CommitInternal(s)
         IN  /\ Spells(t) /\ ~ShowsAReading(t)
             /\ ShowsAReading(s) =>
                  /\ t.key = <<>> /\ t.cursor = 0 /\ ~t.pending /\ ~t.active
                  /\ t.state = "PRECOMPOSITION" /\ ~t.deferred.on
<1>1. CASE ~ShowsAReading(s)
  BY <1>1, OutputSpells
  DEF CommitInternal, DoNothing, ShowsAReading, SameTexts
<1>2. CASE ShowsAReading(s)
  <2>. DEFINE p == PushUndo(s)
              q == [p EXCEPT !.result = @ \o Plain(s)]
              c == [q EXCEPT !.conversion = <<>>]
              e == EnterState(c, "PRECOMPOSITION")
              r == RememberResult(Output(e))
              t == ClearLive(r)
  <2>1. p \in Sessions
    BY <1>2, ContextSaved DEF Consistent, Composed
  <2>. HIDE DEF p
  <2>2. p.result \o Plain(s) \in Texts
    BY <2>1, PlainSpells, JoinSpells DEF Sessions
  <2>3. q \in Sessions
    BY <2>1, <2>2 DEF Sessions
  <2>. HIDE DEF q
  <2>4. c \in Sessions
    BY <2>3, NothingTyped DEF Sessions
  <2>. HIDE DEF c
  <2>5. /\ Consistent(e) /\ Emptied(e) /\ e.state = "PRECOMPOSITION"
        /\ e.key = <<>> /\ e.cursor = 0
    BY <2>4, CompositionLeft DEF EnterState, Sessions
  <2>. HIDE DEF e
  <2>6. /\ Spells(r) /\ r.state = "PRECOMPOSITION" /\ r.key = <<>>
        /\ r.cursor = 0
    BY <2>5, OutputSpells, ResultCounted DEF Spells, SameTexts
  <2>. HIDE DEF r
  <2>7. /\ Consistent(t) /\ SameComposition(r, t) /\ ~t.pending /\ ~t.active
        /\ ~t.deferred.on
    BY <2>6, LiveForgotten DEF Spells, Consistent, NoDeferred
  <2>8. CommitInternal(s) = t
    BY <1>2 DEF CommitInternal, ShowsAReading, CancelConverter, t, r, e, c, q,
       p
  <2>. HIDE DEF t
  <2>. QED
    BY <2>6, <2>7, <2>8
    DEF SameComposition, Spells, OnScreen, Spelling, ShowsAReading
<1>. QED
  BY <1>1, <1>2

\* Whichever text Enter commits, no reading is left to show.
LEMMA EnterSpells ==
  ASSUME NEW s, Consistent(s), Emptied(s), s.deferred.on => IsLive(s),
         NEW e, e.generation \in Numbers
  PROVE  LET t == Commit(s, e) IN Spells(t) /\ ~ShowsAReading(t)
<1>1. CASE HasDeferred(s)
  <2>. DEFINE value == s.deferred.value
              r == RestoreDeferred(s)
              q == [r EXCEPT !.pending = TRUE,
                             !.pendingGeneration = e.generation,
                             !.pendingKey = s.key,
                             !.presentation =
                               Presentation(value,
                                            s.deferred.continued.stable)]
              u == ClearLive(PushUndo(q))
              c == CommitStringDirectly(u, value)
  <2>1. Consistent(r) /\ r.state = "COMPOSITION"
    BY <1>1, DeferredTextRestored DEF HasDeferred
  <2>. HIDE DEF r
  <2>2. /\ value \in Texts /\ s.key \in Readings
        /\ Presentation(value, s.deferred.continued.stable) \in Presentations
    BY DEF Consistent, Composed, Sessions, Deferreds, Presentations,
       Presentation
  <2>. HIDE DEF value
  <2>3. q \in Sessions /\ SameComposition(r, q)
    BY <2>1, <2>2 DEF Consistent, Composed, Sessions, SameComposition
  <2>. HIDE DEF q
  <2>4. Composed(q) /\ ShowsAReading(q)
    BY <2>1, <2>3
    DEF Consistent, Composed, SameComposition, ShowsAReading
  <2>5. u \in Sessions
    BY <2>4, ContextSaved, LiveForgotten DEF Consistent, Composed
  <2>. HIDE DEF u
  <2>6. value # <<>> => Spells(c) /\ c.state = "PRECOMPOSITION"
    BY <2>2, <2>5, DirectlySpelt
  <2>. HIDE DEF c
  <2>7. Commit(s, e) = IF value = <<>> THEN CommitInternal(r)
                       ELSE RememberResult(c)
    BY <1>1 DEF Commit, CommitDeferred, c, u, q, r, value
  <2>. QED
    BY <2>1, <2>6, <2>7, CommittedAndLeft, ResultCounted
    DEF ShowsAReading, SameTexts, Emptied
<1>2. CASE ~HasDeferred(s) /\ HasVisibleZenz(s)
  <2>1. ClearLive(s) \in Sessions /\ s.visible.value \in Texts
    BY LiveForgotten DEF Consistent, Composed, Sessions, Visibles
  <2>2. s.visible.value # <<>> /\ Commit(s, e) =
          CommitStringDirectly(ClearLive(s), s.visible.value)
    BY <1>2 DEF Commit, CommitZenz, HasVisibleZenz
  <2>. QED
    BY <2>1, <2>2, DirectlySpelt DEF ShowsAReading
<1>3. CASE /\ ~HasDeferred(s) /\ ~HasVisibleZenz(s)
           /\ s.pending /\ s.state = "COMPOSITION" /\ s.key # <<>>
  <2>. DEFINE value == PendingCommitText(s.key, s.presentation, s.liveValue)
              u == ClearLive(PushUndo(s))
              c == CommitStringDirectly(u, value)
  <2>1. value \in Texts /\ Reading(value) = s.key
    BY PendingCommitTextSpells DEF Consistent, Composed, Sessions
  <2>2. value # <<>>
    BY <1>3, <2>1, ReadingIsAReading DEF Texts, Readings
  <2>. HIDE DEF value
  <2>3. u \in Sessions
    BY <1>3, ContextSaved, LiveForgotten
    DEF Consistent, Composed, ShowsAReading
  <2>. HIDE DEF u
  <2>4. Spells(c) /\ c.state = "PRECOMPOSITION"
    BY <2>1, <2>2, <2>3, DirectlySpelt
  <2>. HIDE DEF c
  <2>5. Commit(s, e) = RememberResult(c)
    BY <1>3 DEF Commit, CommitPending, c, u, value
  <2>. QED
    BY <2>4, <2>5, ResultCounted DEF ShowsAReading, SameTexts
<1>4. CASE /\ ~HasDeferred(s) /\ ~HasVisibleZenz(s)
           /\ ~(s.pending /\ s.state = "COMPOSITION" /\ s.key # <<>>)
  BY <1>4, CommittedAndLeft DEF Commit
<1>. QED
  BY <1>1, <1>2, <1>3, <1>4
-----------------------------------------------------------------------------
\* ClearUndoContext changes nothing on the screen.
LEMMA UndoForgotten ==
  ASSUME NEW s, s \in Sessions
  PROVE  LET t == ClearUndo(s)
         IN  /\ t \in Sessions /\ SameTexts(s, t) /\ t.visible = s.visible
             /\ Consistent(s) => Consistent(t)
<1>. DEFINE t == ClearUndo(s)
<1>1. <<>> \in Stacks
  BY BoundsAssumption DEF Stacks
<1>2. t \in Sessions /\ SameTexts(s, t) /\ t.visible = s.visible
  BY <1>1 DEF ClearUndo, Sessions, SameTexts
<1>. HIDE DEF t
<1>. QED
  BY <1>2, SameConsistent DEF t

\* The composer's own operations keep a reading a reading.
LEMMA ReadingEdited ==
  ASSUME NEW reading \in Readings, NEW i \in Nat, NEW c \in Characters
  PROVE  /\ i \in 0..Len(reading) =>
              /\ InsertAt(reading, i + 1, c) \in Readings
              /\ Len(InsertAt(reading, i + 1, c)) = Len(reading) + 1
         /\ i \in 1..Len(reading) =>
              /\ RemoveAt(reading, i) \in Readings
              /\ Len(RemoveAt(reading, i)) = Len(reading) - 1
         /\ reading # <<>> =>
              /\ Append(Front(reading), c) \in Readings
              /\ Len(Append(Front(reading), c)) = Len(reading)
<1>1. Len(reading) \in Nat /\ reading \in Seq(Characters)
  BY DEF Readings
<1>2. ASSUME i \in 0..Len(reading)
      PROVE  /\ InsertAt(reading, i + 1, c) \in Readings
             /\ Len(InsertAt(reading, i + 1, c)) = Len(reading) + 1
  <2>. DEFINE t == SubSeq(reading, 1, i)
              u == SubSeq(reading, i + 1, Len(reading))
              one == <<c>>
              front == t \o one
              all == front \o u
  <2>1. t \in Seq(Characters) /\ Len(t) = i
    BY <1>1, <1>2
  <2>2. u \in Seq(Characters) /\ Len(u) = Len(reading) - i
    BY <1>1, <1>2
  <2>3. one \in Seq(Characters) /\ Len(one) = 1
    OBVIOUS
  <2>4. InsertAt(reading, i + 1, c) = all
    <3>1. (i + 1) - 1 = i
      OBVIOUS
    <3>. QED
      BY <3>1 DEF InsertAt
  <2>. HIDE DEF t, u, one
  <2>5. front \in Seq(Characters) /\ Len(front) = Len(t) + Len(one)
    BY <2>1, <2>3, ConcatProperties
  <2>. HIDE DEF front
  <2>6. all \in Seq(Characters) /\ Len(all) = Len(front) + Len(u)
    BY <2>2, <2>5, ConcatProperties
  <2>. HIDE DEF all
  <2>7. Len(all) = Len(reading) + 1
    BY <1>1, <2>1, <2>2, <2>3, <2>5, <2>6
  <2>. QED
    BY <2>4, <2>6, <2>7 DEF Readings
<1>3. ASSUME i \in 1..Len(reading)
      PROVE  /\ RemoveAt(reading, i) \in Readings
             /\ Len(RemoveAt(reading, i)) = Len(reading) - 1
  <2>. DEFINE t == SubSeq(reading, 1, i - 1)
              u == SubSeq(reading, i + 1, Len(reading))
  <2>1. t \in Seq(Characters) /\ Len(t) = i - 1
    BY <1>1, <1>3
  <2>2. u \in Seq(Characters) /\ Len(u) = Len(reading) - i
    BY <1>1, <1>3
  <2>3. RemoveAt(reading, i) = t \o u
    BY DEF RemoveAt
  <2>. HIDE DEF t, u
  <2>. QED
    BY <1>1, <2>1, <2>2, <2>3 DEF Readings
<1>4. ASSUME reading # <<>>
      PROVE  /\ Append(Front(reading), c) \in Readings
             /\ Len(Append(Front(reading), c)) = Len(reading)
  <2>. DEFINE n == Len(reading) - 1
              front == SubSeq(reading, 1, n)
  <2>1. front \in Seq(Characters) /\ Len(front) = n /\ Front(reading) = front
    <3>1. n \in Nat /\ n <= Len(reading)
      BY <1>1, <1>4
    <3>2. Front(reading) = front
      BY DEF Front
    <3>. HIDE DEF n
    <3>. QED
      BY <1>1, <3>1, <3>2
  <2>. QED
    BY <1>1, <2>1 DEF Readings
<1>. QED
  BY <1>2, <1>3, <1>4

\* A character lengthens the reading: a live text would not spell it.
LEMMA CharacterComposed ==
  ASSUME NEW s, Composed(s), s.state # "CONVERSION", NEW c \in Characters
  PROVE  LET t == ComposerInsert(s, c)
         IN  /\ Composed(t) /\ t.key # <<>> /\ t.state = s.state
             /\ t.pending = s.pending /\ t.active = s.active
             /\ t.deferred = s.deferred
             /\ ~s.pending => Consistent(t)
<1>. DEFINE t == ComposerInsert(s, c)
            completed == Append(Front(s.key), "k")
            inserted == InsertAt(s.key, s.cursor + 1, c)
<1>1. s.key \in Readings /\ s.cursor \in 0..Len(s.key) /\ Len(s.key) \in Nat
  BY DEF Composed, Sessions, Readings
<1>2. s.key # <<>> =>
        /\ completed \in Readings /\ Len(completed) = Len(s.key)
        /\ Len(s.key) > 0
  <2>1. "k" \in Characters
    BY DEF Characters
  <2>2. s.key # <<>> =>
          completed \in Readings /\ Len(completed) = Len(s.key)
    BY <1>1, <2>1, ReadingEdited
  <2>3. s.key # <<>> => Len(s.key) > 0
    BY <1>1 DEF Readings
  <2>. QED
    BY <2>2, <2>3
<1>3. inserted \in Readings /\ Len(inserted) = Len(s.key) + 1
  BY <1>1, ReadingEdited
<1>4. Len(<<>>) = 0
  OBVIOUS
<1>5. t = IF CursorAtEnd(s) /\ HasTransientTail(s.key) /\ c = "a"
          THEN [s EXCEPT !.key = completed]
          ELSE [s EXCEPT !.key = inserted, !.cursor = @ + 1]
  BY DEF ComposerInsert
<1>. HIDE DEF t, completed, inserted
<1>6. /\ t \in Sessions /\ t.key # <<>> /\ t.cursor <= Len(t.key)
      /\ t.state = s.state /\ t.pending = s.pending /\ t.active = s.active
      /\ t.deferred = s.deferred
  <2>1. CASE CursorAtEnd(s) /\ HasTransientTail(s.key) /\ c = "a"
    BY <1>1, <1>2, <1>4, <1>5, <2>1
    DEF HasTransientTail, Composed, Sessions
  <2>2. CASE ~(CursorAtEnd(s) /\ HasTransientTail(s.key) /\ c = "a")
    <3>1. s \in Sessions /\ s.cursor + 1 \in Nat /\ s.cursor \in Nat
      BY <1>1 DEF Composed
    <3>2. t = [s EXCEPT !.key = inserted, !.cursor = s.cursor + 1]
      BY <1>5, <2>2, <3>1 DEF Sessions
    <3>3. /\ t \in Sessions /\ t.key = inserted /\ t.cursor = s.cursor + 1
          /\ t.state = s.state /\ t.pending = s.pending
          /\ t.active = s.active /\ t.deferred = s.deferred
      BY <1>3, <3>1, <3>2 DEF Sessions
    <3>. QED
      BY <1>1, <1>3, <1>4, <3>3
  <2>. QED
    BY <2>1, <2>2
<1>7. Composed(t)
  BY <1>6 DEF Composed
<1>. QED
  BY <1>6, <1>7 DEF t, Consistent, LiveSpells, DeferredSpells, PendingSpells,
     IsLive

\* An erased character leaves the cursor in the reading.
LEMMA CharacterErased ==
  ASSUME NEW s, Consistent(s), s.state # "CONVERSION", ~s.pending,
         NEW i \in Nat, NEW cursor \in Nat,
         cursor <= s.cursor,
         i \in DOMAIN s.key => cursor < Len(s.key)
  PROVE  LET t == [ComposerErase(s, i) EXCEPT !.cursor = cursor]
         IN  /\ t \in Sessions /\ t.cursor <= Len(t.key)
             /\ t.state = s.state /\ ~t.pending
             /\ t.active = s.active
             /\ t.key # <<>> => Consistent(t)
<1>. DEFINE r == RemoveAt(s.key, i)
            p == ComposerErase(s, i)
            t == [p EXCEPT !.cursor = cursor]
<1>1. /\ s.key \in Readings /\ Len(s.key) \in Nat
      /\ DOMAIN s.key = 1..Len(s.key) /\ s.cursor <= Len(s.key)
      /\ s.cursor \in Nat
  BY DEF Consistent, Composed, Sessions, Readings
<1>2. i \in DOMAIN s.key => r \in Readings /\ Len(r) = Len(s.key) - 1
  <2>1. "a" \in Characters
    BY DEF Characters
  <2>. QED
    BY <1>1, <2>1, ReadingEdited
<1>. HIDE DEF r
<1>3. p = IF i \in DOMAIN s.key THEN [s EXCEPT !.key = r] ELSE s
  BY DEF ComposerErase, r
<1>. HIDE DEF p
<1>4. /\ p \in Sessions /\ cursor <= Len(p.key)
      /\ p.state = s.state /\ ~p.pending /\ p.active = s.active
  BY <1>1, <1>2, <1>3 DEF Consistent, Composed, Sessions
<1>5. /\ t \in Sessions /\ t.key = p.key /\ t.cursor = cursor
      /\ t.state = s.state /\ ~t.pending /\ t.active = s.active
  BY <1>4 DEF Sessions
<1>. HIDE DEF t
<1>. QED
  BY <1>4, <1>5 DEF t, p, Consistent, Composed, LiveSpells, DeferredSpells,
     PendingSpells, IsLive

\* What is captured of a display before a key is a basis to present it on.
LEMMA CaptureTyped ==
  ASSUME NEW s, Consistent(s), s.deferred.on => IsLive(s)
  PROVE  Capture(s) \in Presentations
<1>. DEFINE seen == Presentation(s.visible.value, s.visible.stable)
            visible == Presentation(s.visible.value,
                         MergeStableSpans(s.liveValue, s.visible.value, seen))
            deferred == Presentation(s.deferred.value,
                          BuildStableSpans(s.liveValue, s.deferred.value))
<1>1. /\ s.liveValue \in Texts /\ s.visible \in Visibles
      /\ s.deferred \in Deferreds /\ s.presentation \in Presentations
  BY DEF Consistent, Composed, Sessions
<1>2. /\ s.visible.value \in Texts /\ s.visible.mozc \in Texts
      /\ Reading(s.visible.value) = Reading(s.visible.mozc)
      /\ seen \in Presentations
  BY <1>1 DEF Visibles, Presentation, Presentations
<1>3. s.deferred.value \in Texts /\ s.deferred.continued \in Presentations
  BY <1>1 DEF Deferreds
<1>4. ASSUME HasVisibleZenz(s) PROVE visible \in Presentations
  <2>1. Len(s.visible.value) = Len(s.liveValue)
    BY <1>2, <1>4, ReadingIsAReading DEF HasVisibleZenz
  <2>2. MergeStableSpans(s.liveValue, s.visible.value, seen)
          \in 0..Len(s.visible.value)
    <3>. HIDE DEF seen
    <3>. QED
      BY <1>1, <1>2, <2>1, MergedIsWithin
  <2>3. Len(s.visible.value) \in Nat
    BY <1>2 DEF Texts
  <2>. QED
    BY <1>2, <2>2, <2>3 DEF Presentation, Presentations
<1>5. ASSUME HasDeferred(s) PROVE deferred \in Presentations
  <2>1. Reading(s.deferred.value) = Reading(s.liveValue)
    BY <1>5
    DEF HasDeferred, Consistent, LiveSpells, DeferredSpells, IsLive
  <2>2. Len(s.deferred.value) = Len(s.liveValue)
    BY <1>1, <1>3, <2>1, ReadingIsAReading
  <2>3. BuildStableSpans(s.liveValue, s.deferred.value)
          \in 0..Len(s.deferred.value)
    BY <1>1, <1>3, <2>2, NothingTyped, MergedIsWithin DEF BuildStableSpans
  <2>4. Len(s.deferred.value) \in Nat
    BY <1>3 DEF Texts
  <2>. QED
    BY <1>3, <2>3, <2>4 DEF Presentation, Presentations
<1>6. \/ Capture(s) = visible /\ HasVisibleZenz(s)
      \/ Capture(s) = deferred /\ HasDeferred(s)
      \/ Capture(s) \in {s.presentation, s.deferred.continued}
  BY DEF Capture
<1>. HIDE DEF visible, deferred
<1>. QED
  BY <1>1, <1>3, <1>4, <1>5, <1>6

\* A key that types finds nothing pending, live or deferred, and what it typed
\* in the composer.
LEMMA TypedIn ==
  ASSUME NEW s, Consistent(s), s.deferred.on => IsLive(s),
         s.active => s.state = "CONVERSION", NEW c \in Characters
  PROVE  LET t == InsertInto(s, c)
         IN  /\ Consistent(t) /\ t.key # <<>> /\ t.state # "CONVERSION"
             /\ ~t.pending /\ ~t.active
<1>. DEFINE seen == Capture(s)
            f == CancelForEditing(s)
            u == IF seen # NoPresentation THEN [f EXCEPT !.presentation = seen]
                 ELSE f
            v == IF u.state = "CONVERSION" THEN CommitInternal(u) ELSE u
            i == ComposerInsert(v, c)
            w == ClearUndo(i)
            q == [w EXCEPT !.liveValue = <<>>]
<1>1. seen \in Presentations
  BY CaptureTyped
<1>. HIDE DEF seen
<1>2. Consistent(f) /\ ~f.pending /\ ~f.active
  BY EditingTextCanceled
<1>. HIDE DEF f
<1>3. /\ u \in Sessions /\ u.state = f.state /\ u.key = f.key
      /\ u.cursor = f.cursor /\ u.conversion = f.conversion
      /\ ~u.pending /\ ~u.active /\ u.deferred = f.deferred
  BY <1>1, <1>2 DEF Consistent, Composed, Sessions
<1>. HIDE DEF u
<1>4. Consistent(u)
  BY <1>2, <1>3 DEF Consistent, Composed, LiveSpells, DeferredSpells,
     PendingSpells, IsLive, ShowsAReading
<1>5. Consistent(v) /\ v.state # "CONVERSION" /\ ~v.pending /\ ~v.active
  BY <1>3, <1>4, CommittedAndLeft DEF Spells, ShowsAReading, Emptied
<1>. HIDE DEF v
<1>6. /\ Consistent(i) /\ i.key # <<>> /\ i.state # "CONVERSION"
      /\ ~i.pending /\ ~i.active
  BY <1>5, CharacterComposed DEF Consistent
<1>. HIDE DEF i
<1>7. /\ Consistent(w) /\ w.key # <<>> /\ w.state # "CONVERSION"
      /\ ~w.pending /\ ~w.active
  BY <1>6, UndoForgotten DEF Consistent, Composed, SameTexts
<1>. HIDE DEF w
<1>8. /\ q \in Sessions /\ SameComposition(w, q) /\ ~q.pending /\ ~q.active
  BY <1>7, NothingTyped DEF Consistent, Composed, Sessions, SameComposition
<1>. HIDE DEF q
<1>9. Composed(q) /\ LiveSpells(q) /\ PendingSpells(q)
  BY <1>7, <1>8 DEF Consistent, Composed, LiveSpells, PendingSpells, IsLive,
     SameComposition, ShowsAReading
<1>10. /\ Consistent(ClearZenz(q)) /\ ~ClearZenz(q).pending
       /\ ~ClearZenz(q).active /\ SameComposition(q, ClearZenz(q))
  BY <1>8, <1>9, ZenzDropped
<1>11. InsertInto(s, c) = IF ~s.active /\ ~w.pending /\ Len(w.key) = 1
                          THEN ClearZenz(q) ELSE w
  BY DEF InsertInto, q, w, i, v, u, f, seen
<1>. QED
  BY <1>7, <1>8, <1>10, <1>11 DEF SameComposition

\* A mark that commits what it follows leaves no reading to show.
LEMMA MarkSpells ==
  ASSUME NEW s, Consistent(s), s.deferred.on => IsLive(s),
         s.active => s.state = "CONVERSION"
  PROVE  Spells(InsertPunctuation(s))
<1>. DEFINE mark == Raw(<<".">>)
            t == InsertInto(s, ".")
<1>1. "." \in Characters /\ <<".">> \in Readings /\ Len(<<".">>) = 1
  BY DEF Characters, Readings
<1>2. mark \in Texts /\ Len(mark) = 1
  BY <1>1, RawSpells
<1>. HIDE DEF mark
<1>3. Consistent(t) /\ t.key # <<>>
  BY <1>1, TypedIn
<1>. HIDE DEF t
<1>4. \A x \in Texts : x \o mark \in Texts /\ x \o mark # <<>>
  <2>. TAKE x \in Texts
  <2>1. x \o mark \in Texts /\ Len(x \o mark) = Len(x) + 1
    BY <1>2, JoinSpells
  <2>2. Len(x) \in Nat
    BY DEF Texts
  <2>3. Len(x \o mark) # 0 /\ Len(<<>>) = 0
    BY <2>1, <2>2
  <2>. QED
    BY <2>1, <2>3
<1>5. ASSUME NEW x, Composed(x), x.key # <<>>
      PROVE  Spells(CommitPendingDirectly(x))
  <2>. DEFINE value == PendingCommitText(x.key, x.presentation, x.liveValue)
  <2>1. value \in Texts /\ Reading(value) = x.key
    BY <1>5, PendingCommitTextSpells DEF Composed, Sessions
  <2>2. value # <<>>
    BY <1>5, <2>1, ReadingIsAReading DEF Composed, Sessions, Texts, Readings
  <2>. HIDE DEF value
  <2>3. ClearLive(x) \in Sessions
    BY <1>5, LiveForgotten DEF Consistent, Composed
  <2>. QED
    BY <2>1, <2>2, <2>3, DirectlySpelt DEF CommitPendingDirectly, value
<1>6. ClearLive(t) \in Sessions /\ t \in Sessions
  BY <1>3, LiveForgotten DEF Consistent, Composed
<1>7. ASSUME s.pending /\ s.state = "COMPOSITION"
      PROVE  Spells(CommitPendingDirectly(ClearUndo(ComposerInsert(s, "."))))
  <2>1. Composed(ComposerInsert(s, ".")) /\ ComposerInsert(s, ".").key # <<>>
    BY <1>1, <1>7, CharacterComposed DEF Consistent
  <2>2. /\ Composed(ClearUndo(ComposerInsert(s, ".")))
        /\ ClearUndo(ComposerInsert(s, ".")).key # <<>>
    BY <2>1, UndoForgotten DEF Composed, SameTexts, ShowsAReading
  <2>. QED
    BY <1>5, <2>2
<1>8. /\ s.visible.value \in Texts /\ t.liveValue \in Texts
      /\ t.key \in Readings
  BY <1>6 DEF Consistent, Composed, Sessions, Visibles
<1>9. /\ Spells(CommitStringDirectly(ClearLive(t), s.visible.value \o mark))
      /\ Spells(CommitStringDirectly(ClearLive(t), t.liveValue \o mark))
  BY <1>4, <1>6, <1>8, DirectlySpelt
<1>10. Spells(CommitPendingDirectly(t))
  BY <1>3, <1>5 DEF Consistent
<1>11. Spells(CommitStringDirectly(t, Raw(t.key)))
  <2>1. Raw(t.key) \in Texts /\ Raw(t.key) # <<>>
    BY <1>3, <1>8, RawSpells DEF Texts, Readings
  <2>. QED
    BY <1>6, <2>1, DirectlySpelt
<1>. QED
  BY <1>7, <1>9, <1>10, <1>11 DEF InsertPunctuation, t, mark
-----------------------------------------------------------------------------
\* A rewritten text spells the same.
LEMMA RewriteSpells ==
  ASSUME NEW text \in Texts, text # <<>>, NEW how
  PROVE  /\ Rewrite(text, how) \in Texts
         /\ Reading(Rewrite(text, how)) = Reading(text)
         /\ Len(Rewrite(text, how)) = Len(text)
<1>. DEFINE reading == Reading(text)
            all == Write(reading, "zenz")
            head == SubSeq(text, 1, 1)
            rest == Tail(all)
<1>1. Len(text) \in Nat /\ Len(text) >= 1 /\ 1 \in Nat
  BY DEF Texts
<1>2. reading \in Readings /\ Len(reading) = Len(text)
  BY ReadingIsAReading
<1>3. all \in Texts /\ Len(all) = Len(text) /\ Reading(all) = reading
  BY <1>2, WriteSpells DEF Styles
<1>. HIDE DEF all, reading
<1>4. rest = SubSeq(all, 2, Len(text))
  <2>1. all # <<>>
    BY <1>1, <1>3
  <2>. QED
    BY <1>3, <2>1, TailIsSubSeq DEF Texts
<1>5. rest \in Texts /\ Reading(rest) = SubSeq(reading, 2, Len(text))
  <2>1. 2 \in Nat /\ 1 <= 2 /\ Len(text) <= Len(all)
    BY <1>1, <1>3
  <2>. QED
    <3>2. PICK two \in Nat : two = 2
      OBVIOUS
    <3>3. 1 <= two
      BY <3>2
    <3>4. /\ SubSeq(all, two, Len(text)) \in Texts
          /\ Reading(SubSeq(all, two, Len(text))) =
               SubSeq(Reading(all), two, Len(text))
      BY <1>1, <1>3, <2>1, <3>3, PartSpells, Zenon
    <3>1. /\ SubSeq(all, 2, Len(text)) \in Texts
          /\ Reading(SubSeq(all, 2, Len(text))) =
               SubSeq(Reading(all), 2, Len(text))
      BY <3>2, <3>4, Zenon
    <3>. HIDE DEF rest
    <3>. QED
      BY <1>3, <1>4, <3>1
<1>6. head \in Texts /\ Reading(head) = SubSeq(reading, 1, 1)
  <2>1. 1 <= 1
    OBVIOUS
  <2>. QED
    BY <1>1, <2>1, PartSpells DEF reading
<1>7. SubSeq(reading, 1, 1) \o SubSeq(reading, 2, Len(text)) = reading
  <2>1. 1 \in 0..Len(reading) /\ 1 + 1 = 2
    BY <1>1, <1>2
  <2>. QED
    BY <1>2, <2>1, PartsJoin
<1>. HIDE DEF head, rest
<1>8. head \o rest \in Texts /\ Reading(head \o rest) = reading
  BY <1>5, <1>6, <1>7, JoinSpells
<1>9. Rewrite(text, how) \in {all, head \o rest, text}
  BY DEF Rewrite, all, head, rest, reading
<1>10. /\ Rewrite(text, how) \in Texts
       /\ Reading(Rewrite(text, how)) = Reading(text)
  BY <1>3, <1>8, <1>9 DEF reading
<1>. QED
  BY <1>10, ReadingIsAReading

\* What MayScheduleZenz asks of the live conversion.
Correctable(s) ==
  Spells(s) /\ IsLive(s) /\ s.liveValue # <<>>

\* A visible correction of the live conversion, whatever becomes of the rest.
LEMMA CorrectionShown ==
  ASSUME NEW s, Consistent(s), IsLive(s),
         NEW t \in Sessions, t.state = s.state, t.key = s.key,
         t.cursor = s.cursor, t.conversion = s.conversion,
         t.active = s.active, t.liveValue = s.liveValue,
         t.pending = s.pending, t.deferred \in {s.deferred, NoDeferred},
         t.visible.value # <<>>, t.visible.mozc = t.liveValue
  PROVE  Spells(OutputZenz(t))
<1>1. IsPrefix(Reading(t.liveValue), t.key)
  BY ReadingIsAReading, PrefixOfItself
  DEF Consistent, Composed, Sessions, LiveSpells
<1>2. CanOutputPending(t)
  BY <1>1, BasisFits DEF CanOutputPending, CanPresent, Sessions
<1>3. Consistent(t) /\ IsLive(t)
  BY <1>2 DEF Consistent, Composed, LiveSpells, DeferredSpells,
     PendingSpells, NoDeferred, IsLive, ShowsAReading
<1>. QED
  BY <1>3, ZenzShown

\* A correction of the feedback file spells what it corrects.
LEMMA FeedbackShown ==
  ASSUME NEW s, Correctable(s), NEW e
  PROVE  Spells(ApplyFeedback(s, e))
<1>. DEFINE value == Rewrite(s.liveValue, e.rewrite)
            t == [s EXCEPT !.zenz = NoZenz,
                           !.visible = [value |-> value,
                                        mozc |-> s.liveValue, stable |-> 0]]
<1>1. s \in Sessions /\ s.liveValue \in Texts /\ s.liveValue # <<>>
  BY DEF Correctable, Spells, Consistent, Composed, Sessions
<1>2. /\ value \in Texts /\ Reading(value) = Reading(s.liveValue)
      /\ Len(value) = Len(s.liveValue)
  BY <1>1, RewriteSpells
<1>3. value # <<>>
  BY <1>1, <1>2 DEF Texts
<1>. HIDE DEF value
<1>4. /\ t \in Sessions
      /\ t.state = s.state /\ t.key = s.key /\ t.cursor = s.cursor
      /\ t.conversion = s.conversion /\ t.active = s.active
      /\ t.liveValue = s.liveValue /\ t.pending = s.pending
      /\ t.deferred = s.deferred /\ t.visible.value = value
      /\ t.visible.mozc = s.liveValue
  <2>. DEFINE v == [value |-> value, mozc |-> s.liveValue, stable |-> 0]
  <2>1. v \in Visibles
    BY <1>1, <1>2 DEF Visibles, Texts
  <2>2. v.value = value /\ v.mozc = s.liveValue
    OBVIOUS
  <2>. HIDE DEF v
  <2>3. t = [s EXCEPT !.zenz = NoZenz, !.visible = v]
    BY DEF v
  <2>. HIDE DEF t
  <2>. QED
    BY <1>1, <2>1, <2>2, <2>3, NothingTyped DEF Sessions
<1>5. ApplyFeedback(s, e) = OutputZenz(t)
  BY DEF ApplyFeedback, t, value
<1>. HIDE DEF t
<1>. QED
  BY <1>3, <1>4, <1>5, CorrectionShown DEF Correctable, Spells

\* What asking changes: neither the texts nor the screen.
SameScreen(s, t) == SameTexts(s, t) /\ t.preedit = s.preedit

\* A session that agrees on texts and screen spells as well.
LEMMA SameSpells ==
  ASSUME NEW s, Spells(s), NEW t \in Sessions, SameScreen(s, t)
  PROVE  Spells(t)
BY SameConsistent DEF Spells, SameScreen, OnScreen, Spelling, ShowsAReading,
   SameTexts

\* Submitting a question changes nothing on the screen.
LEMMA QuestionSubmitted ==
  ASSUME NEW s \in Sessions
  PROVE  LET t == SubmitZenz(s)
         IN  /\ t \in Sessions /\ SameScreen(s, t)
             /\ t.zenz.pending = s.zenz.pending
             /\ t.visible = s.visible
<1>. DEFINE z == [s.zenz EXCEPT !.submitted = TRUE, !.polls = 0]
            q == [generation |-> s.zenz.generation, status |-> "open"]
            t == [s EXCEPT !.zenz = z, !.corrector = q]
<1>1. s.zenz \in Zenzes
  BY DEF Sessions
<1>2. z \in Zenzes /\ z.pending = s.zenz.pending
  <2>1. 0 \in 0..MaxPolls
    BY BoundsAssumption
  <2>2. /\ DOMAIN z = DOMAIN s.zenz
        /\ z.pending = s.zenz.pending /\ z.generation = s.zenz.generation
        /\ z.mozc = s.zenz.mozc
    BY <1>1 DEF Zenzes
  <2>3. z.polls = 0 /\ z.submitted
    BY <1>1 DEF Zenzes
  <2>4. z \in [pending : BOOLEAN, generation : Numbers, mozc : Texts,
               submitted : BOOLEAN, polls : 0..MaxPolls]
    BY <1>1, <2>1 DEF Zenzes
  <2>. HIDE DEF z
  <2>. QED
    BY <1>1, <2>2, <2>4 DEF Zenzes
<1>3. q \in [generation : Numbers, status : {"none", "open", "ok", "error"}]
  BY <1>1 DEF Zenzes
<1>. HIDE DEF z, q
<1>4. /\ t \in Sessions /\ SameScreen(s, t) /\ t.zenz = z
      /\ t.visible = s.visible
  BY <1>2, <1>3 DEF Sessions, SameScreen, SameTexts
<1>5. SubmitZenz(s) = t
  BY <1>1 DEF SubmitZenz, z, q, Sessions, Zenzes
<1>. QED
  BY <1>2, <1>4, <1>5

\* The callback of a pending correction carries its generation.
LEMMA CallbackTyped ==
  ASSUME NEW s \in Sessions, s.zenz.pending
  PROVE  LET t == AttachZenzCallback(s)
         IN  t \in Sessions /\ SameScreen(s, t)
<1>1. /\ s.zenz.generation \in Generations
      /\ Reading(s.zenz.mozc) \in Seq(Characters)
  BY ReadingIsAReading DEF Sessions, Zenzes, Readings
<1>. QED
  BY <1>1
  DEF AttachZenzCallback, Sessions, Callback, SameScreen, SameTexts

\* MaybeScheduleZenzLiveCorrection changes nothing on the screen.
LEMMA CorrectionScheduled ==
  ASSUME NEW s, Correctable(s), NEW e, e.generation \in Generations,
         NEW forced
  PROVE  LET t == ScheduleZenz(s, e, forced)
         IN  Spells(t) /\ SameScreen(s, t)
<1>. DEFINE z == [pending |-> TRUE, generation |-> e.generation,
                  mozc |-> s.liveValue, submitted |-> FALSE, polls |-> 0]
            t == [s EXCEPT !.zenz = z]
            u == IF forced \/ ~DelayZenz THEN SubmitZenz(t) ELSE t
            a == AttachZenzCallback(u)
<1>1. s \in Sessions
  BY DEF Correctable, Spells, Consistent, Composed
<1>2. z \in Zenzes /\ z.pending
  BY <1>1, BoundsAssumption DEF Zenzes, Numbers, Sessions
<1>. HIDE DEF z
<1>3. t \in Sessions /\ SameScreen(s, t) /\ t.zenz = z
  BY <1>1, <1>2 DEF Sessions, SameScreen, SameTexts
<1>. HIDE DEF t
<1>4. u \in Sessions /\ SameScreen(t, u) /\ u.zenz.pending
  BY <1>2, <1>3, QuestionSubmitted DEF SameScreen, SameTexts
<1>. HIDE DEF u
<1>5. a \in Sessions /\ SameScreen(u, a)
  BY <1>4, CallbackTyped
<1>6. ScheduleZenz(s, e, forced) = a
  BY DEF ScheduleZenz, a, u, t, z
<1>. HIDE DEF a
<1>7. SameScreen(s, a)
  BY <1>3, <1>4, <1>5 DEF SameScreen, SameTexts
<1>. QED
  BY <1>5, <1>6, <1>7, SameSpells DEF Correctable

\* The display that hides the Mozc result spells the reading too.
LEMMA DisplayDeferred ==
  ASSUME NEW s, Spells(s), IsLive(s), NEW seen \in Presentations,
         NEW previous \in Texts
  PROVE  Spells(DeferDisplayOf(s, seen, previous))
<1>. DEFINE basis == Basis(s.key, seen, s.liveValue)
            built == seen # NoPresentation
                     /\ CanPresent(s.key, seen, s.liveValue)
            value == IF built THEN Present(s.key, seen, s.liveValue)
                     ELSE Raw(s.key)
            continued == IF built /\ basis.value # <<>>
                         THEN basis ELSE NoPresentation
            d == [on |-> TRUE, value |-> value, continued |-> continued,
                  previous |-> previous]
            t == [s EXCEPT !.deferred = d]
<1>1. /\ s \in Sessions /\ s.key \in Readings /\ s.liveValue \in Texts
      /\ Len(s.key) \in Nat
  BY DEF Spells, Consistent, Composed, Sessions, Readings
<1>2. value \in Texts /\ Reading(value) = s.key
  BY <1>1, RawSpells, PresentSpells
<1>3. Len(value) = Len(s.key)
  BY <1>2, ReadingIsAReading
<1>4. continued \in Presentations /\ continued.stable <= Len(s.key)
  <2>1. CASE built /\ basis.value # <<>>
    <3>1. basis \in Presentations
      BY <1>1, BasisFits
    <3>2. IsPrefix(Reading(basis.value), s.key)
      BY <2>1 DEF CanPresent
    <3>. HIDE DEF basis
    <3>3. /\ basis.stable <= Len(basis.value) /\ basis.stable \in Nat
          /\ basis.value \in Texts /\ Len(basis.value) \in Nat
      BY <3>1 DEF Presentations, Texts
    <3>4. Len(basis.value) <= Len(s.key)
      BY <3>2, <3>3, ReadingIsAReading DEF IsPrefix
    <3>. QED
      BY <1>1, <2>1, <3>1, <3>3, <3>4
  <2>2. CASE ~(built /\ basis.value # <<>>)
    BY <1>1, <2>2, NothingTyped DEF NoPresentation
  <2>. QED
    BY <2>1, <2>2
<1>. HIDE DEF value, continued
<1>5. d \in Deferreds
  BY <1>2, <1>3, <1>4 DEF Deferreds
<1>6. t \in Sessions /\ t.preedit = s.preedit /\ t.deferred = d
  BY <1>1, <1>5 DEF Sessions
<1>7. /\ t.state = s.state /\ t.key = s.key /\ t.cursor = s.cursor
      /\ t.conversion = s.conversion /\ t.active = s.active
      /\ t.liveValue = s.liveValue /\ t.presentation = s.presentation
      /\ t.pending = s.pending
  BY <1>1 DEF Sessions
<1>8. DeferDisplayOf(s, seen, previous) = OutputDeferred(t)
  BY DEF DeferDisplayOf, t, d, continued, value
<1>. HIDE DEF t
<1>9. Spells(t)
  BY <1>2, <1>6, <1>7 DEF Spells, OnScreen, Spelling, Consistent, Composed,
     LiveSpells,
     DeferredSpells, PendingSpells, IsLive, ShowsAReading, CanOutputPending
<1>. QED
  BY <1>7, <1>8, <1>9, DeferredShown DEF IsLive

\* A successful conversion is of the whole reading.
LEMMA ConversionSpells ==
  ASSUME NEW s, Composed(s), s.key # <<>>, NEW e, e.generation \in Generations,
         NEW allowZenz
  PROVE  Spells(ConversionSucceeds(s, e, allowZenz))
<1>. DEFINE mozc == Write(s.key, "mozc")
            d == DropPending(s)
            q == [d EXCEPT !.state = "CONVERSION", !.conversion = mozc,
                           !.active = TRUE, !.fromComposition = TRUE,
                           !.liveValue = mozc,
                           !.presentation = NoPresentation]
            z == ClearZenz(q)
            t == Output(z)
            u == ScheduleZenz(t, e, FALSE)
<1>1. /\ s.key \in Readings /\ s.liveValue \in Texts
      /\ s.presentation \in Presentations
  BY DEF Composed, Sessions
<1>2. mozc \in Texts /\ Reading(mozc) = s.key
  BY <1>1, WriteSpells DEF Styles
<1>. HIDE DEF mozc
<1>3. Composed(d) /\ ~d.pending /\ SameComposition(s, d)
  BY PendingForgotten
<1>. HIDE DEF d
<1>4. /\ q \in Sessions /\ q.state = "CONVERSION" /\ q.conversion = mozc
      /\ q.active /\ q.liveValue = mozc /\ ~q.pending
      /\ q.key = s.key /\ q.cursor = s.cursor
  BY <1>2, <1>3, NothingTyped DEF Composed, Sessions, SameComposition
<1>. HIDE DEF q
<1>5. Composed(q) /\ LiveSpells(q) /\ PendingSpells(q)
  BY <1>2, <1>4 DEF Composed, LiveSpells, PendingSpells
<1>6. Consistent(z) /\ IsLive(z)
  BY <1>4, <1>5, ZenzDropped DEF SameComposition, IsLive
<1>. HIDE DEF z
<1>7. Spells(t) /\ IsLive(t)
  BY <1>6, OutputSpells DEF SameTexts, IsLive, Emptied, ShowsAReading
<1>. HIDE DEF t
<1>8. MayApplyFeedback(t, e) => Spells(ApplyFeedback(t, e))
  <2>. SUFFICES ASSUME MayApplyFeedback(t, e) PROVE Correctable(t)
    BY FeedbackShown
  <2>. QED
    BY <1>7 DEF MayApplyFeedback, Correctable
<1>9. ASSUME MayScheduleZenz(t, e, FALSE)
      PROVE  /\ Spells(u)
             /\ Spells(DeferDisplayOf(u, SeenBefore(s), s.liveValue))
  <2>1. Spells(u) /\ IsLive(u)
    BY <1>7, <1>9, CorrectionScheduled
    DEF MayScheduleZenz, Correctable, SameScreen, SameTexts, IsLive
  <2>2. SeenBefore(s) \in Presentations
    BY <1>1 DEF SeenBefore, Presentation, Presentations, Texts
  <2>. HIDE DEF u
  <2>. QED
    BY <1>1, <2>1, <2>2, DisplayDeferred
<1>10. ConversionSucceeds(s, e, allowZenz) =
         CASE allowZenz /\ MayApplyFeedback(t, e) -> ApplyFeedback(t, e)
           [] /\ allowZenz
              /\ ~MayApplyFeedback(t, e)
              /\ MayScheduleZenz(t, e, FALSE)
                -> IF DeferDisplay
                     THEN DeferDisplayOf(u, SeenBefore(s), s.liveValue)
                     ELSE u
           [] OTHER -> t
  BY DEF ConversionSucceeds, t, z, q, d, mozc
<1>. HIDE DEF u
<1>. QED
  BY <1>7, <1>8, <1>9, <1>10

\* MaybeStartLiveConversionInternal, whether the converter succeeds or not.
LEMMA LiveStarted ==
  ASSUME NEW s, Composed(s), s.state = "COMPOSITION",
         NEW e, e.generation \in Generations, NEW allowZenz
  PROVE  Spells(StartLiveConversion(s, e, allowZenz))
<1>. DEFINE t == DropPending(s)
            p == OutputPending(t)
            q == [t EXCEPT !.presentation = NoPresentation]
<1>1. s.key # <<>>
  BY DEF Composed, ShowsAReading
<1>2. /\ Composed(t) /\ PendingSpells(t) /\ t.state = "COMPOSITION"
      /\ ~t.pending
  BY PendingForgotten DEF SameComposition
<1>. HIDE DEF t
<1>3. Consistent(t)
  BY <1>2 DEF Consistent, LiveSpells, DeferredSpells, IsLive
<1>4. ASSUME CanOutputPending(t) PROVE Spells(ClearZenz(p))
  <2>1. Spells(p)
    BY <1>2, <1>3, <1>4, PendingShown DEF Emptied, ShowsAReading
  <2>. HIDE DEF p
  <2>2. Consistent(ClearZenz(p)) /\ SameComposition(p, ClearZenz(p))
    BY <2>1, ZenzDropped DEF Spells, Consistent
  <2>. QED
    BY <2>1, <2>2
    DEF Spells, OnScreen, Spelling, ShowsAReading, SameComposition
<1>5. /\ q \in Sessions /\ q.state = "COMPOSITION" /\ ~q.pending
      /\ q.key = t.key /\ q.cursor = t.cursor
  BY <1>2, NothingTyped DEF Composed, Sessions
<1>. HIDE DEF q
<1>6. Consistent(q)
  BY <1>2, <1>5 DEF Consistent, Composed, LiveSpells, DeferredSpells,
     PendingSpells, IsLive, ShowsAReading
<1>7. Spells(ConversionFails(s, e))
  BY <1>4, <1>5, <1>6, OutputSpells
  DEF ConversionFails, Emptied, ShowsAReading, t, p, q
<1>. QED
  BY <1>1, <1>7, ConversionSpells DEF StartLiveConversion

\* What was typed is shown, whether it is converted now, later or not at all.
LEMMA ScheduleSpells ==
  ASSUME NEW s, Consistent(s), s.state = "COMPOSITION",
         NEW e, e.generation \in Generations
  PROVE  /\ Spells(ScheduleLiveConversion(s, e))
         /\ Spells(StartAfterEditing(s, e))
<1>. DEFINE t == [s EXCEPT !.pending = TRUE,
                           !.pendingGeneration = e.generation,
                           !.pendingKey = s.key]
            p == OutputPending(t)
            a == AttachDelayedCallback(p)
<1>1. Spells(Output(s)) /\ Spells(Output(CancelPending(s)))
  BY OutputSpells, AllDropped
  DEF Consistent, Emptied, ShowsAReading, SameComposition
<1>2. Spells(StartLiveConversion(s, e, TRUE))
      /\ Spells(StartLiveConversion(s, e, ~(UseZenz /\ DeferDisplay)))
  BY LiveStarted DEF Consistent
<1>3. /\ t \in Sessions /\ SameComposition(s, t)
      /\ t.pendingGeneration = e.generation /\ t.pendingKey = s.key
  BY DEF Consistent, Composed, Sessions, SameComposition, Numbers
<1>4. Composed(t) /\ t.state = "COMPOSITION"
  BY <1>3 DEF Consistent, Composed, SameComposition, ShowsAReading
<1>5. Spells(StartLiveConversion(t, e, TRUE))
  BY <1>4, LiveStarted
<1>6. ASSUME CanOutputPending(t) PROVE Spells(a)
  <2>1. Consistent(t)
    BY <1>4, <1>6 DEF Consistent, LiveSpells, DeferredSpells, PendingSpells,
       IsLive
  <2>2. Spells(p)
    BY <1>4, <1>6, <2>1, PendingShown DEF Emptied, ShowsAReading
  <2>3. p.pendingGeneration = e.generation /\ p.pendingKey \in Seq(Characters)
    BY <1>3 DEF OutputPending, Sessions, SameComposition, Readings
  <2>. HIDE DEF p
  <2>4. a \in Sessions /\ SameScreen(p, a)
    BY <2>2, <2>3 DEF AttachDelayedCallback, Spells, Consistent, Composed,
       Sessions, Callback, SameScreen, SameTexts
  <2>. QED
    BY <2>2, <2>4, SameSpells
<1>7. ScheduleLiveConversion(s, e) =
        IF ~UseLiveConversion \/ s.state # "COMPOSITION" THEN Output(s)
        ELSE IF ~LiveConversionApplies(s) THEN Output(CancelPending(s))
        ELSE IF ~DelayLive THEN StartLiveConversion(s, e, TRUE)
        ELSE IF CanOutputPending(t) THEN a
             ELSE StartLiveConversion(t, e, TRUE)
  BY DEF ScheduleLiveConversion
<1>. HIDE DEF a, t
<1>. QED
  BY <1>1, <1>2, <1>5, <1>6, <1>7 DEF StartAfterEditing
-----------------------------------------------------------------------------
\* A session that no handler is working on.
Ready(s) ==
  /\ Consistent(s) /\ Emptied(s)
  /\ s.deferred.on => IsLive(s)
  /\ s.active => s.state = "CONVERSION"
  /\ s.pending => UseLiveConversion

\* Session::InsertCharacter.
LEMMA TypingSpells ==
  ASSUME NEW s, Ready(s), NEW e, e.generation \in Generations,
         NEW c \in Characters
  PROVE  Spells(InsertCharacter(s, c, e))
<1>. DEFINE t == InsertInto(s, c)
            u == EnterState(t, "COMPOSITION")
<1>1. Consistent(t) /\ t.key # <<>> /\ ~t.pending
  BY TypedIn DEF Ready
<1>. HIDE DEF t
<1>2. Consistent(u) /\ u.state = "COMPOSITION"
  BY <1>1, CompositionEntered
<1>. HIDE DEF u
<1>. QED
  BY <1>2, ScheduleSpells DEF InsertCharacter, u, t

\* What Backspace and Delete do once the character is gone.
LEMMA ErasedSpells ==
  ASSUME NEW s, s \in Sessions, s.cursor <= Len(s.key),
         s.state = "COMPOSITION", s.key # <<>> => Consistent(s),
         NEW e, e.generation \in Generations
  PROVE  Spells(AfterErasing(ClearUndo(s), e))
<1>. DEFINE t == ClearUndo(s)
            c == CancelConverter(EnterState(t, "PRECOMPOSITION"))
<1>1. /\ t \in Sessions /\ t.state = "COMPOSITION"
      /\ t.key # <<>> => Consistent(t)
  BY UndoForgotten DEF SameTexts
<1>. HIDE DEF t
<1>2. Spells(Output(c))
  BY <1>1, CompositionLeft, OutputSpells DEF Spells
<1>3. t.key # <<>> => Spells(StartAfterEditing(t, e))
  BY <1>1, ScheduleSpells
<1>. QED
  BY <1>2, <1>3 DEF AfterErasing, t

\* Session::Backspace and Session::Delete.
LEMMA ErasingSpells ==
  ASSUME NEW s, Ready(s), s.state = "COMPOSITION" \/ s.active,
         NEW e, e.generation \in Generations
  PROVE  Spells(Backspace(s, e)) /\ Spells(Delete(s, e))
<1>. DEFINE f == CancelForEditing(s)
<1>1. /\ Consistent(f) /\ f.state = "COMPOSITION" /\ ~f.pending
      /\ f.cursor = s.cursor /\ f.key = s.key
  BY EditingTextCanceled DEF Ready, SameWords
<1>2. /\ s.cursor \in Nat /\ Len(s.key) \in Nat
      /\ DOMAIN s.key = 1..Len(s.key) /\ s.cursor <= Len(s.key)
  BY DEF Ready, Consistent, Composed, Sessions, Readings
<1>. HIDE DEF f
<1>3. Spells(Backspace(s, e))
  <2>. DEFINE p == ComposerErase(f, s.cursor)
              cursor == IF s.cursor = 0 THEN 0 ELSE s.cursor - 1
              t == [p EXCEPT !.cursor = cursor]
  <2>1. /\ cursor \in Nat /\ cursor <= s.cursor
        /\ s.cursor \in DOMAIN s.key => cursor < Len(s.key)
    BY <1>2
  <2>2. p.cursor = s.cursor
    BY <1>1 DEF ComposerErase, Consistent, Composed, Sessions
  <2>3. Backspace(s, e) = AfterErasing(ClearUndo(t), e)
    BY <2>2 DEF Backspace, f
  <2>. HIDE DEF cursor
  <2>4. /\ t \in Sessions /\ t.cursor <= Len(t.key)
        /\ t.state = "COMPOSITION"
        /\ t.key # <<>> => Consistent(t)
    BY <1>1, <1>2, <2>1, CharacterErased
  <2>. HIDE DEF t
  <2>. QED
    BY <2>3, <2>4, ErasedSpells
<1>4. Spells(Delete(s, e))
  <2>. DEFINE p == ComposerErase(f, s.cursor + 1)
              t == [p EXCEPT !.cursor = s.cursor]
  <2>1. p \in [DOMAIN p -> {p[x] : x \in DOMAIN p}] /\ p.cursor = s.cursor
    BY <1>1 DEF ComposerErase, Consistent, Composed, Sessions
  <2>2. t = p
    BY <2>1
  <2>3. Delete(s, e) = AfterErasing(ClearUndo(t), e)
    BY <2>2 DEF Delete, f
  <2>4. /\ s.cursor + 1 \in Nat
        /\ s.cursor + 1 \in DOMAIN s.key => s.cursor < Len(s.key)
    BY <1>2
  <2>5. /\ t \in Sessions /\ t.cursor <= Len(t.key)
        /\ t.state = "COMPOSITION"
        /\ t.key # <<>> => Consistent(t)
    BY <1>1, <1>2, <2>4, CharacterErased
  <2>. HIDE DEF t
  <2>. QED
    BY <2>3, <2>5, ErasedSpells
<1>. QED
  BY <1>3, <1>4

\* The cursor moves in the reading, after the display is restored.
LEMMA MovingSpells ==
  ASSUME NEW s, Ready(s), NEW cursor \in Nat, cursor <= Len(s.key)
  PROVE  Spells(MoveCursor(s, cursor))
<1>. DEFINE t == [s EXCEPT !.cursor = cursor]
<1>1. /\ t \in Sessions /\ t.cursor = cursor
      /\ t.state = s.state /\ t.key = s.key /\ t.conversion = s.conversion
      /\ t.active = s.active /\ t.liveValue = s.liveValue
      /\ t.deferred = s.deferred /\ t.pending = s.pending
      /\ t.presentation = s.presentation
  BY DEF Ready, Consistent, Composed, Sessions, SameTexts
<1>. HIDE DEF t
<1>2. Consistent(t)
  BY <1>1 DEF Ready, Consistent, Composed, LiveSpells, DeferredSpells,
     PendingSpells, IsLive, ShowsAReading, CanOutputPending
<1>. QED
  BY <1>1, <1>2, UndoForgotten, OutputSpells
  DEF MoveCursor, t, Consistent, Composed, Ready, Emptied, ShowsAReading,
     SameTexts
-----------------------------------------------------------------------------
\* An explicit command finds nothing live or deferred.
LEMMA PromotedText ==
  ASSUME NEW s, Ready(s)
  PROVE  LET t == Promote(s)
         IN  /\ Ready(t) /\ SameComposition(s, t) /\ ~t.active
             /\ ~t.deferred.on
<1>1. CASE ~s.active
  BY <1>1 DEF Promote, Ready, IsLive, SameComposition
<1>2. CASE s.active
  <2>. DEFINE z == ClearZenz(s)
              t == [z EXCEPT !.active = FALSE, !.fromComposition = FALSE]
  <2>1. /\ Consistent(z) /\ SameComposition(s, z) /\ z.pending = s.pending
        /\ z.deferred = NoDeferred
    BY ZenzDropped DEF Ready, Consistent
  <2>. HIDE DEF z
  <2>2. /\ t \in Sessions /\ SameComposition(s, t) /\ ~t.active
        /\ t.pending = s.pending /\ ~t.deferred.on
        /\ t.presentation = z.presentation /\ t.liveValue = z.liveValue
    <3>1. ~z.deferred.on
      BY <2>1 DEF NoDeferred
    <3>. QED
      BY <2>1, <3>1 DEF Consistent, Composed, Sessions, SameComposition
  <2>3. Promote(s) = t
    BY <1>2 DEF Promote, z
  <2>. HIDE DEF t
  <2>4. Consistent(t)
    BY <2>1, <2>2 DEF Consistent, Composed, LiveSpells, DeferredSpells,
       PendingSpells, IsLive, SameComposition, ShowsAReading, CanOutputPending
  <2>5. Emptied(t)
    BY <2>1, <2>2 DEF Ready, Emptied, ShowsAReading, SameComposition
  <2>. QED
    BY <2>2, <2>3, <2>4, <2>5 DEF Ready
<1>. QED
  BY <1>1, <1>2

\* The conversion of a reading that is shown has a first segment; that of a
\* display F6-F10 left pending has no other.
LEMMA FirstOfConversion ==
  ASSUME NEW s, Consistent(s), s.state = "CONVERSION"
  PROVE  LET first == Min(Ends(s.conversion))
         IN  /\ s.conversion \in Texts /\ Len(s.conversion) = Len(s.key)
             /\ first \in 1..Len(s.conversion)
             /\ s.pending => first = Len(s.conversion)
<1>1. /\ s.conversion \in Texts /\ Reading(s.conversion) = s.key
      /\ s.key # <<>> /\ s.key \in Readings
  BY DEF Consistent, Composed, Sessions, ShowsAReading
<1>2. Len(s.conversion) = Len(s.key) /\ s.conversion # <<>>
  BY <1>1, ReadingIsAReading DEF Texts, Readings
<1>3. ASSUME s.pending
      PROVE  \A i \in 1..Len(s.conversion) : s.conversion[i][2] = "chosen"
  <2>1. s.conversion = Write(s.key, "chosen")
    BY <1>3 DEF Consistent, PendingSpells
  <2>2. \A i \in 1..Len(s.key) :
          Write(s.key, "chosen")[i] = <<s.key[i], "chosen">>
    BY <1>1, WriteSpells DEF Styles
  <2>. QED
    BY <1>2, <2>1, <2>2
<1>. QED
  BY <1>1, <1>2, <1>3, FirstSegment

\* Another candidate for the first segment spells that segment.
LEMMA ChoosingSpells ==
  ASSUME NEW s, Consistent(s), s.state = "CONVERSION"
  PROVE  Spells(Choose(s))
<1>. DEFINE first == Min(Ends(s.conversion))
            length == Len(s.conversion)
            new == Write(SubSeq(s.key, 1, first), "chosen")
                     \o SubSeq(s.conversion, first + 1, length)
            t == [s EXCEPT !.conversion = new]
<1>1. /\ s.conversion \in Texts /\ length = Len(s.key) /\ length \in Nat
      /\ first \in 1..length
      /\ s.pending => first = length
      /\ s.key = Reading(s.conversion) /\ s.key \in Readings
  <2>1. /\ s.conversion \in Texts /\ s.key \in Readings
        /\ Reading(s.conversion) = s.key
    BY DEF Consistent, Composed, Sessions
  <2>2. length = Len(s.key) /\ length \in Nat
    BY FirstOfConversion, <2>1 DEF Texts
  <2>3. first \in 1..length /\ (s.pending => first = length)
    BY FirstOfConversion
  <2>. QED
    BY <2>1, <2>2, <2>3
<1>. HIDE DEF first
<1>2. new \in Texts /\ Reading(new) = s.key
  BY <1>1, FirstRewritten DEF Styles
<1>3. ASSUME s.pending PROVE new = Write(s.key, "chosen")
  <2>1. SubSeq(s.key, 1, first) = s.key
    BY <1>1, <1>3, SubSeqFull DEF Readings
  <2>2. SubSeq(s.conversion, first + 1, length) = <<>>
    BY <1>1, <1>3, SubSeqEmpty
  <2>3. Write(s.key, "chosen") \in Texts
    BY <1>1, WriteSpells DEF Styles
  <2>4. Write(s.key, "chosen") \o <<>> = Write(s.key, "chosen")
    BY <2>3, ConcatEmptySeq DEF Texts
  <2>. QED
    BY <2>1, <2>2, <2>4
<1>4. Choose(s) = Output(t)
  BY DEF Choose, first
<1>. HIDE DEF new
<1>5. /\ t \in Sessions /\ t.conversion = new
      /\ t.state = s.state /\ t.key = s.key /\ t.cursor = s.cursor
      /\ t.active = s.active /\ t.liveValue = s.liveValue
      /\ t.deferred = s.deferred /\ t.pending = s.pending
      /\ t.presentation = s.presentation
  BY <1>2 DEF Consistent, Composed, Sessions
<1>. HIDE DEF t
<1>6. Consistent(t)
  BY <1>2, <1>3, <1>5 DEF Consistent, Composed, LiveSpells, DeferredSpells,
     PendingSpells, IsLive, ShowsAReading, CanOutputPending
<1>. QED
  BY <1>4, <1>5, <1>6, OutputSpells DEF Emptied, ShowsAReading

\* F6-F10 and Space on a composition; only the latter drops what is pending.
LEMMA ConvertingSpells ==
  ASSUME NEW s, Ready(s), s.state = "COMPOSITION", NEW e
  PROVE  Spells(Convert(s, e)) /\ Spells(ConvertToTransliteration(s))
<1>. DEFINE Restyled(r, style) ==
              [r EXCEPT !.state = "CONVERSION",
                        !.conversion = Write(s.key, style)]
            c == CancelPending(s)
<1>1. s.key \in Readings /\ ~s.active /\ ~s.deferred.on
  BY DEF Ready, Consistent, Composed, Sessions, IsLive
<1>2. /\ Consistent(c) /\ SameComposition(s, c) /\ ~c.pending
      /\ ~c.deferred.on /\ ~c.active
  BY <1>1, AllDropped DEF Ready, Consistent, NoDeferred
<1>3. ASSUME NEW r, Consistent(r), SameComposition(s, r), ~r.active,
             ~r.deferred.on, NEW style \in Styles,
             style = "chosen" \/ ~r.pending
      PROVE  Spells(Output(Restyled(r, style)))
  <2>. DEFINE conversion == Write(s.key, style)
              t == [r EXCEPT !.state = "CONVERSION", !.conversion = conversion]
  <2>1. conversion \in Texts /\ Reading(conversion) = s.key
    BY <1>1, WriteSpells
  <2>2. style = "chosen" => conversion = Write(s.key, "chosen")
    OBVIOUS
  <2>. HIDE DEF conversion
  <2>3. /\ t \in Sessions /\ t.conversion = conversion
        /\ t.state = "CONVERSION" /\ t.key = s.key /\ t.cursor = s.cursor
        /\ ~t.active /\ ~t.deferred.on /\ t.pending = r.pending
        /\ t.liveValue = r.liveValue /\ t.presentation = r.presentation
    BY <1>3, <2>1 DEF Consistent, Composed, Sessions, SameComposition
  <2>4. Restyled(r, style) = t
    BY DEF conversion
  <2>. HIDE DEF t
  <2>5. Consistent(t)
    BY <1>3, <2>1, <2>2, <2>3 DEF Consistent, Composed, LiveSpells,
       DeferredSpells, PendingSpells, IsLive, ShowsAReading, CanOutputPending,
       SameComposition
  <2>. QED
    BY <2>3, <2>4, <2>5, OutputSpells DEF Emptied, ShowsAReading
<1>4. Spells(Output(c))
  BY <1>2, OutputSpells DEF Emptied, ShowsAReading, SameComposition
<1>5. Convert(s, e) = IF e.converts # "ok" THEN Output(c)
                      ELSE Output(Restyled(c, "mozc"))
  BY DEF Convert
<1>6. ConvertToTransliteration(s) = Output(Restyled(s, "chosen"))
  BY DEF ConvertToTransliteration
<1>7. SameComposition(s, s) /\ {"mozc", "chosen"} \subseteq Styles
  BY DEF SameComposition, Styles
<1>. HIDE DEF Restyled, c
<1>. QED
  BY <1>1, <1>2, <1>3, <1>4, <1>5, <1>6, <1>7 DEF Ready

\* Composer and converter lose the same first segment.
LEMMA SegmentSpells ==
  ASSUME NEW s, Ready(s), s.state = "CONVERSION", ~s.active
  PROVE  Spells(CommitSegment(s))
<1>. DEFINE first == Min(Ends(s.conversion))
            length == Len(s.conversion)
            head == SubSeq(s.conversion, 1, first)
            tail == SubSeq(s.conversion, first + 1, length)
            key == SubSeq(s.key, first + 1, length)
            cursor == IF s.cursor < first THEN 0 ELSE s.cursor - first
            p == PushUndo(s)
            t == [p EXCEPT !.result = head, !.conversion = tail]
            rest == [t EXCEPT !.key = key, !.cursor = cursor]
            last == EnterState(t, "PRECOMPOSITION")
<1>1. /\ s.conversion \in Texts /\ length = Len(s.key) /\ length \in Nat
      /\ first \in 1..length
      /\ s.pending => first = length
      /\ s.key = Reading(s.conversion) /\ s.key \in Readings
      /\ s.cursor \in Nat /\ s.cursor <= length
  <2>1. Consistent(s)
    BY DEF Ready
  <2>2. /\ s.conversion \in Texts /\ Reading(s.conversion) = s.key
        /\ s.key \in Readings /\ s.cursor \in Nat /\ s.cursor <= Len(s.key)
        /\ length \in Nat
    BY <2>1 DEF Consistent, Composed, Sessions, Texts
  <2>. QED
    BY <2>1, <2>2, FirstOfConversion
<1>. HIDE DEF first, length
<1>2. /\ head \in Texts
      /\ tail \in Texts /\ Len(tail) = length - first
      /\ key \in Readings /\ Reading(tail) = key
  <2>1. first \in Nat /\ first + 1 \in Nat /\ 1 <= first + 1 /\ 1 \in Nat
        /\ length <= Len(s.conversion) /\ first <= Len(s.conversion)
        /\ 1 <= 1
    BY <1>1 DEF length
  <2>2. head \in Texts
    BY <1>1, <2>1, PartSpells
  <2>3. /\ tail \in Texts
        /\ Len(tail) = IF first + 1 <= length THEN length - (first + 1) + 1
                       ELSE 0
        /\ key \in Readings /\ Reading(tail) = key
    <3>1. PICK m \in Nat : m = first + 1
      BY <2>1
    <3>2. 1 <= m
      BY <2>1, <3>1
    <3>3. /\ SubSeq(s.conversion, m, length) \in Texts
          /\ Len(SubSeq(s.conversion, m, length)) =
               IF m <= length THEN length - m + 1 ELSE 0
          /\ SubSeq(Reading(s.conversion), m, length) \in Readings
          /\ Reading(SubSeq(s.conversion, m, length)) =
               SubSeq(Reading(s.conversion), m, length)
      <4>1. PICK n \in Nat : n = length
        BY <1>1
      <4>2. s.conversion \in Texts /\ n <= Len(s.conversion)
        BY <1>1, <2>1, <4>1
      <4>3. /\ SubSeq(s.conversion, m, n) \in Texts
            /\ Len(SubSeq(s.conversion, m, n)) =
                 IF m <= n THEN n - m + 1 ELSE 0
            /\ SubSeq(Reading(s.conversion), m, n) \in Readings
            /\ Reading(SubSeq(s.conversion, m, n)) =
                 SubSeq(Reading(s.conversion), m, n)
        BY <3>2, <4>2, PartSpells, Zenon
      <4>. QED
        BY <4>1, <4>3
    <3>. QED
      BY <1>1, <3>1, <3>3
  <2>. QED
    BY <1>1, <2>2, <2>3
<1>3. Len(key) = length - first
  BY <1>2, ReadingIsAReading
<1>4. cursor \in Nat /\ cursor <= Len(key)
  BY <1>1, <1>3
<1>5. Composed(p) /\ SameTexts(s, p)
  BY ContextSaved DEF Ready, Consistent, ShowsAReading
<1>6. p.conversion = s.conversion /\ p.key = s.key /\ p.cursor = s.cursor
  BY <1>5 DEF SameTexts
<1>7. CommitSegment(s) =
        RememberResult(Output(IF t.conversion # <<>> THEN rest ELSE last))
  BY <1>1, <1>6
  DEF CommitSegment, first, length
<1>. HIDE DEF p, head, tail, key, cursor
<1>8. /\ t \in Sessions /\ t.conversion = tail /\ t.state = "CONVERSION"
      /\ ~t.active /\ t.pending = s.pending /\ t.deferred = s.deferred
  BY <1>2, <1>5 DEF Composed, Sessions, SameTexts
<1>. HIDE DEF t
<1>9. Consistent(last) /\ Emptied(last)
  BY <1>8, CompositionLeft
<1>10. ASSUME t.conversion # <<>> PROVE Consistent(rest) /\ Emptied(rest)
  <2>1. /\ rest \in Sessions /\ rest.conversion = tail
        /\ rest.state = "CONVERSION" /\ ~rest.active
        /\ rest.pending = s.pending /\ rest.deferred = s.deferred
        /\ rest.key = key /\ rest.cursor = cursor
    BY <1>2, <1>4, <1>8 DEF Sessions
  <2>2. Len(tail) # 0
    BY <1>2, <1>8, <1>10 DEF Texts
  <2>3. ~s.pending /\ key # <<>>
    BY <1>1, <1>2, <1>3, <2>2
  <2>4. ~s.deferred.on
    BY DEF Ready, IsLive
  <2>. HIDE DEF rest
  <2>. QED
    BY <1>2, <1>4, <2>1, <2>3, <2>4 DEF Consistent, Composed, LiveSpells,
       DeferredSpells, PendingSpells, IsLive, Emptied, ShowsAReading
<1>. HIDE DEF rest, last
<1>11. Spells(Output(IF t.conversion # <<>> THEN rest ELSE last))
  BY <1>9, <1>10, OutputSpells DEF Spells
<1>. QED
  BY <1>7, <1>11, ResultCounted

\* Back from a conversion: to its composition, to the Mozc result it hides, or
\* to the one its correction replaced.
LEMMA ReturningSpells ==
  ASSUME NEW s, Ready(s), s.state = "CONVERSION"
  PROVE  /\ Spells(ConvertCancel(s))
         /\ HasDeferred(s) => Spells(RevealDeferred(s))
         /\ HasVisibleZenz(s) => Spells(RevertZenz(s))
<1>. DEFINE l == ClearLive(s)
            e == EnterState(l, "COMPOSITION")
            c == [e EXCEPT !.conversion = <<>>]
            z == ClearZenz(CancelPending(s))
<1>1. /\ s.liveValue \in Texts /\ s.key # <<>>
      /\ IsLive(s) => Reading(s.liveValue) = s.key
  BY DEF Ready, Consistent, Composed, LiveSpells, Sessions, ShowsAReading
<1>2. /\ Consistent(l) /\ SameComposition(s, l) /\ ~l.pending /\ ~l.active
  BY LiveForgotten DEF Ready, Consistent
<1>3. Consistent(z) /\ SameComposition(s, z)
  BY AllDropped, ZenzDropped DEF Ready, Consistent, SameComposition
<1>4. /\ HasDeferred(s) => IsLive(s)
      /\ HasVisibleZenz(s) => IsLive(s)
  BY DEF Ready, HasDeferred, HasVisibleZenz, IsLive
<1>. HIDE DEF l, z
<1>5. IsLive(s) => Spells([l EXCEPT !.preedit = s.liveValue])
                   /\ Spells([z EXCEPT !.preedit = s.liveValue])
  BY <1>1, <1>2, <1>3, TextShown
  DEF SameComposition, Spelling, IsLive, ShowsAReading
<1>6. Consistent(e) /\ e.state = "COMPOSITION" /\ ~e.pending /\ ~e.active
  BY <1>1, <1>2, CompositionEntered DEF SameComposition
<1>. HIDE DEF e
<1>7. /\ c \in Sessions /\ c.state = "COMPOSITION" /\ ~c.pending
      /\ c.key = e.key /\ c.cursor = e.cursor
  BY <1>6, NothingTyped DEF Consistent, Composed, Sessions
<1>8. ConvertCancel(s) = Output(c)
  BY DEF ConvertCancel, CancelConverter, c, e, l
<1>. HIDE DEF c
<1>9. Consistent(c)
  BY <1>6, <1>7 DEF Consistent, Composed, LiveSpells, DeferredSpells,
     PendingSpells, IsLive, ShowsAReading
<1>. QED
  BY <1>4, <1>5, <1>7, <1>8, <1>9, OutputSpells
  DEF RevealDeferred, RevertZenz, Emptied, ShowsAReading, l, z
-----------------------------------------------------------------------------
\* A conversion made live to be corrected.
LEMMA AskingSpells ==
  ASSUME NEW s, Consistent(s), s.state = "CONVERSION",
         NEW e, e.generation \in Generations,
         NEW wasLive, NEW fromComposition \in BOOLEAN
  PROVE  Spells(AskForCorrection(s, e, wasLive, fromComposition))
<1>. DEFINE c == ClearZenz(s)
            q == [c EXCEPT !.active = TRUE,
                           !.fromComposition = fromComposition,
                           !.liveValue = s.conversion]
            t == Output(q)
<1>1. s.conversion \in Texts /\ Reading(s.conversion) = s.key
  BY DEF Consistent, Composed, Sessions
<1>2. Consistent(c) /\ SameComposition(s, c)
  BY ZenzDropped DEF Consistent
<1>. HIDE DEF c
<1>3. /\ q \in Sessions /\ q.state = "CONVERSION" /\ q.key = s.key
      /\ q.cursor = s.cursor /\ q.conversion = s.conversion
      /\ q.liveValue = s.conversion /\ q.pending = c.pending
      /\ q.deferred = c.deferred /\ q.presentation = c.presentation
      /\ IsLive(q)
  BY <1>1, <1>2 DEF Consistent, Composed, Sessions, SameComposition, IsLive
<1>. HIDE DEF q
<1>4. IsPrefix(Reading(q.liveValue), q.key)
  BY <1>1, <1>3, PrefixOfItself DEF Sessions
<1>5. CanOutputPending(q)
  BY <1>3, <1>4, BasisFits DEF CanOutputPending, CanPresent, Sessions
<1>6. Consistent(q)
  BY <1>1, <1>2, <1>3, <1>5 DEF Consistent, Composed, LiveSpells,
     DeferredSpells, PendingSpells, SameComposition, ShowsAReading
<1>7. Spells(t) /\ IsLive(t)
  BY <1>3, <1>6, OutputSpells DEF SameTexts, IsLive, Emptied, ShowsAReading
<1>8. AskForCorrection(s, e, wasLive, fromComposition) =
        IF MayScheduleZenz(t, e, TRUE) THEN ScheduleZenz(t, e, TRUE)
        ELSE IF wasLive THEN t ELSE ClearLive(t)
  BY DEF AskForCorrection, t, q, c
<1>. HIDE DEF t
<1>9. MayScheduleZenz(t, e, TRUE) => Spells(ScheduleZenz(t, e, TRUE))
  <2>1. PICK yes : yes = TRUE
    OBVIOUS
  <2>2. MayScheduleZenz(t, e, TRUE) => Correctable(t)
    BY <1>7 DEF MayScheduleZenz, Correctable
  <2>3. Correctable(t) => Spells(ScheduleZenz(t, e, yes))
    BY CorrectionScheduled
  <2>. QED
    BY <2>1, <2>2, <2>3, Zenon
<1>10. Spells(ClearLive(t))
  BY <1>7, LiveForgotten
  DEF Spells, Consistent, OnScreen, Spelling, SameComposition, ShowsAReading
<1>. QED
  BY <1>7, <1>8, <1>9, <1>10

\* The same of a composition that is converted first, and of a conversion that
\* is converted again.
LEMMA ForcingSpells ==
  ASSUME NEW s, Ready(s), NEW e, e.generation \in Generations,
         NEW withoutFeedback
  PROVE  Spells(ForceZenz(s, e, withoutFeedback))
<1>. DEFINE fromComposition == \/ s.active /\ s.fromComposition
                               \/ s.pending /\ UseLiveConversion
            again == s.state = "CONVERSION" /\ withoutFeedback
            t == CancelPending(s)
            mozc == Write(s.key, "mozc")
            converted == [t EXCEPT !.state = "CONVERSION",
                                   !.conversion = mozc]
<1>1. s \in Sessions /\ s.key \in Readings
  BY DEF Ready, Consistent, Composed, Sessions
<1>2. fromComposition \in BOOLEAN
  BY <1>1, ConfigAssumption DEF Sessions
<1>3. mozc \in Texts /\ Reading(mozc) = s.key
  BY <1>1, WriteSpells DEF Styles
<1>. HIDE DEF mozc
<1>4. /\ Consistent(t) /\ SameComposition(s, t) /\ ~t.pending
      /\ ~t.deferred.on /\ t.active = s.active /\ t.liveValue = s.liveValue
  BY AllDropped DEF Ready, Consistent, NoDeferred
<1>5. Spells(Output(s)) /\ Spells(Output(t))
  BY <1>4, OutputSpells DEF Ready, Emptied, ShowsAReading, SameComposition
<1>. HIDE DEF t
<1>6. ASSUME s.state = "COMPOSITION" \/ again
      PROVE  Consistent(converted) /\ converted.state = "CONVERSION"
  <2>1. /\ converted \in Sessions /\ converted.state = "CONVERSION"
        /\ converted.conversion = mozc /\ converted.key = s.key
        /\ converted.cursor = s.cursor /\ ~converted.pending
        /\ ~converted.deferred.on /\ converted.active = s.active
        /\ converted.liveValue = s.liveValue
    BY <1>3, <1>4 DEF Consistent, Composed, Sessions, SameComposition
  <2>2. /\ s.key # <<>> /\ s.cursor <= Len(s.key)
        /\ s.active => Reading(s.liveValue) = s.key
    BY <1>6 DEF Ready, Consistent, Composed, LiveSpells, IsLive,
       ShowsAReading
  <2>. HIDE DEF converted
  <2>. QED
    BY <1>3, <2>1, <2>2 DEF Consistent, Composed, LiveSpells, DeferredSpells,
       PendingSpells, IsLive
<1>. HIDE DEF converted, fromComposition
<1>7. s.state = "CONVERSION" =>
        Spells(AskForCorrection(s, e, s.active, fromComposition))
  BY <1>2, AskingSpells DEF Ready
<1>8. s.state = "COMPOSITION" \/ again =>
        Spells(AskForCorrection(converted, e, s.active, fromComposition))
  BY <1>2, <1>6, AskingSpells
<1>9. ForceZenz(s, e, withoutFeedback) =
        CASE s.state = "CONVERSION" /\ ~withoutFeedback
               -> AskForCorrection(s, e, s.active, fromComposition)
          [] (s.state = "COMPOSITION" \/ again) /\ e.converts = "ok"
               -> AskForCorrection(converted, e, s.active, fromComposition)
          [] s.state = "COMPOSITION" /\ e.converts # "ok" -> Output(t)
          [] OTHER -> Output(s)
  BY DEF ForceZenz, DoNothing, converted, fromComposition, t, mozc
<1>. HIDE DEF again
<1>. QED
  BY <1>5, <1>7, <1>8, <1>9
-----------------------------------------------------------------------------
\* What abandons the composition, and switching on, show no reading.
LEMMA AbandonSpells ==
  ASSUME NEW s, s \in Sessions
  PROVE  Spells(Abandon(s)) /\ (s.preedit = <<>> => Spells(IMEOn(s)))
<1>. DEFINE c == CancelConverter(EnterState(s, "PRECOMPOSITION"))
<1>1. Consistent(c) /\ Emptied(c)
  BY CompositionLeft
<1>2. Abandon(s) = Output(ClearLive(c))
  BY DEF Abandon, c
<1>. HIDE DEF c
<1>3. Spells(Abandon(s))
  BY <1>1, <1>2, LiveForgotten, OutputSpells
  DEF Consistent, Emptied, ShowsAReading, SameComposition
<1>4. ClearUndo(s) \in Sessions /\ ClearUndo(s).preedit = s.preedit
  BY UndoForgotten DEF ClearUndo, Sessions
<1>. QED
  BY <1>3, <1>4, CompositionLeft
  DEF IMEOn, Spells, OnScreen, Spelling, Emptied, ShowsAReading

\* Session::IMEOff, which commits what is shown.
LEMMA TurningOffSpells ==
  ASSUME NEW s, Ready(s), NEW e, e.generation \in Numbers
  PROVE  Spells(IMEOff(s, e))
<1>. DEFINE t == IF HasDeferred(s) \/ HasVisibleZenz(s) THEN s
                 ELSE IF s.state = "CONVERSION" THEN Promote(s) ELSE s
            u == ClearUndo(t)
            c == Commit(u, e)
<1>1. Ready(t)
  BY PromotedText
<1>2. IMEOff(s, e) = CancelConverter(EnterState(c, "DIRECT"))
  BY DEF IMEOff, c, u, t
<1>. HIDE DEF t
<1>3. Consistent(u) /\ Emptied(u) /\ (u.deferred.on => IsLive(u))
  BY <1>1, UndoForgotten
  DEF Ready, Consistent, Composed, SameTexts, IsLive, Emptied, ShowsAReading
<1>. HIDE DEF u
<1>4. c \in Sessions /\ c.preedit = <<>>
  BY <1>3, EnterSpells DEF Spells, Consistent, Composed, OnScreen, Spelling
<1>. HIDE DEF c
<1>. QED
  BY <1>2, <1>4, CompositionLeft
  DEF Spells, OnScreen, Spelling, Emptied, ShowsAReading

\* Undo brings back a reading that its texts spell, and the pending display if
\* it can still be shown.
LEMMA UndoingSpells ==
  ASSUME NEW s, Ready(s), NEW e, e.generation \in Generations
  PROVE  Spells(Undo(s, e))
<1>1. s.undo = <<>> => Spells(Undo(s, e))
  BY OutputSpells DEF Undo, DoNothing, Ready
<1>2. CASE s.undo # <<>>
  <2>. DEFINE entry == Last(s.undo)
              front == Front(s.undo)
              q == [s EXCEPT !.undo = front, !.state = entry.state,
                             !.key = entry.key, !.cursor = entry.cursor,
                             !.conversion = entry.conversion,
                             !.committed = entry.committed]
              t == ClearLive(q)
              u == [t EXCEPT !.pending = TRUE,
                             !.pendingGeneration = e.generation,
                             !.pendingKey = entry.pendingKey,
                             !.liveValue = entry.liveValue,
                             !.presentation = entry.presentation]
              p == PopUndo(s, e)
              o == OutputPending(u)
  <2>1. s \in Sessions /\ s.undo \in Seq(Entries) /\ Len(s.undo) <= MaxUndo
    BY DEF Ready, Consistent, Composed, Sessions, Stacks
  <2>2. entry \in Entries
    BY <1>2, <2>1 DEF Last
  <2>3. front \in Stacks
    BY <1>2, <2>1, BoundsAssumption DEF Front, Stacks
  <2>4. p = IF entry.pendingKey = <<>> \/ entry.pendingKey # entry.key
              THEN t ELSE u
    BY DEF PopUndo, p, u, t, q, front, entry
  <2>. HIDE DEF entry, front
  <2>5. /\ q \in Sessions /\ q.state = entry.state /\ q.key = entry.key
        /\ q.cursor = entry.cursor /\ q.conversion = entry.conversion
    BY <2>1, <2>2, <2>3 DEF Sessions, Entries
  <2>. HIDE DEF q
  <2>6. Composed(q)
    BY <2>2, <2>5 DEF Composed, Entries
  <2>7. /\ Consistent(t) /\ SameComposition(q, t) /\ ~t.pending /\ ~t.active
        /\ ~t.deferred.on
    BY <2>6, LiveForgotten DEF NoDeferred
  <2>. HIDE DEF t
  <2>8. /\ u \in Sessions /\ u.state = t.state /\ u.key = t.key
        /\ u.cursor = t.cursor /\ u.conversion = t.conversion
        /\ ~u.active /\ u.pending /\ ~u.deferred.on
        /\ u.pendingGeneration = e.generation
        /\ u.pendingKey = entry.pendingKey
    BY <2>2, <2>7 DEF Consistent, Composed, Sessions, Entries, Numbers
  <2>. HIDE DEF u
  <2>9. Composed(u) /\ LiveSpells(u)
    BY <2>7, <2>8 DEF Consistent, Composed, LiveSpells, IsLive,
       ShowsAReading
  <2>. Emptied(u) /\ Emptied(t)
    BY <2>2, <2>5, <2>7, <2>8
    DEF Emptied, ShowsAReading, Entries, SameComposition
  <2>10. Spells(Output(CancelPending(u)))
    BY <2>9, AllDropped, OutputSpells
    DEF Emptied, ShowsAReading, SameComposition
  <2>11. ASSUME CanOutputPending(u), entry.pendingKey # <<>>
         PROVE  Spells(AttachDelayedCallback(o))
    <3>1. u.state = "COMPOSITION"
      BY <2>2, <2>5, <2>7, <2>8, <2>11 DEF Entries, SameComposition
    <3>2. Consistent(u)
      BY <2>8, <2>9, <2>11, <3>1 DEF Consistent, DeferredSpells, PendingSpells
    <3>3. Spells(o) /\ o.pendingGeneration = e.generation
          /\ o.pendingKey = entry.pendingKey
      BY <2>8, <2>11, <3>2, PendingShown DEF OutputPending, Sessions
    <3>. HIDE DEF o
    <3>4. o \in Sessions /\ entry.pendingKey \in Seq(Characters)
      BY <2>2, <3>3 DEF Spells, Consistent, Composed, Entries, Readings
    <3>5. /\ AttachDelayedCallback(o) \in Sessions
          /\ SameScreen(o, AttachDelayedCallback(o))
      BY <3>3, <3>4 DEF AttachDelayedCallback, Sessions, Callback,
         SameScreen, SameTexts
    <3>. QED
      BY <3>3, <3>5, SameSpells
  <2>12. Spells(Output(t)) /\ Spells(DoNothing(s))
    BY <2>7, OutputSpells DEF Ready, DoNothing
  <2>13. Undo(s, e) \in {DoNothing(s)} \cup
           IF ~p.pending THEN {Output(p)}
           ELSE IF CanOutputPending(p)
             THEN {AttachDelayedCallback(OutputPending(p))}
             ELSE {Output(CancelPending(p))}
    BY DEF Undo
  <2>. HIDE DEF p
  <2>. QED
    BY <2>4, <2>7, <2>8, <2>10, <2>11, <2>12, <2>13
<1>. QED
  BY <1>1, <1>2
-----------------------------------------------------------------------------
\* A callback that comes too late shows again what was shown.
LEMMA IgnoringSpells ==
  ASSUME NEW s, Ready(s), s.preedit = <<>>
  PROVE  Spells(IgnoreStale(s))
<1>1. Spells(OutputWithZenzPending(s))
  BY PendingZenzShown DEF Ready
<1>2. HasVisibleZenz(s) => Spells(OutputZenz(s))
  BY ZenzShown DEF Ready, HasVisibleZenz, IsLive
<1>3. s.pending =>
        Spells(IF CanOutputPending(s) THEN OutputPending(s) ELSE s)
  BY PendingShown
  DEF Ready, Consistent, PendingSpells, Spells, OnScreen, Spelling, Emptied
<1>. QED
  BY <1>1, <1>2, <1>3 DEF IgnoreStale

\* Session::ApplyDelayedLiveConversion, in time or too late.
LEMMA DelayedSpells ==
  ASSUME NEW s, Ready(s), s.preedit = <<>>, NEW c, NEW e, e.generation \in
         Generations
  PROVE  Spells(ApplyDelayedLiveConversion(s, c, e))
<1>1. CASE ~IsCurrentLiveCallback(s, c)
  BY <1>1, IgnoringSpells DEF ApplyDelayedLiveConversion
<1>2. CASE IsCurrentLiveCallback(s, c)
  <2>1. s.state = "COMPOSITION" /\ UseLiveConversion
    BY <1>2 DEF IsCurrentLiveCallback, Ready
  <2>2. Spells(Output(CancelPending(s)))
    BY AllDropped, OutputSpells
    DEF Ready, Consistent, Emptied, ShowsAReading, SameComposition
  <2>3. Spells(StartLiveConversion(s, e, TRUE))
    <3>1. PICK yes : yes = TRUE
      OBVIOUS
    <3>2. Spells(StartLiveConversion(s, e, yes))
      BY <2>1, LiveStarted DEF Ready, Consistent
    <3>. QED
      BY <3>1, <3>2, Zenon
  <2>. QED
    BY <1>2, <2>1, <2>2, <2>3
    DEF ApplyDelayedLiveConversion, LiveConversionApplies
<1>. QED
  BY <1>1, <1>2

\* An adopted correction spells what it corrects.
LEMMA AdoptingSpells ==
  ASSUME NEW s, Consistent(s), IsLive(s), s.zenz.mozc = s.liveValue,
         NEW value \in Texts, value # <<>>,
         Reading(value) = Reading(s.liveValue),
         Len(value) = Len(s.liveValue)
  PROVE  Spells(AdoptZenz(s, value))
<1>. DEFINE continued == s.deferred.continued
            previous == IF HasDeferred(s) /\ continued # NoPresentation
                        THEN continued ELSE s.presentation
            kept == /\ HasTransientTail(s.key)
                    /\ HasDeferred(s)
                    /\ continued # NoPresentation
            next == IF kept THEN continued ELSE NoPresentation
            stable == MergeStableSpans(s.liveValue, value, previous)
            v == [value |-> value, mozc |-> s.zenz.mozc, stable |-> stable]
            t == [s EXCEPT !.visible = v, !.zenz = NoZenz,
                           !.presentation = next, !.deferred = NoDeferred]
<1>1. /\ s \in Sessions /\ s.liveValue \in Texts
      /\ continued \in Presentations /\ s.presentation \in Presentations
  BY DEF Consistent, Composed, Sessions, Deferreds
<1>2. previous \in Presentations /\ next \in Presentations
  BY <1>1, NothingTyped
<1>. HIDE DEF previous, next
<1>3. stable \in 0..Len(value)
  BY <1>1, <1>2, MergedIsWithin
<1>. HIDE DEF stable
<1>4. v \in Visibles /\ v.value = value /\ v.mozc = s.liveValue
  BY <1>1, <1>3 DEF Visibles, Texts
<1>. HIDE DEF v
<1>5. /\ t \in Sessions
      /\ t.state = s.state /\ t.key = s.key /\ t.cursor = s.cursor
      /\ t.conversion = s.conversion /\ t.active = s.active
      /\ t.liveValue = s.liveValue /\ t.pending = s.pending
      /\ t.deferred = NoDeferred /\ t.visible = v
  BY <1>1, <1>2, <1>4, NothingTyped DEF Sessions
<1>6. AdoptZenz(s, value) = OutputZenz(t)
  BY DEF AdoptZenz, t, v, stable, next, previous
<1>. HIDE DEF t
<1>. QED
  BY <1>4, <1>5, <1>6, CorrectionShown

\* A correction that is not there yet is polled for, or given up.
LEMMA PollingSpells ==
  ASSUME NEW s, Consistent(s), s.state = "CONVERSION", s.zenz.pending
  PROVE  /\ Spells(StopZenz(s)) /\ Spells(PollZenz(s))
         /\ Spells(AttachZenzCallback(OutputWithZenzPending(s)))
<1>1. Spells(StopZenz(s))
  BY ZenzDropped, OutputSpells
  DEF StopZenz, Consistent, Emptied, ShowsAReading, SameComposition
<1>2. ASSUME NEW t, Consistent(t), t.state = "CONVERSION", t.zenz.pending
      PROVE  Spells(AttachZenzCallback(OutputWithZenzPending(t)))
  <2>. DEFINE o == OutputWithZenzPending(t)
  <2>1. Spells(o) /\ o.zenz = t.zenz
    BY <1>2, PendingZenzShown DEF Emptied, ShowsAReading
  <2>. HIDE DEF o
  <2>. QED
    <3>1. o \in Sessions /\ o.zenz.pending
      BY <1>2, <2>1 DEF Spells, Consistent, Composed
    <3>2. Spells(AttachZenzCallback(o))
      BY <2>1, <3>1, CallbackTyped, SameSpells
    <3>. QED
      BY <3>2 DEF o
<1>3. Spells(PollZenz(s))
  <2>. DEFINE polls == s.zenz.polls + 1
              z == [s.zenz EXCEPT !.polls = polls]
              t == [s EXCEPT !.zenz = z]
  <2>1. s \in Sessions /\ s.zenz \in Zenzes /\ s.zenz.polls \in 0..MaxPolls
    BY DEF Consistent, Composed, Sessions, Zenzes
  <2>2. z.polls = polls /\ z.pending
    BY <2>1 DEF Zenzes
  <2>3. polls \in Nat /\ (~(polls >= MaxPolls) => polls \in 0..MaxPolls)
    BY <2>1, BoundsAssumption
  <2>4. PollZenz(s) = IF t.zenz.polls >= MaxPolls THEN StopZenz(t)
                      ELSE AttachZenzCallback(OutputWithZenzPending(t))
    BY <2>1 DEF PollZenz, Sessions
  <2>. HIDE DEF polls
  <2>5. ~(polls >= MaxPolls) => z \in Zenzes
    BY <2>1, <2>3 DEF Zenzes
  <2>. HIDE DEF z
  <2>6. /\ SameScreen(s, t) /\ t.zenz = z
        /\ ~(polls >= MaxPolls) => t \in Sessions
    BY <2>1, <2>5 DEF Sessions, SameScreen, SameTexts
  <2>7. CancelPendingZenz(t) = CancelPendingZenz(s)
    BY <2>1 DEF CancelPendingZenz, Sessions
  <2>. HIDE DEF t
  <2>8. StopZenz(t) = StopZenz(s)
    BY <2>7 DEF StopZenz
  <2>9. ~(polls >= MaxPolls) => Consistent(t)
    BY <2>6, SameConsistent DEF SameScreen
  <2>. QED
    BY <1>1, <1>2, <2>2, <2>4, <2>6, <2>8, <2>9 DEF SameScreen, SameTexts
<1>. QED
  BY <1>1, <1>2, <1>3

\* A correction is shown a step at a time and spells at every step.
LEMMA AdvancingSpells ==
  ASSUME NEW s, Ready(s), s.zenz.pending, IsLive(s),
         s.liveValue = s.zenz.mozc, NEW e
  PROVE  Spells(AdvanceZenz(s, e))
<1>. DEFINE value == Rewrite(s.zenz.mozc, e.rewrite)
            u == SubmitZenz(s)
            t == [s EXCEPT !.corrector = NoQuestion]
<1>1. Consistent(s) /\ s \in Sessions /\ s.liveValue \in Texts
  BY DEF Ready, Consistent, Composed, Sessions
<1>2. s.liveValue # <<>>
  <2>1. Reading(s.liveValue) = s.key /\ s.key # <<>> /\ s.key \in Readings
    BY <1>1 DEF Consistent, Composed, LiveSpells, IsLive, ShowsAReading,
       Sessions
  <2>2. Len(s.liveValue) = Len(s.key) /\ Len(s.key) # 0 /\ Len(<<>>) = 0
    BY <1>1, <2>1, ReadingIsAReading DEF Readings
  <2>. QED
    BY <2>2
<1>3. Spells(AttachZenzCallback(OutputWithZenzPending(u)))
  <2>1. u \in Sessions /\ SameScreen(s, u) /\ u.zenz.pending
    BY <1>1, QuestionSubmitted
  <2>. HIDE DEF u
  <2>. QED
    BY <1>1, <2>1, SameConsistent, PollingSpells
    DEF SameScreen, SameTexts, IsLive
<1>4. /\ t \in Sessions /\ SameTexts(s, t) /\ t.zenz = s.zenz
  BY <1>1, NothingTyped DEF Sessions, SameTexts
<1>. HIDE DEF t
<1>5. Consistent(t) /\ IsLive(t) /\ t.liveValue = s.liveValue
  BY <1>1, <1>4, SameConsistent DEF SameTexts, IsLive
<1>6. /\ value \in Texts /\ Reading(value) = Reading(s.liveValue)
      /\ Len(value) = Len(s.liveValue)
  BY <1>1, <1>2, RewriteSpells
<1>7. AdvanceZenz(s, e) \in
        {AttachZenzCallback(OutputWithZenzPending(u)), StopZenz(s),
         StopZenz(t), PollZenz(s)}
        \cup IF value # <<>> THEN {AdoptZenz(t, value)} ELSE {}
  BY DEF AdvanceZenz, IsCorrection, t
<1>. HIDE DEF u, value
<1>8. value # <<>> => Spells(AdoptZenz(t, value))
  BY <1>4, <1>5, <1>6, AdoptingSpells
<1>9. Spells(StopZenz(s)) /\ Spells(PollZenz(s)) /\ Spells(StopZenz(t))
  BY <1>1, <1>4, <1>5, PollingSpells DEF SameTexts, IsLive
<1>. QED
  BY <1>3, <1>7, <1>8, <1>9

\* Session::ApplyZenzLiveCorrection, in time or too late.
LEMMA CorrectingSpells ==
  ASSUME NEW s, Ready(s), s.preedit = <<>>, NEW c, NEW e
  PROVE  Spells(ApplyZenzLiveCorrection(s, c, e))
BY IgnoringSpells, AdvancingSpells
DEF ApplyZenzLiveCorrection, IsCurrentZenzCallback, IsLive
-----------------------------------------------------------------------------
\* The client's timers.
Held(held) == held \in Seq(Callback) /\ Len(held) <= MaxTimers

\* One of MaxTimers + 3 tokens is carried by no timer and no pending record.
LEMMA GenerationLeft ==
  ASSUME Held(timers), session \in Sessions
  PROVE  FreshGeneration \in Generations
<1>. DEFINE n == Len(timers)
            carried == {timers[i].generation : i \in DOMAIN timers}
            f == [i \in 1..n |-> timers[i].generation]
            two == {session.pendingGeneration, session.zenz.generation}
            used == carried \cup two
            free == Generations \ used
<1>1. n \in Nat /\ n <= MaxTimers /\ DOMAIN timers = 1..n /\ MaxTimers \in Nat
  BY BoundsAssumption DEF Held
<1>2. IsFiniteSet(1..n) /\ Cardinality(1..n) = n
  <2>1. n \in Int /\ 1 \in Int
    BY <1>1
  <2>. HIDE DEF n
  <2>2. IsFiniteSet(1..n) /\ Cardinality(1..n) = IF 1 > n THEN 0 ELSE n - 1 + 1
    BY <2>1, FS_Interval, Zenon
  <2>3. n = IF 1 > n THEN 0 ELSE n - 1 + 1
    BY <1>1
  <2>. QED
    BY <2>2, <2>3
<1>3. f \in Surjection(1..n, carried)
  BY <1>1 DEF Surjection
<1>. HIDE DEF f, carried
<1>4. /\ IsFiniteSet(carried) /\ Cardinality(carried) <= n
      /\ Cardinality(carried) \in Nat
  BY <1>2, <1>3, FS_Surjection, FS_CardinalityType
<1>5. IsFiniteSet(two) /\ Cardinality(two) <= 2 /\ Cardinality(two) \in Nat
  <2>. DEFINE g == session.pendingGeneration
              h == session.zenz.generation
              one == {g}
  <2>1. IsFiniteSet(one) /\ Cardinality(one) = 1
    BY FS_Singleton
  <2>2. two = one \cup {h}
    OBVIOUS
  <2>. HIDE DEF one, h, g, two
  <2>3. /\ IsFiniteSet(one \cup {h})
        /\ Cardinality(one \cup {h}) =
             IF h \in one THEN Cardinality(one) ELSE Cardinality(one) + 1
    BY <2>1, FS_AddElement
  <2>. QED
    BY <2>1, <2>2, <2>3
<1>. HIDE DEF two
<1>6. /\ IsFiniteSet(used) /\ Cardinality(used) <= MaxTimers + 2
      /\ Cardinality(used) \in Nat
  <2>1. /\ IsFiniteSet(used)
        /\ Cardinality(used) =
             Cardinality(carried) + Cardinality(two)
               - Cardinality(carried \cap two)
    BY <1>4, <1>5, FS_Union
  <2>2. Cardinality(carried \cap two) \in Nat
    <3>1. carried \cap two \in SUBSET carried
      OBVIOUS
    <3>. QED
      BY <1>4, <3>1, FS_Subset, FS_CardinalityType
  <2>3. Cardinality(used) \in Nat
    BY <2>1, FS_CardinalityType
  <2>. QED
    BY <1>1, <1>4, <1>5, <2>1, <2>2, <2>3
<1>. HIDE DEF used
<1>7. free # {}
  <2>. SUFFICES ASSUME free = {} PROVE FALSE
    OBVIOUS
  <2>1. Generations \in SUBSET used
    OBVIOUS
  <2>2. Cardinality(Generations) <= Cardinality(used)
    BY <1>6, <2>1, FS_Subset
  <2>3. Cardinality(Generations) = MaxTimers + 3
    <3>1. 1 \in Int /\ MaxTimers + 3 \in Int /\ ~(1 > MaxTimers + 3)
          /\ (MaxTimers + 3) - 1 + 1 = MaxTimers + 3
      BY <1>1
    <3>2. Cardinality(1..MaxTimers + 3) =
            IF 1 > MaxTimers + 3 THEN 0 ELSE (MaxTimers + 3) - 1 + 1
      BY <3>1, FS_Interval
    <3>. QED
      BY <3>1, <3>2 DEF Generations
  <2>. QED
    BY <1>1, <1>6, <2>2, <2>3
<1>8. free \subseteq Nat
  BY DEF Generations
<1>9. FreshGeneration = Min(free)
  BY DEF FreshGeneration, free, used, carried, two
<1>10. free \subseteq Generations
  OBVIOUS
<1>. HIDE DEF free
<1>11. \E x \in free : \A y \in free : x <= y
  BY <1>7, <1>8, LeastNatural
<1>12. Min(free) \in free
  BY <1>11 DEF Min
<1>. QED
  BY <1>9, <1>10, <1>12

\* A timer that fires or is armed keeps the timers in bounds.
LEMMA TimersKept ==
  ASSUME NEW held, Held(held)
  PROVE  /\ \A i \in DOMAIN held : Held(RemoveAt(held, i))
         /\ \A c \in Callback \cup {NoCallback} : Held(Post(held, c))
<1>1. /\ held \in Seq(Callback) /\ Len(held) \in Nat /\ Len(held) <= MaxTimers
      /\ MaxTimers \in Nat /\ MaxTimers >= 1
  BY BoundsAssumption DEF Held
<1>2. ASSUME NEW i \in DOMAIN held PROVE Held(RemoveAt(held, i))
  <2>. DEFINE t == SubSeq(held, 1, i - 1)
              u == SubSeq(held, i + 1, Len(held))
  <2>1. i \in 1..Len(held)
    BY <1>1
  <2>2. t \in Seq(Callback) /\ Len(t) = i - 1
    BY <1>1, <2>1
  <2>3. u \in Seq(Callback) /\ Len(u) = Len(held) - i
    BY <1>1, <2>1
  <2>4. RemoveAt(held, i) = t \o u
    BY DEF RemoveAt
  <2>. HIDE DEF t, u
  <2>5. t \o u \in Seq(Callback) /\ Len(t \o u) = Len(t) + Len(u)
    BY <2>2, <2>3, ConcatProperties
  <2>. QED
    BY <1>1, <2>1, <2>2, <2>3, <2>4, <2>5 DEF Held
<1>3. ASSUME NEW c \in Callback PROVE Held(Post(held, c))
  <2>. DEFINE left == IF Len(held) >= MaxTimers THEN Tail(held) ELSE held
  <2>1. left \in Seq(Callback) /\ Len(left) + 1 <= MaxTimers
        /\ Len(left) \in Nat
    <3>1. CASE Len(held) >= MaxTimers
      <4>1. held # <<>>
        BY <1>1, <3>1
      <4>2. Tail(held) \in Seq(Callback) /\ Len(Tail(held)) = Len(held) - 1
        BY <1>1, <4>1
      <4>. QED
        BY <1>1, <3>1, <4>2
    <3>2. CASE ~(Len(held) >= MaxTimers)
      BY <1>1, <3>2
    <3>. QED
      BY <3>1, <3>2
  <2>2. c # NoCallback
    BY DEF Callback, NoCallback
  <2>3. Post(held, c) = Append(left, c)
    BY <2>2 DEF Post
  <2>. HIDE DEF left
  <2>4. /\ Append(left, c) \in Seq(Callback)
        /\ Len(Append(left, c)) = Len(left) + 1
    BY <2>1, AppendProperties
  <2>. QED
    BY <2>1, <2>3, <2>4 DEF Held
<1>4. Held(Post(held, NoCallback))
  BY DEF Post
<1>. QED
  BY <1>2, <1>3, <1>4

\* What the end of SendKey and SendCommand leaves.
OnlyLive(s) == s.active => s.state = "CONVERSION"

\* The invariant: a screen that spells, nothing active without a conversion,
\* and no more timers than the client keeps.
Rests ==
  Spells(session) /\ OnlyLive(session) /\ Held(timers)

\* What SendKey does last leaves nothing active without a conversion.
LEMMA SettledSpells ==
  ASSUME NEW s, Spells(s)
  PROVE  LET t == Settle(s)
         IN  Spells(t) /\ OnlyLive(t) /\ t.callback = s.callback
<1>1. CASE s.state = "CONVERSION"
  BY <1>1 DEF Settle, OnlyLive
<1>2. CASE s.state # "CONVERSION"
  <2>. DEFINE q == [s EXCEPT !.active = FALSE, !.fromComposition = FALSE]
              t == ClearZenz(q)
  <2>1. /\ q \in Sessions /\ SameComposition(s, q) /\ ~q.active
        /\ q.pending = s.pending /\ q.presentation = s.presentation
        /\ q.liveValue = s.liveValue
    BY DEF Spells, Consistent, Composed, Sessions, SameComposition
  <2>2. Settle(s) = t
    BY <1>2 DEF Settle
  <2>. HIDE DEF q
  <2>3. Composed(q) /\ LiveSpells(q) /\ PendingSpells(q)
    BY <1>2, <2>1 DEF Spells, Consistent, Composed, LiveSpells,
       PendingSpells, SameComposition, IsLive, ShowsAReading, CanOutputPending
  <2>4. Consistent(t) /\ SameComposition(q, t) /\ t.active = q.active
    BY <2>3, ZenzDropped
  <2>. HIDE DEF t
  <2>. QED
    BY <2>1, <2>2, <2>4
    DEF Spells, OnScreen, Spelling, OnlyLive, SameComposition, ShowsAReading
<1>. QED
  BY <1>1, <1>2

\* The result is counted by the saved context.
LEMMA DeliveredSpells ==
  ASSUME NEW s, Spells(s)
  PROVE  LET t == Deliver(s)
         IN  Spells(t) /\ SameTexts(s, t)
<1>1. CASE s.undo = <<>>
  BY <1>1 DEF Deliver, SameTexts
<1>2. CASE s.undo # <<>>
  <2>. DEFINE u == s.undo
              entry == u[Len(u)]
              n == entry.delivered + Len(s.result)
              w == [entry EXCEPT !.delivered = n]
              v == [u EXCEPT ![Len(u)] = w]
              t == [s EXCEPT !.undo = v]
  <2>1. /\ s \in Sessions /\ u \in Seq(Entries) /\ Len(u) <= MaxUndo
        /\ Len(s.result) \in Nat
    BY DEF Spells, Consistent, Composed, Sessions, Stacks, Texts
  <2>2. Len(u) \in 1..Len(u) /\ entry \in Entries
    BY <1>2, <2>1
  <2>3. Deliver(s) = t
    BY <1>2, <2>1, <2>2 DEF Deliver, Sessions
  <2>. HIDE DEF entry
  <2>4. n \in Nat
    <3>1. entry.delivered \in Nat
      BY <2>2 DEF Entries
    <3>. QED
      BY <2>1, <3>1
  <2>. HIDE DEF n
  <2>5. w \in Entries
    BY <2>2, <2>4 DEF Entries
  <2>. HIDE DEF w
  <2>6. v \in Seq(Entries) /\ Len(v) = Len(u)
    BY <2>1, <2>2, <2>5, ExceptSeq
  <2>7. v \in Stacks
    BY <2>1, <2>6 DEF Stacks
  <2>. HIDE DEF v
  <2>8. t \in Sessions /\ SameScreen(s, t)
    BY <2>1, <2>7 DEF Sessions, SameScreen, SameTexts
  <2>. HIDE DEF t
  <2>. QED
    BY <2>3, <2>8, SameSpells DEF SameScreen
<1>. QED
  BY <1>1, <1>2

\* A response is delivered and its callback armed.
LEMMA RespondingRests ==
  ASSUME NEW s, Spells(s), NEW held, Held(held), Respond(s, held)
  PROVE  Rests'
<1>. DEFINE t == Settle(s)
            d == Deliver(t)
            f == [d EXCEPT !.callback = NoCallback]
<1>1. Spells(t) /\ OnlyLive(t)
  BY SettledSpells
<1>. HIDE DEF t
<1>2. Spells(d) /\ OnlyLive(d)
  BY <1>1, DeliveredSpells DEF SameTexts, OnlyLive
<1>. HIDE DEF d
<1>3. f \in Sessions /\ SameScreen(d, f)
  BY <1>2 DEF Spells, Consistent, Composed, Sessions, SameScreen, SameTexts
<1>4. session' = f /\ timers' = Post(held, s.callback)
  BY DEF Respond, f, d, t
<1>. HIDE DEF f
<1>5. Spells(f) /\ OnlyLive(f)
  BY <1>2, <1>3, SameSpells DEF SameScreen, SameTexts, OnlyLive
<1>6. s.callback \in Callback \cup {NoCallback}
  BY DEF Spells, Consistent, Composed, Sessions
<1>7. Held(timers')
  BY <1>4, <1>6, TimersKept
<1>8. Spells(session') /\ OnlyLive(session')
  BY <1>4, <1>5
<1>. QED
  BY <1>7, <1>8 DEF Rests, Spells, OnScreen, Spelling, Consistent, Composed,
     LiveSpells,
     DeferredSpells, PendingSpells, OnlyLive, Held, ShowsAReading, IsLive
-----------------------------------------------------------------------------
\* What a key or callback finds: a session no handler works on.
LEMMA BeginsReady ==
  ASSUME Inv, Rests
  PROVE  /\ Ready(Before) /\ SameTexts(session, Before)
         /\ Before.visible = session.visible /\ Before.preedit = <<>>
<1>. DEFINE b == Before
<1>1. session \in Sessions
  BY DEF Rests, Spells, Consistent, Composed
<1>2. /\ b \in Sessions /\ SameTexts(session, b)
      /\ b.visible = session.visible /\ b.preedit = <<>>
  BY <1>1, NothingTyped DEF Before, NewOutput, Sessions, SameTexts
<1>3. Consistent(b)
  BY <1>2, SameConsistent DEF Rests, Spells
<1>. HIDE DEF b
<1>4. /\ b.deferred.on => IsLive(b)
      /\ b.active => b.state = "CONVERSION"
      /\ b.pending => UseLiveConversion
      /\ Emptied(b)
  BY <1>2 DEF Inv, Good, DeferredIsLive, ZenzIsLive, Handled, Shape, IsLive,
     SameTexts, Rests, OnlyLive, Emptied, ShowsAReading, Spells, OnScreen,
     Spelling
<1>. QED
  BY <1>2, <1>3, <1>4 DEF Ready, b

\* Every outcome of the converter or scorer has a token of its own.
LEMMA OutcomesFresh ==
  ASSUME FreshGeneration \in Generations
  PROVE  /\ \A e \in Conversions \cup Replies : e.generation \in Generations
         /\ NoOutcome.generation \in Generations
<1>1. NoOutcome.generation = FreshGeneration
  BY DEF NoOutcome
<1>2. \A e \in Conversions : e.generation = FreshGeneration
  BY DEF Conversions, NoOutcome
<1>3. \A e \in Replies : e.generation = FreshGeneration
  BY DEF Replies, NoOutcome
<1>. QED
  BY <1>1, <1>2, <1>3
-----------------------------------------------------------------------------
(***************************************************************************)
(* What a handler does to the document of the user, and what Undo goes by.  *)
(***************************************************************************)

\* What a handler does to the user's document, what Undo goes by, and the state
\* it leaves.
Document == {"undo", "committed", "result", "state"}

SameDocument(s, t) ==
  /\ Document \subseteq DOMAIN t
  /\ t.undo = s.undo /\ t.committed = s.committed /\ t.result = s.result

\* An operator that only writes other members.
LEMMA DocumentKept ==
  ASSUME NEW s, Document \subseteq DOMAIN s
  PROVE  /\ \A text : SameDocument(s, [s EXCEPT !.preedit = text])
         /\ SameDocument(s, CancelConverter(s))
         /\ \A state : SameDocument(s, EnterState(s, state))
         /\ SameDocument(s, CancelPendingZenz(s))
         /\ SameDocument(s, ClearZenz(s))
         /\ SameDocument(s, DropPending(s))
<1>1. SameDocument(s, CancelPendingZenz(s))
  BY DEF CancelPendingZenz, Document, SameDocument
<1>. DEFINE c == CancelPendingZenz(s)
<1>2. ClearZenz(s) = [c EXCEPT !.visible = NoVisible]
  BY DEF ClearZenz
<1>. HIDE DEF c
<1>3. SameDocument(s, ClearZenz(s))
  BY <1>1, <1>2 DEF Document, SameDocument, c
<1>. QED
  BY <1>1, <1>3
  DEF CancelConverter, EnterState, DropPending, Document, SameDocument

\* So do their compositions.
LEMMA DocumentPassedOn ==
  ASSUME NEW s, NEW t, NEW u, SameDocument(s, t), SameDocument(t, u)
  PROVE  SameDocument(s, u)
BY DEF SameDocument

\* The Output functions.
LEMMA OutputKeepsDocument ==
  ASSUME NEW s, Document \subseteq DOMAIN s
  PROVE  /\ SameDocument(s, Output(s)) /\ SameDocument(s, OutputZenz(s))
         /\ SameDocument(s, OutputPending(s))
         /\ SameDocument(s, OutputDeferred(s))
         /\ SameDocument(s, OutputWithZenzPending(s))
<1>1. SameDocument(s, s)
  BY DEF SameDocument
<1>2. \A t : SameDocument(s, t) =>
        SameDocument(s, OutputDeferred(t)) /\ SameDocument(s, Output(t))
  BY DocumentKept, DocumentPassedOn
  DEF OutputDeferred, Output, SameDocument
<1>. QED
  BY <1>1, <1>2, DocumentKept
  DEF OutputZenz, OutputPending, OutputWithZenzPending

\* The Cancel and Clear functions.
LEMMA ClearingKeepsDocument ==
  ASSUME NEW s, Document \subseteq DOMAIN s
  PROVE  /\ SameDocument(s, CancelPending(s)) /\ SameDocument(s, ClearLive(s))
         /\ SameDocument(s, LeaveLiveConversion(s))
         /\ SameDocument(s, RestoreDeferred(s))
         /\ SameDocument(s, CancelForEditing(s))
         /\ SameDocument(s, Promote(s))
<1>1. \A t : SameDocument(s, t) =>
        /\ SameDocument(s, DropPending(t))
        /\ SameDocument(s, CancelPendingZenz(t))
        /\ SameDocument(s, ClearZenz(t)) /\ SameDocument(s, CancelConverter(t))
        /\ SameDocument(s, EnterState(t, "COMPOSITION"))
  BY DocumentKept, DocumentPassedOn DEF SameDocument
<1>2. SameDocument(s, s)
  BY DEF SameDocument
<1>3. \A t : SameDocument(s, t) => SameDocument(s, CancelPending(t))
  BY <1>1 DEF CancelPending
<1>4. \A t : SameDocument(s, t) =>
        /\ SameDocument(s, [t EXCEPT !.active = FALSE, !.fromComposition = FALSE])
        /\ SameDocument(s, [t EXCEPT !.presentation = NoPresentation])
        /\ \A v : SameDocument(s, [t EXCEPT !.liveValue = v])
        /\ SameDocument(s, [t EXCEPT
               !.active = FALSE, !.fromComposition = FALSE,
               !.liveValue = <<>>, !.presentation = NoPresentation])
  BY DEF SameDocument, Document
<1>5. SameDocument(s, ClearLive(s))
  BY <1>1, <1>2, <1>4 DEF ClearLive
<1>6. \A t : SameDocument(s, t) => SameDocument(s, LeaveLiveConversion(t))
  BY <1>1, <1>4 DEF LeaveLiveConversion
<1>7. SameDocument(s, RestoreDeferred(s))
  BY <1>2, <1>3, <1>4, <1>6 DEF RestoreDeferred
<1>8. SameDocument(s, CancelForEditing(s))
  BY <1>1, <1>2, <1>3, <1>4, <1>6, <1>7 DEF CancelForEditing
<1>9. SameDocument(s, Promote(s))
  BY <1>1, <1>2, <1>4 DEF Promote
<1>. QED
  BY <1>2, <1>3, <1>5, <1>6, <1>7, <1>8, <1>9

\* What asks for a correction.
LEMMA AskingKeepsDocument ==
  ASSUME NEW s, NEW t, SameDocument(s, t)
  PROVE  /\ SameDocument(s, SubmitZenz(t))
         /\ SameDocument(s, AttachZenzCallback(t))
         /\ SameDocument(s, AttachDelayedCallback(t))
         /\ \A e, forced : SameDocument(s, ScheduleZenz(t, e, forced))
         /\ \A e : SameDocument(s, ApplyFeedback(t, e))
         /\ \A seen, previous :
              SameDocument(s, DeferDisplayOf(t, seen, previous))
<1>1. \A u : SameDocument(s, u) =>
        /\ SameDocument(s, SubmitZenz(u))
        /\ SameDocument(s, AttachZenzCallback(u))
        /\ SameDocument(s, AttachDelayedCallback(u))
        /\ \A z : SameDocument(s, [u EXCEPT !.zenz = z])
        /\ \A z, v : SameDocument(s, [u EXCEPT !.zenz = z, !.visible = v])
        /\ \A v : SameDocument(s, [u EXCEPT !.deferred = v])
  BY DEF SubmitZenz, AttachZenzCallback, AttachDelayedCallback, SameDocument,
     Document
<1>2. \A u : SameDocument(s, u) =>
        SameDocument(s, OutputZenz(u)) /\ SameDocument(s, OutputDeferred(u))
  BY OutputKeepsDocument, DocumentPassedOn DEF SameDocument
<1>3. \A e, forced : SameDocument(s, ScheduleZenz(t, e, forced))
  <2>. TAKE e, forced
  <2>. DEFINE z == [pending |-> TRUE, generation |-> e.generation,
                    mozc |-> t.liveValue, submitted |-> FALSE, polls |-> 0]
              u == [t EXCEPT !.zenz = z]
  <2>1. SameDocument(s, u)
    BY <1>1
  <2>2. ScheduleZenz(t, e, forced)
          \in {AttachZenzCallback(u), AttachZenzCallback(SubmitZenz(u))}
    BY DEF ScheduleZenz
  <2>. HIDE DEF u
  <2>. QED
    BY <1>1, <2>1, <2>2
<1>4. \A e : SameDocument(s, ApplyFeedback(t, e))
  BY <1>1, <1>2 DEF ApplyFeedback
<1>5. \A seen, previous : SameDocument(s, DeferDisplayOf(t, seen, previous))
  BY <1>1, <1>2 DEF DeferDisplayOf
<1>. QED
  BY <1>1, <1>3, <1>4, <1>5

\* What starts or schedules a live conversion.
LEMMA SchedulingKeepsDocument ==
  ASSUME NEW s, Document \subseteq DOMAIN s, NEW e
  PROVE  /\ \A allowZenz :
              SameDocument(s, StartLiveConversion(s, e, allowZenz))
         /\ SameDocument(s, ScheduleLiveConversion(s, e))
         /\ SameDocument(s, StartAfterEditing(s, e))
<1>. DEFINE Keeps(t) == SameDocument(s, t)
<1>1. \A t : Keeps(t) =>
        /\ Keeps(DropPending(t)) /\ Keeps(ClearZenz(t)) /\ Keeps(Output(t))
        /\ Keeps(OutputPending(t)) /\ Keeps(CancelPending(t))
        /\ Keeps([t EXCEPT !.presentation = NoPresentation])
        /\ \A g, k : Keeps([t EXCEPT !.pending = TRUE, !.pendingGeneration = g,
                                    !.pendingKey = k])
        /\ \A c : Keeps([t EXCEPT !.state = "CONVERSION", !.conversion = c,
                                 !.active = TRUE, !.fromComposition = TRUE,
                                 !.liveValue = c,
                                 !.presentation = NoPresentation])
  <2>1. \A t : Keeps(t) =>
          /\ Keeps([t EXCEPT !.presentation = NoPresentation])
          /\ \A g, k : Keeps([t EXCEPT !.pending = TRUE,
                                      !.pendingGeneration = g,
                                      !.pendingKey = k])
          /\ \A c : Keeps([t EXCEPT !.state = "CONVERSION", !.conversion = c,
                                   !.active = TRUE, !.fromComposition = TRUE,
                                   !.liveValue = c,
                                   !.presentation = NoPresentation])
    BY DEF SameDocument, Document
  <2>. QED
    BY <2>1, DocumentKept, OutputKeepsDocument, ClearingKeepsDocument,
       DocumentPassedOn
    DEF SameDocument
<1>2. Keeps(s)
  BY DEF SameDocument
<1>3. \A t, allowZenz : Keeps(t) => Keeps(ConversionSucceeds(t, e, allowZenz))
  <2>. TAKE t, allowZenz
  <2>. DEFINE mozc == Write(t.key, "mozc")
              q == [DropPending(t) EXCEPT
                     !.state = "CONVERSION", !.conversion = mozc,
                     !.active = TRUE, !.fromComposition = TRUE,
                     !.liveValue = mozc, !.presentation = NoPresentation]
              o == Output(ClearZenz(q))
              u == ScheduleZenz(o, e, FALSE)
  <2>1. Keeps(t) => Keeps(q)
    BY <1>1
  <2>. HIDE DEF q
  <2>2. Keeps(t) => Keeps(o)
    BY <1>1, <2>1
  <2>3. ConversionSucceeds(t, e, allowZenz) \in
          {ApplyFeedback(o, e), u, o,
           DeferDisplayOf(u, SeenBefore(t), t.liveValue)}
    BY DEF ConversionSucceeds, u, o, q, mozc
  <2>. HIDE DEF o, Keeps
  <2>4. Keeps(t) => Keeps(u) /\ Keeps(ApplyFeedback(o, e))
    BY <2>2, AskingKeepsDocument DEF Keeps
  <2>. HIDE DEF u
  <2>5. Keeps(t) => Keeps(DeferDisplayOf(u, SeenBefore(t), t.liveValue))
    BY <2>4, AskingKeepsDocument DEF Keeps
  <2>. QED
    BY <2>2, <2>3, <2>4, <2>5
<1>4. \A t : Keeps(t) => Keeps(ConversionFails(t, e))
  <2>. HIDE DEF Keeps
  <2>. QED
    BY <1>1 DEF ConversionFails
<1>5. \A t, allowZenz : Keeps(t) => Keeps(StartLiveConversion(t, e, allowZenz))
  <2>. HIDE DEF Keeps
  <2>. QED
    BY <1>3, <1>4 DEF StartLiveConversion
<1>6. \A t : Keeps(t) => Keeps(AttachDelayedCallback(t))
  BY AskingKeepsDocument
<1>. HIDE DEF Keeps
<1>7. Keeps(ScheduleLiveConversion(s, e))
  <2>. DEFINE t == [s EXCEPT !.pending = TRUE,
                             !.pendingGeneration = e.generation,
                             !.pendingKey = s.key]
  <2>1. Keeps(t)
    BY <1>1, <1>2
  <2>2. ScheduleLiveConversion(s, e) \in
          {Output(s), Output(CancelPending(s)),
           StartLiveConversion(s, e, TRUE),
           AttachDelayedCallback(OutputPending(t)),
           StartLiveConversion(t, e, TRUE)}
    BY DEF ScheduleLiveConversion
  <2>. HIDE DEF t
  <2>3. PICK yes : yes = TRUE
    OBVIOUS
  <2>4. /\ Keeps(StartLiveConversion(s, e, yes))
        /\ Keeps(StartLiveConversion(t, e, yes))
    BY <1>2, <1>5, <2>1
  <2>5. /\ Keeps(Output(s)) /\ Keeps(Output(CancelPending(s)))
        /\ Keeps(AttachDelayedCallback(OutputPending(t)))
    BY <1>1, <1>2, <1>6, <2>1
  <2>. QED
    BY <2>2, <2>3, <2>4, <2>5, Zenon
<1>8. Keeps(StartAfterEditing(s, e))
  BY <1>1, <1>2, <1>5 DEF StartAfterEditing
<1>. QED
  BY <1>2, <1>5, <1>7, <1>8 DEF Keeps

\* Explicit conversions, and what brings another text back.
LEMMA ConvertingKeepsDocument ==
  ASSUME NEW s, Document \subseteq DOMAIN s, NEW e
  PROVE  /\ SameDocument(s, Convert(s, e)) /\ SameDocument(s, Choose(s))
         /\ SameDocument(s, Choose(Promote(s)))
         /\ SameDocument(s, ConvertToTransliteration(s))
         /\ SameDocument(s, ConvertCancel(s))
         /\ SameDocument(s, RevealDeferred(s))
         /\ SameDocument(s, RevertZenz(s))
         /\ SameDocument(s, Abandon(s))
<1>. DEFINE Keeps(t) == SameDocument(s, t)
<1>1. \A t : Keeps(t) =>
        /\ Keeps(ClearZenz(t)) /\ Keeps(Output(t)) /\ Keeps(CancelPending(t))
        /\ Keeps(ClearLive(t)) /\ Keeps(CancelConverter(t)) /\ Keeps(Promote(t))
        /\ \A state : Keeps(EnterState(t, state))
        /\ \A text : Keeps([t EXCEPT !.preedit = text])
        /\ \A c : Keeps([t EXCEPT !.conversion = c])
        /\ \A c : Keeps([t EXCEPT !.state = "CONVERSION", !.conversion = c])
  <2>1. \A t : Keeps(t) =>
          /\ \A c : Keeps([t EXCEPT !.conversion = c])
          /\ \A c : Keeps([t EXCEPT !.state = "CONVERSION", !.conversion = c])
    BY DEF SameDocument, Document
  <2>. QED
    BY <2>1, DocumentKept, OutputKeepsDocument, ClearingKeepsDocument,
       DocumentPassedOn
    DEF SameDocument
<1>2. Keeps(s)
  BY DEF SameDocument
<1>. HIDE DEF Keeps
<1>3. Keeps(Convert(s, e)) /\ Keeps(ConvertToTransliteration(s))
  BY <1>1, <1>2 DEF Convert, ConvertToTransliteration
<1>4. \A t : Keeps(t) => Keeps(Choose(t))
  <2>. TAKE t
  <2>1. PICK c : Choose(t) = Output([t EXCEPT !.conversion = c])
    BY DEF Choose
  <2>. QED
    BY <1>1, <2>1
<1>5. Keeps(ConvertCancel(s)) /\ Keeps(RevealDeferred(s)) /\ Keeps(Abandon(s))
  BY <1>1, <1>2 DEF ConvertCancel, RevealDeferred, Abandon
<1>6. Keeps(RevertZenz(s))
  BY <1>1, <1>2 DEF RevertZenz
<1>. QED
  BY <1>1, <1>2, <1>3, <1>4, <1>5, <1>6 DEF Keeps

\* ForceZenzLiveCorrection.
LEMMA ForcingKeepsDocument ==
  ASSUME NEW s, Document \subseteq DOMAIN s, NEW e, NEW withoutFeedback
  PROVE  SameDocument(s, ForceZenz(s, e, withoutFeedback))
<1>. DEFINE Keeps(t) == SameDocument(s, t)
            p == CancelPending(s)
            converted == [p EXCEPT !.state = "CONVERSION",
                                   !.conversion = Write(s.key, "mozc")]
<1>1. \A t : Keeps(t) => Keeps(ClearZenz(t)) /\ Keeps(Output(t))
                        /\ Keeps(ClearLive(t))
  BY DocumentKept, OutputKeepsDocument, ClearingKeepsDocument,
     DocumentPassedOn
  DEF SameDocument
<1>2. Keeps(s) /\ Keeps(p)
  BY ClearingKeepsDocument DEF SameDocument
<1>. HIDE DEF p
<1>3. Keeps(converted)
  BY <1>2 DEF SameDocument, Document
<1>4. \A t, wasLive, fromComposition :
        Keeps(t) => Keeps(AskForCorrection(t, e, wasLive, fromComposition))
  <2>. TAKE t, wasLive, fromComposition
  <2>. DEFINE c == ClearZenz(t)
              q == [c EXCEPT !.active = TRUE,
                             !.fromComposition = fromComposition,
                             !.liveValue = t.conversion]
              o == Output(q)
  <2>1. Keeps(t) => Keeps(c)
    BY <1>1
  <2>. HIDE DEF c
  <2>2. Keeps(t) => Keeps(q)
    BY <2>1 DEF SameDocument, Document
  <2>. HIDE DEF q
  <2>3. Keeps(t) => Keeps(o)
    BY <1>1, <2>2
  <2>4. AskForCorrection(t, e, wasLive, fromComposition)
          \in {ScheduleZenz(o, e, TRUE), o, ClearLive(o)}
    BY DEF AskForCorrection, o, q, c
  <2>. HIDE DEF o, Keeps
  <2>5. PICK yes : yes = TRUE
    OBVIOUS
  <2>6. Keeps(t) => Keeps(ScheduleZenz(o, e, yes))
    BY <2>3, AskingKeepsDocument DEF Keeps
  <2>7. Keeps(t) => Keeps(ScheduleZenz(o, e, TRUE))
    BY <2>5, <2>6, Zenon
  <2>. QED
    BY <1>1, <2>3, <2>4, <2>7
<1>. HIDE DEF Keeps, converted
<1>5. \E wasLive, fromComposition :
        ForceZenz(s, e, withoutFeedback) \in
          {AskForCorrection(s, e, wasLive, fromComposition),
           AskForCorrection(converted, e, wasLive, fromComposition),
           Output(p), Output(s)}
  BY DEF ForceZenz, DoNothing, converted, p
<1>. QED
  BY <1>1, <1>2, <1>3, <1>4, <1>5 DEF Keeps

\* What a callback does, in time or too late.
LEMMA CallbacksKeepDocument ==
  ASSUME NEW s, Document \subseteq DOMAIN s, NEW c, NEW e
  PROVE  /\ SameDocument(s, IgnoreStale(s))
         /\ SameDocument(s, ApplyDelayedLiveConversion(s, c, e))
         /\ SameDocument(s, ApplyZenzLiveCorrection(s, c, e))
         /\ s.state = "PRECOMPOSITION" =>
              /\ ApplyDelayedLiveConversion(s, c, e).state = s.state
              /\ ApplyZenzLiveCorrection(s, c, e).state = s.state
<1>. DEFINE Keeps(t) == SameDocument(s, t)
            AttachedTo(t) == AttachZenzCallback(OutputWithZenzPending(t))
<1>1. \A t : Keeps(t) =>
        /\ Keeps(Output(t)) /\ Keeps(CancelPending(t))
        /\ Keeps(CancelPendingZenz(t)) /\ Keeps(OutputZenz(t))
        /\ Keeps(OutputPending(t)) /\ Keeps(OutputWithZenzPending(t))
  BY DocumentKept, OutputKeepsDocument, ClearingKeepsDocument,
     DocumentPassedOn
  DEF SameDocument
<1>2. \A t : Keeps(t) =>
        Keeps(AttachZenzCallback(t)) /\ Keeps(SubmitZenz(t))
  BY AskingKeepsDocument
<1>3. Keeps(s)
  BY DEF SameDocument
<1>4. Keeps(StartLiveConversion(s, e, TRUE))
  BY SchedulingKeepsDocument, Zenon
<1>5. \A v, z, p, d :
        /\ Keeps([s EXCEPT !.corrector = v])
        /\ Keeps([s EXCEPT !.zenz.polls = v])
        /\ \A t : Keeps(t) => Keeps([t EXCEPT !.visible = v, !.zenz = z,
                                            !.presentation = p,
                                            !.deferred = d])
  BY DEF SameDocument, Document
<1>6. \A t, value : Keeps(t) => Keeps(AdoptZenz(t, value))
  <2>. TAKE t, value
  <2>1. PICK v, p : AdoptZenz(t, value) =
          OutputZenz([t EXCEPT !.visible = v, !.zenz = NoZenz,
                               !.presentation = p, !.deferred = NoDeferred])
    BY DEF AdoptZenz
  <2>. HIDE DEF Keeps
  <2>. QED
    BY <1>1, <1>5, <2>1
<1>. HIDE DEF Keeps
<1>7. Keeps(IgnoreStale(s))
  BY <1>1, <1>3 DEF IgnoreStale
<1>8. Keeps(ApplyDelayedLiveConversion(s, c, e))
  BY <1>1, <1>3, <1>4, <1>7 DEF ApplyDelayedLiveConversion
<1>9. \A t : Keeps(t) => Keeps(StopZenz(t)) /\ Keeps(AttachedTo(t))
  BY <1>1, <1>2 DEF StopZenz
<1>10. Keeps(PollZenz(s))
  <2>. DEFINE t == [s EXCEPT !.zenz.polls = @ + 1]
  <2>1. Keeps(t)
    BY <1>5
  <2>2. PollZenz(s) \in {StopZenz(t), AttachedTo(t)}
    BY DEF PollZenz
  <2>. HIDE DEF t, AttachedTo
  <2>. QED
    BY <1>9, <2>1, <2>2
<1>11. Keeps(AdvanceZenz(s, e))
  <2>. DEFINE t == [s EXCEPT !.corrector = NoQuestion]
              value == Rewrite(s.zenz.mozc, e.rewrite)
  <2>1. Keeps(t) /\ Keeps(SubmitZenz(s))
    BY <1>2, <1>3, <1>5
  <2>2. AdvanceZenz(s, e) \in
          {AttachedTo(SubmitZenz(s)), StopZenz(s), AdoptZenz(t, value),
           StopZenz(t), PollZenz(s)}
    BY DEF AdvanceZenz
  <2>. HIDE DEF t, AttachedTo, value
  <2>. QED
    BY <1>3, <1>6, <1>9, <1>10, <2>1, <2>2
<1>12. IgnoreStale(s).state = s.state
  BY DEF IgnoreStale, OutputZenz, OutputWithZenzPending, OutputPending,
     OutputDeferred, Output, Document
<1>13. s.state = "PRECOMPOSITION" =>
        /\ ApplyDelayedLiveConversion(s, c, e).state = s.state
        /\ ApplyZenzLiveCorrection(s, c, e).state = s.state
  BY <1>12 DEF ApplyDelayedLiveConversion, IsCurrentLiveCallback,
     ApplyZenzLiveCorrection, IsCurrentZenzCallback
<1>. QED
  BY <1>7, <1>8, <1>11, <1>13 DEF ApplyZenzLiveCorrection, Keeps
-----------------------------------------------------------------------------
\* PushUndoContext on a stack that keeps MaxUndo contexts.
Bounded(stack) == IF Len(stack) > MaxUndo THEN Tail(stack) ELSE stack

\* The context on top was saved with s on the stack.
Saved(s, undo) ==
  \E entry : /\ entry.delivered = 0 /\ entry.committed = s.committed
             /\ undo = Bounded(Append(s.undo, entry))

\* A handler may forget the saved contexts, change nothing of the document,
\* save a context and remember what it committed, go back to the saved
\* context, or commit a correction behind the contexts' back.
Remembers(s, t) ==
  /\ Saved(s, t.undo)
  /\ t.committed = IF t.undo = <<>> THEN 0 ELSE Len(t.result)

GoesBack(s, t) ==
  /\ s.undo # <<>> /\ t.undo = Front(s.undo)
  /\ t.committed = Last(s.undo).committed /\ t.result = s.result

Escapes(s, t) ==
  HasVisibleZenz(s) /\ t.undo = s.undo /\ t.state = "PRECOMPOSITION"
  /\ t.committed = s.committed

\* What is deleted from the document when the context on top is restored.
LEMMA ContextIsSaved ==
  ASSUME NEW s, Document \subseteq DOMAIN s
  PROVE  LET t == PushUndo(s)
         IN  /\ Saved(s, t.undo) /\ Document \subseteq DOMAIN t
             /\ t.result = s.result
<1>. DEFINE pending == s.pending /\ s.state = "COMPOSITION"
            entry == [state |-> s.state, key |-> s.key, cursor |-> s.cursor,
                      conversion |-> s.conversion,
                      committed |-> s.committed,
                      pendingKey |-> IF pending THEN s.pendingKey ELSE <<>>,
                      presentation |-> IF pending THEN s.presentation
                                       ELSE NoPresentation,
                      delivered |-> 0,
                      liveValue |-> IF pending THEN s.liveValue ELSE <<>>]
            u == Bounded(Append(s.undo, entry))
<1>1. entry.delivered = 0 /\ entry.committed = s.committed
  OBVIOUS
<1>. HIDE DEF entry
<1>2. Saved(s, u)
  BY <1>1 DEF Saved
<1>. HIDE DEF u
<1>3. PushUndo(s) = [s EXCEPT !.undo = u]
  BY DEF PushUndo, Bounded, u, entry
<1>. QED
  BY <1>2, <1>3 DEF Document

\* Remembering the result, whatever was done to the session meanwhile.
LEMMA ResultIsRemembered ==
  ASSUME NEW s, NEW t, Document \subseteq DOMAIN t, Saved(s, t.undo)
  PROVE  LET r == RememberResult(t)
         IN  Remembers(s, r) /\ Document \subseteq DOMAIN r
BY DEF RememberResult, Remembers, Document

\* CommitStringDirectly adds to the result only.
LEMMA DirectlyCommitted ==
  ASSUME NEW s, Document \subseteq DOMAIN s, NEW value
  PROVE  LET t == CommitStringDirectly(s, value)
         IN  /\ Document \subseteq DOMAIN t
             /\ t.undo = s.undo /\ t.committed = s.committed
<1>. DEFINE q == [s EXCEPT !.result = @ \o value]
            c == CancelConverter(q)
            e == EnterState(c, "PRECOMPOSITION")
<1>1. Document \subseteq DOMAIN q /\ q.undo = s.undo
      /\ q.committed = s.committed
  BY DEF Document
<1>. HIDE DEF q
<1>2. SameDocument(q, c)
  BY <1>1, DocumentKept
<1>. HIDE DEF c
<1>3. SameDocument(c, e)
  BY <1>2, DocumentKept DEF SameDocument
<1>. HIDE DEF e
<1>4. SameDocument(e, Output(e))
  BY <1>3, OutputKeepsDocument DEF SameDocument
<1>. QED
  BY <1>1, <1>2, <1>3, <1>4 DEF CommitStringDirectly, SameDocument, e, c, q

\* CommitInternal saves a context, or only redraws.
LEMMA InternallyCommitted ==
  ASSUME NEW s, Document \subseteq DOMAIN s
  PROVE  LET t == CommitInternal(s)
         IN  /\ Document \subseteq DOMAIN t
             /\ IF ShowsAReading(s) THEN Remembers(s, t)
                ELSE SameDocument(s, t)
<1>1. CASE ~ShowsAReading(s)
  BY <1>1, OutputKeepsDocument
  DEF CommitInternal, DoNothing, ShowsAReading, SameDocument
<1>2. CASE ShowsAReading(s)
  <2>. DEFINE p == PushUndo(s)
              q == [p EXCEPT !.result = @ \o Plain(s)]
              c == CancelConverter(q)
              e == EnterState(c, "PRECOMPOSITION")
              o == Output(e)
              r == RememberResult(o)
  <2>1. Saved(s, p.undo) /\ Document \subseteq DOMAIN p
    BY ContextIsSaved
  <2>. HIDE DEF p
  <2>2. Saved(s, q.undo) /\ Document \subseteq DOMAIN q
    BY <2>1 DEF Document
  <2>. HIDE DEF q
  <2>3. SameDocument(q, c)
    BY <2>2, DocumentKept
  <2>. HIDE DEF c
  <2>4. SameDocument(c, e)
    BY <2>3, DocumentKept DEF SameDocument
  <2>. HIDE DEF e
  <2>5. SameDocument(e, o)
    BY <2>4, OutputKeepsDocument DEF SameDocument
  <2>. HIDE DEF o
  <2>6. Saved(s, o.undo) /\ Document \subseteq DOMAIN o
    BY <2>2, <2>3, <2>4, <2>5 DEF SameDocument
  <2>7. Remembers(s, r) /\ Document \subseteq DOMAIN r
    BY <2>6, ResultIsRemembered
  <2>. HIDE DEF r
  <2>8. SameDocument(r, ClearLive(r))
    BY <2>7, ClearingKeepsDocument
  <2>9. CommitInternal(s) = ClearLive(r)
    BY <1>2 DEF CommitInternal, ShowsAReading, r, o, e, c, q, p
  <2>. QED
    BY <1>2, <2>7, <2>8, <2>9 DEF Remembers, SameDocument
<1>. QED
  BY <1>1, <1>2

\* A visible correction is committed without a context.
LEMMA CorrectionEscapes ==
  ASSUME NEW s, Document \subseteq DOMAIN s, NEW e,
         ~HasDeferred(s), HasVisibleZenz(s)
  PROVE  /\ Escapes(s, Commit(s, e))
         /\ Document \subseteq DOMAIN Commit(s, e)
<1>. DEFINE c == ClearLive(s)
            d == CommitStringDirectly(c, s.visible.value)
<1>1. SameDocument(s, c)
  BY ClearingKeepsDocument
<1>. HIDE DEF c
<1>2. /\ d.undo = s.undo /\ d.committed = s.committed
      /\ Document \subseteq DOMAIN d
  BY <1>1, DirectlyCommitted DEF SameDocument
<1>3. d.state = "PRECOMPOSITION"
  BY <1>1 DEF HasVisibleZenz, CommitStringDirectly, Output, EnterState,
     CancelConverter, SameDocument, Document
<1>4. Commit(s, e) = d
  BY DEF Commit, CommitZenz, d, c
<1>. QED
  BY <1>2, <1>3, <1>4 DEF Escapes

\* What Enter does to the document, whichever text it commits.
LEMMA CommitRemembers ==
  ASSUME NEW s, Document \subseteq DOMAIN s, ShowsAReading(s), NEW e
  PROVE  LET t == Commit(s, e)
         IN  /\ Document \subseteq DOMAIN t
             /\ Remembers(s, t) \/ SameDocument(s, t) \/ Escapes(s, t)
<1>1. ASSUME NEW u, SameDocument(s, u), NEW value
      PROVE  LET r == RememberResult(CommitStringDirectly(
                        ClearLive(PushUndo(u)), value))
             IN  Remembers(s, r) /\ Document \subseteq DOMAIN r
  <2>. DEFINE p == PushUndo(u)
              c == ClearLive(p)
              d == CommitStringDirectly(c, value)
  <2>1. Saved(u, p.undo) /\ Document \subseteq DOMAIN p
    BY <1>1, ContextIsSaved DEF SameDocument
  <2>2. Saved(s, p.undo)
    BY <1>1, <2>1 DEF Saved, SameDocument
  <2>. HIDE DEF p
  <2>3. SameDocument(p, c)
    BY <2>1, ClearingKeepsDocument
  <2>. HIDE DEF c
  <2>4. Document \subseteq DOMAIN d /\ d.undo = c.undo
    BY <2>3, DirectlyCommitted DEF SameDocument
  <2>. HIDE DEF d
  <2>5. Saved(s, d.undo)
    BY <2>2, <2>3, <2>4 DEF SameDocument
  <2>6. /\ Remembers(s, RememberResult(d))
        /\ Document \subseteq DOMAIN RememberResult(d)
    BY <2>4, <2>5, ResultIsRemembered
  <2>. QED
    BY <2>6 DEF d, c, p
<1>2. SameDocument(s, s)
  BY DEF SameDocument
<1>3. CASE HasDeferred(s)
  <2>. DEFINE t == RestoreDeferred(s)
              value == s.deferred.value
              q == [t EXCEPT
                     !.pending = TRUE, !.pendingGeneration = e.generation,
                     !.pendingKey = s.key,
                     !.presentation = Presentation(value,
                                        s.deferred.continued.stable)]
              r == RememberResult(CommitStringDirectly(
                     ClearLive(PushUndo(q)), value))
  <2>1. SameDocument(s, t)
    BY ClearingKeepsDocument
  <2>. HIDE DEF t
  <2>2. SameDocument(s, q)
    BY <2>1 DEF SameDocument, Document
  <2>. HIDE DEF q
  <2>3. Remembers(s, r) /\ Document \subseteq DOMAIN r
    BY <1>1, <2>2
  <2>4. /\ Document \subseteq DOMAIN CommitInternal(t)
        /\ Remembers(s, CommitInternal(t)) \/ SameDocument(s, CommitInternal(t))
    BY <2>1, InternallyCommitted
    DEF SameDocument, Remembers, Saved
  <2>5. Commit(s, e) = CommitDeferred(s, e)
    BY <1>3 DEF Commit
  <2>6. CommitDeferred(s, e) = CommitInternal(t) \/ CommitDeferred(s, e) = r
    BY DEF CommitDeferred, r, q, t
  <2>. HIDE DEF r
  <2>. QED
    BY <2>3, <2>4, <2>5, <2>6
<1>4. CASE ~HasDeferred(s) /\ HasVisibleZenz(s)
  BY <1>4, CorrectionEscapes
<1>5. CASE ~HasDeferred(s) /\ ~HasVisibleZenz(s)
  <2>1. Commit(s, e) = CommitPending(s) \/ Commit(s, e) = CommitInternal(s)
    BY <1>5 DEF Commit
  <2>. QED
    BY <1>1, <1>2, <2>1, InternallyCommitted DEF CommitPending
<1>. QED
  BY <1>3, <1>4, <1>5

\* Typing and editing forget the saved contexts.
Forgets(t) == Document \subseteq DOMAIN t /\ t.undo = <<>>

LEMMA TypingForgets ==
  ASSUME NEW s, Document \subseteq DOMAIN s
  PROVE  /\ Forgets(ClearUndo(s))
         /\ \A c : Forgets(InsertInto(s, c))
         /\ \A c, e : Forgets(InsertCharacter(s, c, e))
<1>1. \A t : Document \subseteq DOMAIN t => Forgets(ClearUndo(t))
  BY DEF ClearUndo, Forgets, Document
<1>2. \A t, u : Forgets(t) /\ SameDocument(t, u) => Forgets(u)
  BY DEF Forgets, SameDocument
<1>3. \A c : Forgets(InsertInto(s, c))
  <2>. TAKE c
  <2>. DEFINE t == CancelForEditing(s)
              u == IF Capture(s) # NoPresentation
                     THEN [t EXCEPT !.presentation = Capture(s)] ELSE t
              v == IF u.state = "CONVERSION" THEN CommitInternal(u) ELSE u
              x == ComposerInsert(v, c)
              w == ClearUndo(x)
              y == [w EXCEPT !.liveValue = <<>>]
  <2>1. Document \subseteq DOMAIN t
    BY ClearingKeepsDocument DEF SameDocument
  <2>. HIDE DEF t
  <2>2. Document \subseteq DOMAIN u
    BY <2>1
  <2>. HIDE DEF u
  <2>3. Document \subseteq DOMAIN v
    BY <2>2, InternallyCommitted
  <2>. HIDE DEF v
  <2>4. Document \subseteq DOMAIN x
    BY <2>3 DEF ComposerInsert
  <2>. HIDE DEF x
  <2>5. Forgets(w)
    BY <1>1, <2>4
  <2>. HIDE DEF w
  <2>6. Forgets(y)
    BY <2>5 DEF Forgets, Document
  <2>. HIDE DEF y
  <2>7. Forgets(ClearZenz(y))
    BY <1>2, <2>6, DocumentKept DEF Forgets
  <2>8. InsertInto(s, c) \in {w, ClearZenz(y)}
    BY DEF InsertInto, y, w, x, v, u, t
  <2>. QED
    BY <2>5, <2>7, <2>8
<1>4. \A c, e : Forgets(InsertCharacter(s, c, e))
  <2>. TAKE c, e
  <2>. DEFINE t == InsertInto(s, c)
              n == EnterState(t, "COMPOSITION")
  <2>1. Forgets(t)
    BY <1>3
  <2>. HIDE DEF t
  <2>2. Forgets(n)
    BY <1>2, <2>1, DocumentKept DEF Forgets
  <2>. HIDE DEF n
  <2>3. Forgets(ScheduleLiveConversion(n, e))
    BY <1>2, <2>2, SchedulingKeepsDocument DEF Forgets
  <2>. QED
    BY <2>3 DEF InsertCharacter, n, t
<1>. QED
  BY <1>1, <1>3, <1>4

LEMMA MarkForgets ==
  ASSUME NEW s, Document \subseteq DOMAIN s
  PROVE  Forgets(InsertPunctuation(s))
<1>. DEFINE mark == Raw(<<".">>)
            t == InsertInto(s, ".")
            x == ComposerInsert(s, ".")
            w == ClearUndo(x)
<1>1. Forgets(t)
  BY TypingForgets
<1>2. Document \subseteq DOMAIN x
  BY DEF ComposerInsert
<1>. HIDE DEF x, t
<1>3. Forgets(w)
  BY <1>2, TypingForgets
<1>. HIDE DEF w
<1>4. \A u, value : Forgets(u) => Forgets(CommitStringDirectly(u, value))
  BY DirectlyCommitted DEF Forgets
<1>5. \A u : Forgets(u) => Forgets(ClearLive(u))
  BY ClearingKeepsDocument DEF SameDocument, Forgets
<1>6. \A u : Forgets(u) => Forgets(CommitPendingDirectly(u))
  BY <1>4, <1>5 DEF CommitPendingDirectly
<1>7. InsertPunctuation(s) \in
        {CommitPendingDirectly(w), CommitPendingDirectly(t),
         CommitStringDirectly(ClearLive(t), s.visible.value \o mark),
         CommitStringDirectly(ClearLive(t), t.liveValue \o mark),
         CommitStringDirectly(t, Raw(t.key))}
  BY DEF InsertPunctuation, w, x, t
<1>. QED
  BY <1>1, <1>3, <1>4, <1>5, <1>6, <1>7

LEMMA EditingForgets ==
  ASSUME NEW s, Document \subseteq DOMAIN s
  PROVE  /\ \A e : Forgets(Backspace(s, e)) /\ Forgets(Delete(s, e))
         /\ \A cursor : Forgets(MoveCursor(s, cursor))
         /\ Forgets(Abandon(ClearUndo(s))) /\ Forgets(IMEOn(s))
<1>1. \A t : Document \subseteq DOMAIN t => Forgets(ClearUndo(t))
  BY TypingForgets
<1>2. \A t, u : Forgets(t) /\ SameDocument(t, u) => Forgets(u)
  BY DEF Forgets, SameDocument
<1>3. \A t : Forgets(t) =>
        /\ Forgets(Output(t)) /\ Forgets(CancelConverter(t))
        /\ Forgets(Abandon(t))
        /\ \A state : Forgets(EnterState(t, state))
        /\ \A e : Forgets(StartAfterEditing(t, e))
  BY <1>2, OutputKeepsDocument, DocumentKept, SchedulingKeepsDocument,
     ConvertingKeepsDocument
  DEF Forgets
<1>4. \A t, e : Forgets(t) => Forgets(AfterErasing(t, e))
  BY <1>3 DEF AfterErasing
<1>. DEFINE c == CancelForEditing(s)
<1>5. Document \subseteq DOMAIN c
  BY ClearingKeepsDocument DEF SameDocument
<1>. HIDE DEF c
<1>6. \A i : Document \subseteq DOMAIN ComposerErase(c, i)
  BY <1>5 DEF ComposerErase
<1>7. \A e : Forgets(Delete(s, e))
  BY <1>1, <1>4, <1>6 DEF Delete, c
<1>8. \A e : Forgets(Backspace(s, e))
  <2>. TAKE e
  <2>. DEFINE t == ComposerErase(c, s.cursor)
              u == [t EXCEPT !.cursor = IF @ = 0 THEN 0 ELSE @ - 1]
  <2>1. Document \subseteq DOMAIN t
    BY <1>6
  <2>. HIDE DEF t
  <2>2. Document \subseteq DOMAIN u
    BY <2>1
  <2>3. Backspace(s, e) = AfterErasing(ClearUndo(u), e)
    BY DEF Backspace, u, t, c
  <2>. HIDE DEF u
  <2>. QED
    BY <1>1, <1>4, <2>2, <2>3
<1>9. \A cursor : Forgets(MoveCursor(s, cursor))
  <2>. TAKE cursor
  <2>. DEFINE t == [s EXCEPT !.cursor = cursor]
  <2>1. Document \subseteq DOMAIN t
    OBVIOUS
  <2>. HIDE DEF t
  <2>2. Forgets(Output(ClearUndo(t)))
    BY <1>1, <1>3, <2>1
  <2>. QED
    BY <2>2 DEF MoveCursor, t
<1>10. Forgets(Abandon(ClearUndo(s))) /\ Forgets(IMEOn(s))
  BY <1>1, <1>3 DEF IMEOn
<1>. QED
  BY <1>7, <1>8, <1>9, <1>10

\* CommitSegment saves what was there and remembers the first segment.
LEMMA SegmentRemembers ==
  ASSUME NEW s, Document \subseteq DOMAIN s
  PROVE  Remembers(s, CommitSegment(s))
<1>. DEFINE first == Min(Ends(s.conversion))
            p == PushUndo(s)
            t == [p EXCEPT !.result = SubSeq(s.conversion, 1, first),
                           !.conversion = SubSeq(@, first + 1, Len(@))]
            rest == [t EXCEPT !.key = SubSeq(@, first + 1, Len(@)),
                              !.cursor = IF @ < first THEN 0 ELSE @ - first]
            u == IF t.conversion # <<>> THEN rest
                 ELSE EnterState(t, "PRECOMPOSITION")
            o == Output(u)
<1>1. Saved(s, p.undo) /\ Document \subseteq DOMAIN p
  BY ContextIsSaved
<1>. HIDE DEF p, first
<1>2. Saved(s, t.undo) /\ Document \subseteq DOMAIN t
  BY <1>1 DEF Document
<1>. HIDE DEF t
<1>3. SameDocument(t, EnterState(t, "PRECOMPOSITION"))
  BY <1>2, DocumentKept
<1>4. rest.undo = t.undo /\ Document \subseteq DOMAIN rest
  BY <1>2
<1>. HIDE DEF rest
<1>5. Saved(s, u.undo) /\ Document \subseteq DOMAIN u
  BY <1>2, <1>3, <1>4 DEF SameDocument
<1>. HIDE DEF u
<1>6. Saved(s, o.undo) /\ Document \subseteq DOMAIN o
  BY <1>5, OutputKeepsDocument DEF SameDocument
<1>. HIDE DEF o
<1>7. Remembers(s, RememberResult(o))
  BY <1>6, ResultIsRemembered
<1>. QED
  BY <1>7 DEF CommitSegment, o, u, rest, t, p, first

\* UndoOrRewind goes back to the context on top, or only redraws.
LEMMA UndoGoesBack ==
  ASSUME NEW s, Document \subseteq DOMAIN s, NEW e
  PROVE  LET t == Undo(s, e)
         IN  \/ SameDocument(s, t) /\ t.state = s.state
             \/ GoesBack(s, t)
<1>1. SameDocument(s, DoNothing(s)) /\ DoNothing(s).state = s.state
  BY OutputKeepsDocument DEF DoNothing, Output
<1>2. CASE s.undo # <<>>
  <2>. DEFINE entry == Last(s.undo)
              q == [s EXCEPT !.undo = Front(@), !.state = entry.state,
                             !.key = entry.key, !.cursor = entry.cursor,
                             !.conversion = entry.conversion,
                             !.committed = entry.committed]
              c == ClearLive(q)
              r == [c EXCEPT !.pending = TRUE,
                             !.pendingGeneration = e.generation,
                             !.pendingKey = entry.pendingKey,
                             !.liveValue = entry.liveValue,
                             !.presentation = entry.presentation]
              p == PopUndo(s, e)
  <2>1. GoesBack(s, q) /\ Document \subseteq DOMAIN q
    BY <1>2 DEF GoesBack, Document
  <2>. HIDE DEF q
  <2>2. \A t, u : GoesBack(s, t) /\ SameDocument(t, u) => GoesBack(s, u)
    BY DEF GoesBack, SameDocument
  <2>3. SameDocument(q, c)
    BY <2>1, ClearingKeepsDocument
  <2>. HIDE DEF c
  <2>4. SameDocument(c, r)
    BY <2>3 DEF SameDocument, Document
  <2>5. p \in {c, r}
    BY DEF PopUndo, p, r, c, q
  <2>. HIDE DEF r
  <2>6. GoesBack(s, p) /\ Document \subseteq DOMAIN p
    BY <2>1, <2>2, <2>3, <2>4, <2>5 DEF SameDocument
  <2>7. Undo(s, e) \in
          {DoNothing(s), Output(p), AttachDelayedCallback(OutputPending(p)),
           Output(CancelPending(p))}
    BY DEF Undo, p
  <2>. HIDE DEF p
  <2>8. /\ SameDocument(p, Output(p))
        /\ SameDocument(p, AttachDelayedCallback(OutputPending(p)))
    BY <2>6, OutputKeepsDocument, AskingKeepsDocument
  <2>9. SameDocument(p, Output(CancelPending(p)))
    <3>1. SameDocument(p, CancelPending(p))
      BY <2>6, ClearingKeepsDocument
    <3>. QED
      BY <3>1, OutputKeepsDocument, DocumentPassedOn DEF SameDocument
  <2>. QED
    BY <1>1, <2>2, <2>6, <2>7, <2>8, <2>9
<1>3. CASE s.undo = <<>>
  BY <1>1, <1>3 DEF Undo
<1>. QED
  BY <1>2, <1>3

\* Turning the IME off forgets the saved contexts first.
LEMMA TurningOffRemembers ==
  ASSUME NEW s, Ready(s), NEW e
  PROVE  LET t == IMEOff(s, e)
         IN  Forgets(t) \/ \E u : Forgets(u) /\ Remembers(u, t)
<1>. DEFINE q == IF HasDeferred(s) \/ HasVisibleZenz(s) THEN s
                 ELSE IF s.state = "CONVERSION" THEN Promote(s) ELSE s
            u == ClearUndo(q)
            c == Commit(u, e)
            n == EnterState(c, "DIRECT")
            t == CancelConverter(n)
<1>1. Document \subseteq DOMAIN s
  BY DEF Ready, Consistent, Composed, Sessions, Document
<1>2. /\ Document \subseteq DOMAIN q /\ q \in Sessions
      /\ q.deferred.on => ShowsAReading(q)
  <2>1. Ready(Promote(s)) /\ SameDocument(s, Promote(s))
    BY <1>1, PromotedText, ClearingKeepsDocument
  <2>. QED
    BY <1>1, <2>1 DEF Ready, Consistent, Composed, IsLive, ShowsAReading,
       SameDocument
<1>. HIDE DEF q
<1>3. Forgets(u) /\ (u.deferred.on => ShowsAReading(u))
  <2>1. u.deferred = q.deferred /\ u.state = q.state
    BY <1>2 DEF ClearUndo, Sessions
  <2>. QED
    BY <1>2, <2>1, TypingForgets DEF ShowsAReading
<1>. HIDE DEF u
<1>4. Document \subseteq DOMAIN c /\ (Forgets(c) \/ Remembers(u, c))
  <2>1. CASE ShowsAReading(u)
    BY <1>3, <2>1, CommitRemembers DEF Forgets, SameDocument, Escapes
  <2>2. CASE ~ShowsAReading(u)
    <3>1. c = CommitInternal(u)
      BY <1>3, <2>2
      DEF Commit, HasDeferred, HasVisibleZenz, ShowsAReading
    <3>. QED
      BY <1>3, <2>2, <3>1, InternallyCommitted DEF Forgets, SameDocument
  <2>. QED
    BY <2>1, <2>2
<1>. HIDE DEF c
<1>5. SameDocument(c, n)
  BY <1>4, DocumentKept
<1>. HIDE DEF n
<1>6. SameDocument(n, t)
  BY <1>5, DocumentKept DEF SameDocument
<1>7. IMEOff(s, e) = t
  BY DEF IMEOff, t, n, c, u, q
<1>. HIDE DEF t
<1>. QED
  BY <1>3, <1>4, <1>5, <1>6, <1>7 DEF Forgets, Remembers, SameDocument
-----------------------------------------------------------------------------
(***************************************************************************)
(* What is counted by the contexts of the undo stack.                       *)
(***************************************************************************)

\* A context was saved when the document held what the one below delivered.
Chained(u) == \A i \in 1..Len(u) - 1 : u[i + 1].committed = u[i].delivered

Counts(u, committed) == u # <<>> => committed = Last(u).delivered

\* Saving a context keeps the chain, also when the oldest one goes.
LEMMA SavingChains ==
  ASSUME NEW u \in Seq(Entries), Chained(u), NEW entry, entry.delivered = 0,
         Counts(u, entry.committed)
  PROVE  LET v == Bounded(Append(u, entry))
         IN  Chained(v) /\ Counts(v, 0)
<1>. DEFINE T == Entries \cup {entry}
            a == Append(u, entry)
            n == Len(u)
<1>1. u \in Seq(T) /\ entry \in T /\ n \in Nat
  OBVIOUS
<1>. HIDE DEF T
<1>2. /\ a \in Seq(T) /\ Len(a) = n + 1 /\ a[n + 1] = entry
      /\ \A i \in 1..n : a[i] = u[i]
  BY <1>1
<1>. HIDE DEF a
<1>3. Chained(a)
  <2>. SUFFICES ASSUME NEW i \in 1..n PROVE a[i + 1].committed = a[i].delivered
    BY <1>1, <1>2 DEF Chained
  <2>1. CASE i < n
    <3>1. i \in 1..Len(u) - 1 /\ i + 1 \in 1..n
      BY <1>1, <2>1
    <3>. QED
      BY <1>2, <3>1 DEF Chained
  <2>2. CASE i = n
    <3>1. u # <<>>
      BY <2>2
    <3>. QED
      BY <1>1, <1>2, <2>2, <3>1 DEF Counts, Last
  <2>. QED
    BY <1>1, <2>1, <2>2
<1>4. a # <<>>
  BY <1>1, <1>2
<1>5. Counts(a, 0)
  BY <1>2 DEF Counts, Last
<1>6. Chained(Tail(a)) /\ Counts(Tail(a), 0)
  <2>1. /\ Tail(a) \in Seq(T) /\ Len(Tail(a)) = n
        /\ \A i \in 1..n : Tail(a)[i] = a[i + 1]
    BY <1>1, <1>2, <1>4
  <2>2. Chained(Tail(a))
    <3>. SUFFICES ASSUME NEW i \in 1..n - 1
                  PROVE  Tail(a)[i + 1].committed = Tail(a)[i].delivered
      BY <2>1 DEF Chained
    <3>1. /\ i \in 1..n /\ i + 1 \in 1..n /\ i + 1 \in 1..Len(a) - 1
      BY <1>1, <1>2
    <3>2. a[(i + 1) + 1].committed = a[i + 1].delivered
      BY <1>3, <3>1 DEF Chained
    <3>. QED
      BY <2>1, <3>1, <3>2
  <2>3. Counts(Tail(a), 0)
    <3>1. ASSUME Tail(a) # <<>> PROVE n \in 1..n
      BY <1>1, <2>1, <3>1
    <3>. QED
      BY <1>2, <2>1, <3>1 DEF Counts, Last
  <2>. QED
    BY <2>2, <2>3
<1>. QED
  BY <1>3, <1>5, <1>6 DEF Bounded, a

\* All but the last of a stack.
LEMMA FrontKeeps ==
  ASSUME NEW S, NEW u \in Seq(S), u # <<>>
  PROVE  /\ Front(u) \in Seq(S) /\ Len(Front(u)) = Len(u) - 1
         /\ \A i \in 1..Len(u) - 1 : Front(u)[i] = u[i]
<1>. DEFINE n == Len(u)
            f == Front(u)
<1>1. f = SubSeq(u, 1, n - 1)
  BY DEF Front
<1>. HIDE DEF f, n
<1>2. /\ n \in Nat /\ n - 1 \in Int /\ (1 <= n - 1 \/ n - 1 = 0)
      /\ \A i \in 1..n : u[i] \in S
  <2>1. \A i \in 1..n : u[i] \in S
    BY DEF n
  <2>2. n \in Nat /\ n >= 1
    BY DEF n
  <2>. QED
    BY <2>1, <2>2
<1>3. \A i \in 1..n - 1 : i \in 1..n /\ 1 + i - 1 = i
  BY <1>2
<1>4. /\ f \in Seq(S)
      /\ Len(f) = IF 1 <= n - 1 THEN n - 1 - 1 + 1 ELSE 0
      /\ \A i \in 1..n - 1 - 1 + 1 : f[i] = u[1 + i - 1]
  BY <1>1, <1>2, <1>3, SubSeqProperties
<1>5. n - 1 - 1 + 1 = n - 1
  BY <1>2
<1>6. f \in Seq(S) /\ Len(f) = n - 1 /\ \A i \in 1..n - 1 : f[i] = u[i]
  BY <1>2, <1>3, <1>4, <1>5
<1>. QED
  BY <1>6 DEF f, n

\* Going back leaves what the context below counts.
LEMMA GoingBackChains ==
  ASSUME NEW u \in Seq(Entries), u # <<>>, Chained(u)
  PROVE  Chained(Front(u)) /\ Counts(Front(u), Last(u).committed)
<1>. DEFINE n == Len(u)
            f == Front(u)
<1>1. n \in Nat /\ n >= 1
  OBVIOUS
<1>2. /\ f \in Seq(Entries) /\ Len(f) = n - 1
      /\ \A i \in 1..n - 1 : f[i] = u[i]
  BY FrontKeeps
<1>. HIDE DEF f
<1>3. Chained(f)
  <2>. SUFFICES ASSUME NEW i \in 1..Len(f) - 1
                PROVE  f[i + 1].committed = f[i].delivered
    BY DEF Chained
  <2>1. i \in 1..n - 1 /\ i + 1 \in 1..n - 1
    BY <1>1, <1>2
  <2>2. u[i + 1].committed = u[i].delivered
    BY <2>1 DEF Chained
  <2>. QED
    BY <1>2, <2>1, <2>2
<1>4. Counts(f, Last(u).committed)
  <2>1. ASSUME f # <<>> PROVE n - 1 \in 1..n - 1
    BY <1>1, <1>2, <2>1
  <2>2. ASSUME f # <<>> PROVE u[n].committed = f[n - 1].delivered
    <3>1. u[(n - 1) + 1].committed = u[n - 1].delivered
      BY <2>1, <2>2 DEF Chained
    <3>. QED
      BY <1>1, <1>2, <2>1, <2>2, <3>1
  <2>. QED
    BY <1>2, <2>2 DEF Counts, Last
<1>. QED
  BY <1>3, <1>4 DEF f

\* What is delivered is counted by the context on top.
LEMMA DeliveringChains ==
  ASSUME NEW s, Spells(s), Chained(s.undo), NEW committed \in Nat,
         Counts(s.undo, committed)
  PROVE  LET t == Deliver(s)
         IN  /\ Chained(t.undo) /\ Counts(t.undo, committed + Len(s.result))
             /\ t.committed = s.committed /\ t.state = s.state
             /\ t.undo = <<>> <=> s.undo = <<>>
<1>1. CASE s.undo = <<>>
  BY <1>1 DEF Deliver, Counts
<1>2. CASE s.undo # <<>>
  <2>. DEFINE u == s.undo
              n == Len(u)
              entry == u[n]
              total == entry.delivered + Len(s.result)
              w == [entry EXCEPT !.delivered = total]
              v == [u EXCEPT ![n] = w]
              t == [s EXCEPT !.undo = v]
  <2>1. /\ s \in Sessions /\ u \in Seq(Entries) /\ Len(s.result) \in Nat
    BY DEF Spells, Consistent, Composed, Sessions, Stacks, Texts
  <2>2. n \in Nat /\ n \in 1..n /\ entry \in Entries
    BY <1>2, <2>1
  <2>3. Deliver(s) = t
    BY <1>2, <2>1, <2>2 DEF Deliver, Sessions
  <2>4. entry = Last(u)
    BY DEF Last
  <2>5. total = committed + Len(s.result)
    BY <1>2, <2>4 DEF Counts
  <2>. HIDE DEF total
  <2>6. /\ w.delivered = total /\ w.committed = entry.committed
    BY <2>2 DEF Entries
  <2>. HIDE DEF w
  <2>7. /\ Len(v) = n /\ v[n] = w
        /\ \A i \in 1..n : i # n => v[i] = u[i]
    <3>1. DOMAIN v = 1..n /\ v[n] = w /\ \A i \in 1..n : i # n => v[i] = u[i]
      BY <2>1, <2>2
    <3>. HIDE DEF v
    <3>2. Len(v) = n
      BY <2>2, <3>1, LenProperties
    <3>. QED
      BY <3>1, <3>2
  <2>. HIDE DEF v
  <2>8. Chained(v)
    <3>. SUFFICES ASSUME NEW i \in 1..n - 1
                  PROVE  v[i + 1].committed = v[i].delivered
      BY <2>7 DEF Chained
    <3>1. i \in 1..n /\ i # n /\ i + 1 \in 1..n
      BY <2>2
    <3>2. v[i] = u[i] /\ v[i + 1].committed = u[i + 1].committed
      BY <2>6, <2>7, <3>1
    <3>. QED
      BY <3>2 DEF Chained
  <2>9. v # <<>> /\ Counts(v, total)
    <3>1. Last(v) = w
      BY <2>7 DEF Last
    <3>2. v # <<>>
      BY <2>2, <2>7
    <3>. QED
      BY <2>6, <3>1, <3>2 DEF Counts
  <2>10. t.undo = v /\ t.committed = s.committed /\ t.state = s.state
    BY <2>1 DEF Sessions
  <2>. HIDE DEF t
  <2>. QED
    BY <1>2, <2>3, <2>5, <2>8, <2>9, <2>10
<1>. QED
  BY <1>1, <1>2
-----------------------------------------------------------------------------
(***************************************************************************)
(* What Enter commits, and what Undo shows of it.                           *)
(***************************************************************************)

\* A presentation that starts the reading is shown as Enter takes it to be.
LEMMA ShownAsCommitted ==
  ASSUME NEW reading \in Readings, NEW presentation \in Presentations,
         NEW liveValue \in Texts,
         CanPresent(reading, presentation, liveValue),
         IsPrefix(Reading(presentation.value), reading)
  PROVE  Present(reading, presentation, liveValue)
           = PendingCommitText(reading, presentation, liveValue)
<1>1. CASE presentation # NoPresentation
  BY <1>1 DEF Present, PendingCommitText, Basis
<1>2. CASE presentation = NoPresentation
  <2>1. /\ Basis(reading, presentation, liveValue).value = liveValue
        /\ IsPrefix(Reading(liveValue), reading)
    BY <1>2 DEF Basis, Presentation, CanPresent
  <2>2. CASE liveValue # <<>>
    BY <1>2, <2>1, <2>2 DEF Present, PendingCommitText
  <2>3. CASE liveValue = <<>>
    <3>1. PendingCommitText(reading, presentation, liveValue) = Raw(reading)
      BY <1>2, <2>3 DEF PendingCommitText
    <3>2. Present(reading, presentation, liveValue) = Extend(<<>>, reading)
      BY <2>1, <2>3 DEF Present
    <3>3. SubSeq(reading, Len(<<>>) + 1, Len(reading)) = reading
      BY SubSeqFull DEF Readings
    <3>4. Extend(<<>>, reading) = <<>> \o Raw(reading)
      BY <3>3 DEF Extend
    <3>5. Raw(reading) \in Texts
      BY RawSpells
    <3>. HIDE DEF Raw
    <3>6. <<>> \o Raw(reading) = Raw(reading)
      BY <3>5, ConcatEmptySeq DEF Texts
    <3>. QED
      BY <3>1, <3>2, <3>4, <3>6
  <2>. QED
    BY <2>2, <2>3
<1>. QED
  BY <1>1, <1>2

\* A text committed directly is the result.
LEMMA ResultOfDirect ==
  ASSUME NEW s, Document \subseteq DOMAIN s, s.result = <<>>,
         NEW value \in Texts
  PROVE  /\ CommitStringDirectly(s, value).result = value
         /\ CommitStringDirectly(ClearLive(s), value).result = value
<1>1. ASSUME NEW t, SameDocument(s, t)
      PROVE  CommitStringDirectly(t, value).result = value
  <2>1. CASE value = <<>>
    BY <1>1, <2>1 DEF CommitStringDirectly, SameDocument
  <2>2. CASE value # <<>>
    <3>. DEFINE q == [t EXCEPT !.result = @ \o value]
                c == CancelConverter(q)
                e == EnterState(c, "PRECOMPOSITION")
    <3>1. <<>> \o value = value
      BY ConcatEmptySeq DEF Texts
    <3>2. Document \subseteq DOMAIN q /\ q.result = value
      BY <1>1, <3>1 DEF SameDocument, Document
    <3>. HIDE DEF q
    <3>3. SameDocument(q, c)
      BY <3>2, DocumentKept
    <3>. HIDE DEF c
    <3>4. SameDocument(c, e)
      BY <3>3, DocumentKept DEF SameDocument
    <3>. HIDE DEF e
    <3>5. SameDocument(e, Output(e))
      BY <3>4, OutputKeepsDocument DEF SameDocument
    <3>6. CommitStringDirectly(t, value) = Output(e)
      BY <2>2 DEF CommitStringDirectly, e, c, q
    <3>. QED
      BY <3>2, <3>3, <3>4, <3>5, <3>6 DEF SameDocument
  <2>. QED
    BY <2>1, <2>2
<1>2. SameDocument(s, s) /\ SameDocument(s, ClearLive(s))
  BY ClearingKeepsDocument DEF SameDocument
<1>. QED
  BY <1>1, <1>2

\* Remembering does not change it.
LEMMA ResultKept ==
  ASSUME NEW s
  PROVE  RememberResult(s).result = s.result
BY DEF RememberResult

\* CommitInternal commits what Output() would show.
LEMMA ResultOfInternal ==
  ASSUME NEW s, Document \subseteq DOMAIN s, s.result = <<>>,
         Plain(s) \in Texts, ShowsAReading(s)
  PROVE  CommitInternal(s).result = Plain(s)
<1>. DEFINE p == PushUndo(s)
            q == [p EXCEPT !.result = @ \o Plain(s)]
            c == CancelConverter(q)
            e == EnterState(c, "PRECOMPOSITION")
            o == Output(e)
            r == RememberResult(o)
<1>1. p.result = <<>> /\ Document \subseteq DOMAIN p
  BY ContextIsSaved
<1>. HIDE DEF p
<1>2. <<>> \o Plain(s) = Plain(s)
  BY ConcatEmptySeq DEF Texts
<1>3. q.result = Plain(s) /\ Document \subseteq DOMAIN q
  BY <1>1, <1>2 DEF Document
<1>. HIDE DEF q
<1>4. SameDocument(q, c)
  BY <1>3, DocumentKept
<1>. HIDE DEF c
<1>5. SameDocument(c, e)
  BY <1>4, DocumentKept DEF SameDocument
<1>. HIDE DEF e
<1>6. SameDocument(e, o)
  BY <1>5, OutputKeepsDocument DEF SameDocument
<1>. HIDE DEF o
<1>7. Document \subseteq DOMAIN r /\ r.result = o.result
  BY <1>6 DEF RememberResult, SameDocument, Document
<1>. HIDE DEF r
<1>8. SameDocument(r, ClearLive(r))
  BY <1>7, ClearingKeepsDocument
<1>9. CommitInternal(s) = ClearLive(r)
  BY DEF CommitInternal, ShowsAReading, r, o, e, c, q, p
<1>. QED
  BY <1>3, <1>4, <1>5, <1>6, <1>7, <1>8, <1>9 DEF SameDocument

\* What Enter commits.
LEMMA EnterCommits ==
  ASSUME NEW s, Ready(s), ShowsAReading(s), s.result = <<>>, NEW e
  PROVE  LET text == Commit(s, e).result
         IN  /\ HasDeferred(s) => text = s.deferred.value
             /\ ~HasDeferred(s) /\ HasVisibleZenz(s) =>
                  text = s.visible.value
             /\ /\ ~HasDeferred(s) /\ ~HasVisibleZenz(s)
                /\ s.pending /\ s.state = "COMPOSITION"
                => text = PendingCommitText(s.key, s.presentation, s.liveValue)
             /\ /\ ~HasDeferred(s) /\ ~HasVisibleZenz(s)
                /\ ~(s.pending /\ s.state = "COMPOSITION")
                => text = Plain(s)
<1>1. /\ s \in Sessions /\ s.key # <<>> /\ s.key \in Readings
      /\ Document \subseteq DOMAIN s /\ s.visible.value \in Texts
      /\ s.deferred.value \in Texts
      /\ s.presentation \in Presentations /\ s.liveValue \in Texts
  BY DEF Ready, Consistent, Composed, Sessions, Document, Visibles, Deferreds
<1>2. CASE HasDeferred(s)
  <2>. DEFINE t == RestoreDeferred(s)
              value == s.deferred.value
              q == [t EXCEPT
                     !.pending = TRUE, !.pendingGeneration = e.generation,
                     !.pendingKey = s.key,
                     !.presentation = Presentation(value,
                                        s.deferred.continued.stable)]
              p == PushUndo(q)
  <2>1. SameDocument(s, t)
    BY <1>1, ClearingKeepsDocument
  <2>. HIDE DEF t
  <2>2. SameDocument(s, q)
    BY <2>1 DEF SameDocument, Document
  <2>. HIDE DEF q
  <2>3. p.result = <<>> /\ Document \subseteq DOMAIN p
    BY <2>2, ContextIsSaved DEF SameDocument
  <2>. HIDE DEF p
  <2>4. value # <<>>
    <3>1. Reading(value) = s.key
      BY <1>2 DEF Ready, Consistent, DeferredSpells, HasDeferred, IsLive
    <3>2. Reading(<<>>) = <<>>
      BY DEF Reading
    <3>. QED
      BY <1>1, <3>1, <3>2
  <2>5. CommitDeferred(s, e)
          = RememberResult(CommitStringDirectly(ClearLive(p), value))
    BY <2>4 DEF CommitDeferred, p, q, t
  <2>6. CommitStringDirectly(ClearLive(p), value).result = value
    BY <1>1, <2>3, ResultOfDirect
  <2>. QED
    BY <1>2, <2>5, <2>6, ResultKept DEF Commit
<1>3. CASE ~HasDeferred(s) /\ HasVisibleZenz(s)
  BY <1>1, <1>3, ResultOfDirect DEF Commit, CommitZenz
<1>4. CASE /\ ~HasDeferred(s) /\ ~HasVisibleZenz(s)
           /\ s.pending /\ s.state = "COMPOSITION"
  <2>. DEFINE value == PendingCommitText(s.key, s.presentation, s.liveValue)
              p == PushUndo(s)
  <2>1. p.result = <<>> /\ Document \subseteq DOMAIN p
    BY <1>1, ContextIsSaved
  <2>. HIDE DEF p
  <2>2. value \in Texts
    BY <1>1, PendingCommitTextSpells
  <2>3. CommitStringDirectly(ClearLive(p), value).result = value
    BY <2>1, <2>2, ResultOfDirect
  <2>4. Commit(s, e) = RememberResult(
                         CommitStringDirectly(ClearLive(p), value))
    BY <1>1, <1>4 DEF Commit, CommitPending, p
  <2>. QED
    BY <1>4, <2>3, <2>4, ResultKept
<1>5. CASE /\ ~HasDeferred(s) /\ ~HasVisibleZenz(s)
           /\ ~(s.pending /\ s.state = "COMPOSITION")
  <2>1. Plain(s) \in Texts
    BY <1>1, PlainSpells DEF Ready, Consistent, Composed
  <2>2. Commit(s, e) = CommitInternal(s)
    BY <1>5 DEF Commit
  <2>. QED
    BY <1>1, <1>5, <2>1, <2>2, ResultOfInternal
<1>. QED
  BY <1>2, <1>3, <1>4, <1>5

\* What Undo shows of a context, and when that is what was committed.
Redisplay(entry) ==
  IF /\ entry.pendingKey # <<>> /\ entry.pendingKey = entry.key
     /\ CanPresent(entry.key, entry.presentation, entry.liveValue)
    THEN Present(entry.key, entry.presentation, entry.liveValue)
    ELSE Plain(entry)

Restores(entry, text) ==
  \/ Redisplay(entry) = text
  \/ /\ entry.pendingKey = entry.key
     /\ ~IsPrefix(Reading(entry.presentation.value), entry.key)

\* A commit has a result, which Undo can put back on the screen.
Returns(s) ==
  s.undo # <<>> =>
    /\ s.result # <<>>
    /\ s.state = "PRECOMPOSITION" => Restores(Last(s.undo), s.result)

\* What PushUndoContext saves.
Copies(entry, s) ==
  LET pending == s.pending /\ s.state = "COMPOSITION"
  IN  /\ entry.state = s.state /\ entry.key = s.key
      /\ entry.conversion = s.conversion
      /\ entry.pendingKey = IF pending THEN s.pendingKey ELSE <<>>
      /\ pending => entry.presentation = s.presentation
      /\ pending => entry.liveValue = s.liveValue

\* The context saved last is on top, whether or not the oldest had to go.
LEMMA SavedOnTop ==
  ASSUME NEW S, NEW u \in Seq(S), NEW entry \in S, Bounded(Append(u, entry)) # <<>>
  PROVE  /\ Last(Bounded(Append(u, entry))) = entry
         /\ \A i \in DOMAIN Bounded(Append(u, entry)) :
              \/ i = Len(Bounded(Append(u, entry)))
              \/ \E j \in DOMAIN u : Bounded(Append(u, entry))[i] = u[j]
<1>. DEFINE a == Append(u, entry)
            n == Len(u)
<1>1. /\ a \in Seq(S) /\ Len(a) = n + 1 /\ a[n + 1] = entry /\ n \in Nat
      /\ \A i \in 1..n : a[i] = u[i]
      /\ DOMAIN u = 1..n
  OBVIOUS
<1>. HIDE DEF a
<1>2. CASE Len(a) > MaxUndo
  <2>. DEFINE t == Tail(a)
  <2>1. t \in Seq(S) /\ Len(t) = n /\ \A i \in 1..n : t[i] = a[i + 1]
    BY <1>1
  <2>2. Bounded(a) = t
    BY <1>2 DEF Bounded
  <2>3. t # <<>>
    BY <2>2 DEF a
  <2>. HIDE DEF t
  <2>4. n \in 1..n /\ DOMAIN t = 1..n
    BY <1>1, <2>1, <2>3
  <2>5. Last(t) = entry
    BY <1>1, <2>1, <2>4 DEF Last
  <2>6. ASSUME NEW i \in DOMAIN t, i # n
        PROVE  \E j \in DOMAIN u : t[i] = u[j]
    <3>1. i \in 1..n /\ i + 1 \in 1..n
      BY <1>1, <2>4, <2>6
    <3>. QED
      BY <1>1, <2>1, <3>1
  <2>. QED
    BY <2>1, <2>2, <2>5, <2>6 DEF a
<1>3. CASE ~(Len(a) > MaxUndo)
  <2>1. Bounded(a) = a
    BY <1>3 DEF Bounded
  <2>2. Last(a) = entry
    BY <1>1 DEF Last
  <2>3. ASSUME NEW i \in DOMAIN a, i # n + 1
        PROVE  \E j \in DOMAIN u : a[i] = u[j]
    <3>1. i \in 1..n
      BY <1>1, <2>3
    <3>. QED
      BY <1>1, <3>1
  <2>. QED
    BY <1>1, <2>1, <2>2, <2>3 DEF a
<1>. QED
  BY <1>2, <1>3

\* PushUndoContext saves a copy.
LEMMA ContextOnTop ==
  ASSUME NEW s, "undo" \in DOMAIN s, s.undo \in Seq(Entries),
         PushUndo(s).undo # <<>>
  PROVE  Copies(Last(PushUndo(s).undo), s)
<1>. DEFINE pending == s.pending /\ s.state = "COMPOSITION"
            entry == [state |-> s.state, key |-> s.key, cursor |-> s.cursor,
                      conversion |-> s.conversion,
                      committed |-> s.committed,
                      pendingKey |-> IF pending THEN s.pendingKey ELSE <<>>,
                      presentation |-> IF pending THEN s.presentation
                                       ELSE NoPresentation,
                      delivered |-> 0,
                      liveValue |-> IF pending THEN s.liveValue ELSE <<>>]
            u == Bounded(Append(s.undo, entry))
<1>1. Copies(entry, s)
  BY DEF Copies
<1>. HIDE DEF entry
<1>2. PushUndo(s).undo = u
  BY DEF PushUndo, Bounded, u, entry
<1>3. s.undo \in Seq(Entries \cup {entry}) /\ entry \in Entries \cup {entry}
  OBVIOUS
<1>4. Last(u) = entry
  BY <1>2, <1>3, SavedOnTop
<1>. QED
  BY <1>1, <1>2, <1>4

\* A whole text is presented as it is.
LEMMA WholePresented ==
  ASSUME NEW value \in Texts, value # <<>>, NEW stable, NEW liveValue
  PROVE  LET p == Presentation(value, stable)
             reading == Reading(value)
         IN  /\ CanPresent(reading, p, liveValue)
             /\ Present(reading, p, liveValue) = value
<1>. DEFINE p == Presentation(value, stable)
            reading == Reading(value)
<1>1. reading \in Readings /\ Len(reading) = Len(value) /\ Len(value) \in Nat
  BY ReadingIsAReading DEF Texts
<1>. HIDE DEF reading
<1>2. IsPrefix(reading, reading)
  BY <1>1 DEF IsPrefix, Readings
<1>3. p # NoPresentation /\ p.value = value
  BY DEF Presentation, NoPresentation
<1>. HIDE DEF p
<1>4. Basis(reading, p, liveValue) = p
  BY <1>2, <1>3 DEF Basis, reading
<1>5. CanPresent(reading, p, liveValue)
  BY <1>2, <1>3, <1>4 DEF CanPresent, reading
<1>6. SubSeq(reading, Len(value) + 1, Len(reading)) = <<>>
  BY <1>1, SubSeqEmpty
<1>7. Raw(<<>>) = <<>>
  <2>1. <<>> \in Readings /\ Len(<<>>) = 0
    BY DEF Readings
  <2>2. Raw(<<>>) \in Texts /\ Len(Raw(<<>>)) = 0
    BY <2>1, RawSpells
  <2>. QED
    BY <2>2 DEF Texts
<1>8. Extend(value, reading) = value \o <<>>
  BY <1>6, <1>7 DEF Extend
<1>9. value \o <<>> = value
  BY ConcatEmptySeq DEF Texts
<1>10. Present(reading, p, liveValue) = value
  BY <1>3, <1>4, <1>8, <1>9 DEF Present
<1>. QED
  BY <1>5, <1>10 DEF p, reading

\* Enter commits something, which spells the reading.
LEMMA EnterCommitsTheReading ==
  ASSUME NEW s, Ready(s), ShowsAReading(s), s.result = <<>>, NEW e
  PROVE  /\ ~HasVisibleZenz(s) \/ HasDeferred(s) =>
              Reading(Commit(s, e).result) = s.key
         /\ Commit(s, e).result # <<>>
<1>1. /\ s \in Sessions /\ s.key # <<>> /\ Consistent(s) /\ Emptied(s)
  BY DEF Ready, Consistent, Composed
<1>2. Reading(<<>>) = <<>>
  BY DEF Reading
<1>. DEFINE text == Commit(s, e).result
<1>3. CASE HasDeferred(s)
  <2>1. text = s.deferred.value
    BY <1>3, EnterCommits
  <2>2. Reading(s.deferred.value) = s.key
    BY <1>3 DEF Ready, Consistent, DeferredSpells, HasDeferred, IsLive
  <2>. HIDE DEF text
  <2>. QED
    BY <1>1, <1>2, <2>1, <2>2 DEF text
<1>4. CASE ~HasDeferred(s) /\ HasVisibleZenz(s)
  <2>1. text = s.visible.value
    BY <1>4, EnterCommits
  <2>. QED
    BY <1>4, <2>1 DEF HasVisibleZenz
<1>5. CASE /\ ~HasDeferred(s) /\ ~HasVisibleZenz(s)
           /\ s.pending /\ s.state = "COMPOSITION"
  <2>1. text = PendingCommitText(s.key, s.presentation, s.liveValue)
    BY <1>5, EnterCommits
  <2>2. Reading(text) = s.key
    BY <1>1, <2>1, PendingCommitTextSpells DEF Sessions
  <2>. HIDE DEF text
  <2>. QED
    BY <1>1, <1>2, <2>2 DEF text
<1>6. CASE /\ ~HasDeferred(s) /\ ~HasVisibleZenz(s)
           /\ ~(s.pending /\ s.state = "COMPOSITION")
  <2>1. text = Plain(s)
    BY <1>6, EnterCommits
  <2>2. Reading(Plain(s)) = s.key
    BY <1>1, PlainSpells DEF Spelling
  <2>. HIDE DEF text
  <2>. QED
    BY <1>1, <1>2, <2>1, <2>2 DEF text
<1>. QED
  BY <1>3, <1>4, <1>5, <1>6

\* What a commit saves.
LEMMA EnterSaves ==
  ASSUME NEW s, Document \subseteq DOMAIN s, ShowsAReading(s), NEW e
  PROVE  /\ \A q, value : SameDocument(s, q) =>
              RememberResult(CommitStringDirectly(
                ClearLive(PushUndo(q)), value)).undo = PushUndo(q).undo
         /\ CommitInternal(s).undo = PushUndo(s).undo
<1>1. ASSUME NEW q, SameDocument(s, q), NEW value
      PROVE  RememberResult(CommitStringDirectly(
               ClearLive(PushUndo(q)), value)).undo = PushUndo(q).undo
  <2>. DEFINE p == PushUndo(q)
              c == ClearLive(p)
              d == CommitStringDirectly(c, value)
  <2>1. Document \subseteq DOMAIN p
    BY <1>1, ContextIsSaved DEF SameDocument
  <2>. HIDE DEF p
  <2>2. SameDocument(p, c)
    BY <2>1, ClearingKeepsDocument
  <2>. HIDE DEF c
  <2>3. Document \subseteq DOMAIN d /\ d.undo = c.undo
    BY <2>2, DirectlyCommitted DEF SameDocument
  <2>. HIDE DEF d
  <2>4. RememberResult(d).undo = d.undo
    BY DEF RememberResult
  <2>. QED
    BY <2>2, <2>3, <2>4 DEF SameDocument, d, c, p
<1>2. CommitInternal(s).undo = PushUndo(s).undo
  <2>. DEFINE p == PushUndo(s)
              q == [p EXCEPT !.result = @ \o Plain(s)]
              c == CancelConverter(q)
              n == EnterState(c, "PRECOMPOSITION")
              o == Output(n)
              r == RememberResult(o)
  <2>1. Document \subseteq DOMAIN p
    BY ContextIsSaved
  <2>. HIDE DEF p
  <2>2. Document \subseteq DOMAIN q /\ q.undo = p.undo
    BY <2>1 DEF Document
  <2>. HIDE DEF q
  <2>3. SameDocument(q, c)
    BY <2>2, DocumentKept
  <2>. HIDE DEF c
  <2>4. SameDocument(c, n)
    BY <2>3, DocumentKept DEF SameDocument
  <2>. HIDE DEF n
  <2>5. SameDocument(n, o)
    BY <2>4, OutputKeepsDocument DEF SameDocument
  <2>. HIDE DEF o
  <2>6. Document \subseteq DOMAIN r /\ r.undo = o.undo
    BY <2>5 DEF RememberResult, SameDocument, Document
  <2>. HIDE DEF r
  <2>7. SameDocument(r, ClearLive(r))
    BY <2>6, ClearingKeepsDocument
  <2>8. CommitInternal(s) = ClearLive(r)
    BY DEF CommitInternal, ShowsAReading, r, o, n, c, q, p
  <2>. QED
    BY <2>2, <2>3, <2>4, <2>5, <2>6, <2>7, <2>8 DEF SameDocument, p
<1>. QED
  BY <1>1, <1>2

\* Undo can show what Enter commits, corrections without a context excepted.
LEMMA EnterReturns ==
  ASSUME NEW s, Ready(s), ShowsAReading(s), s.result = <<>>, NEW e,
         HasDeferred(s) \/ ~HasVisibleZenz(s),
         s.pending /\ s.state = "COMPOSITION" => s.pendingKey = s.key
  PROVE  Returns(Commit(s, e))
<1>. DEFINE t == Commit(s, e)
            top == Last(t.undo)
<1>1. /\ s \in Sessions /\ s.key # <<>> /\ s.key \in Readings
      /\ s.undo \in Seq(Entries) /\ Document \subseteq DOMAIN s
      /\ Consistent(s) /\ s.deferred.value \in Texts
      /\ s.presentation \in Presentations /\ s.liveValue \in Texts
  BY DEF Ready, Consistent, Composed, Sessions, Stacks, Document, Deferreds
<1>2. t.result # <<>>
  BY EnterCommitsTheReading
<1>3. CASE HasDeferred(s)
  <2>. DEFINE r == RestoreDeferred(s)
              value == s.deferred.value
              p == Presentation(value, s.deferred.continued.stable)
              q == [r EXCEPT !.pending = TRUE,
                             !.pendingGeneration = e.generation,
                             !.pendingKey = s.key, !.presentation = p]
  <2>1. /\ r \in Sessions /\ r.key = s.key /\ r.state = "COMPOSITION"
        /\ SameDocument(s, r)
    BY <1>1, <1>3, DeferredTextRestored, ClearingKeepsDocument
    DEF SameWords, HasDeferred, Ready, Consistent, Composed
  <2>. HIDE DEF r
  <2>2. /\ SameDocument(s, q) /\ q.key = s.key /\ q.state = "COMPOSITION"
        /\ q.pending /\ q.pendingKey = s.key /\ q.presentation = p
        /\ q.undo = s.undo /\ "undo" \in DOMAIN q
    BY <2>1 DEF SameDocument, Document, Sessions
  <2>3. Reading(value) = s.key /\ value # <<>>
    <3>1. Reading(value) = s.key
      BY <1>3 DEF Ready, Consistent, DeferredSpells, HasDeferred, IsLive
    <3>2. Reading(<<>>) = <<>>
      BY DEF Reading
    <3>. HIDE DEF value
    <3>. QED
      BY <1>1, <3>1, <3>2
  <2>4. t = RememberResult(CommitStringDirectly(
              ClearLive(PushUndo(q)), value))
    BY <1>3, <2>3 DEF Commit, CommitDeferred, q, p, r
  <2>5. t.undo = PushUndo(q).undo
    <3>. HIDE DEF q, t
    <3>. QED
      BY <1>1, <2>2, <2>4, EnterSaves
  <2>6. t.result = value
    BY <1>3, EnterCommits
  <2>. HIDE DEF q, t
  <2>7. ASSUME t.undo # <<>> PROVE Restores(top, t.result)
    <3>1. Copies(top, q)
      BY <1>1, <2>2, <2>5, <2>7, ContextOnTop
    <3>. HIDE DEF top
    <3>2. /\ top.key = s.key /\ top.pendingKey = s.key
          /\ top.presentation = p
      BY <2>2, <3>1 DEF Copies
    <3>3. /\ CanPresent(s.key, p, top.liveValue)
          /\ Present(s.key, p, top.liveValue) = value
      BY <1>1, <2>3, WholePresented
    <3>. HIDE DEF p, value
    <3>. QED
      BY <1>1, <2>6, <3>2, <3>3 DEF Restores, Redisplay
  <2>. QED
    BY <1>2, <2>7 DEF Returns, t
<1>4. CASE /\ ~HasDeferred(s) /\ ~HasVisibleZenz(s)
           /\ s.pending /\ s.state = "COMPOSITION"
  <2>. DEFINE value == PendingCommitText(s.key, s.presentation, s.liveValue)
  <2>1. t = RememberResult(CommitStringDirectly(
              ClearLive(PushUndo(s)), value))
    BY <1>1, <1>4 DEF Commit, CommitPending
  <2>2. t.undo = PushUndo(s).undo
    <3>1. SameDocument(s, s)
      BY <1>1 DEF SameDocument
    <3>. HIDE DEF t, value
    <3>. QED
      BY <1>1, <2>1, <3>1, EnterSaves
  <2>3. t.result = value
    BY <1>4, EnterCommits
  <2>. HIDE DEF t
  <2>4. ASSUME t.undo # <<>> PROVE Restores(top, t.result)
    <3>1. "undo" \in DOMAIN s
      BY <1>1 DEF Document
    <3>2. Copies(top, s)
      BY <1>1, <2>2, <2>4, <3>1, ContextOnTop
    <3>. HIDE DEF top
    <3>3. /\ top.key = s.key /\ top.pendingKey = s.key
          /\ top.presentation = s.presentation
          /\ top.liveValue = s.liveValue
      BY <1>4, <3>2 DEF Copies
    <3>4. CanPresent(s.key, s.presentation, s.liveValue)
      BY <1>1, <1>4 DEF Consistent, PendingSpells, CanOutputPending
    <3>5. CASE IsPrefix(Reading(s.presentation.value), s.key)
      <4>1. Present(s.key, s.presentation, s.liveValue) = value
        BY <1>1, <3>4, <3>5, ShownAsCommitted
      <4>. HIDE DEF value
      <4>. QED
        BY <1>1, <2>3, <3>3, <3>4, <4>1 DEF Restores, Redisplay
    <3>6. CASE ~IsPrefix(Reading(s.presentation.value), s.key)
      BY <3>3, <3>6 DEF Restores
    <3>. QED
      BY <3>5, <3>6
  <2>. QED
    BY <1>2, <2>4 DEF Returns, t
<1>5. CASE /\ ~HasDeferred(s) /\ ~HasVisibleZenz(s)
           /\ ~(s.pending /\ s.state = "COMPOSITION")
  <2>1. t = CommitInternal(s)
    BY <1>5 DEF Commit
  <2>2. t.undo = PushUndo(s).undo
    BY <1>1, <2>1, EnterSaves
  <2>3. t.result = Plain(s)
    BY <1>5, EnterCommits
  <2>. HIDE DEF t
  <2>4. ASSUME t.undo # <<>> PROVE Restores(top, t.result)
    <3>1. "undo" \in DOMAIN s
      BY <1>1 DEF Document
    <3>2. Copies(top, s)
      BY <1>1, <2>2, <2>4, <3>1, ContextOnTop
    <3>. HIDE DEF top
    <3>3. /\ top.key = s.key /\ top.pendingKey = <<>>
          /\ top.state = s.state /\ top.conversion = s.conversion
      BY <1>5, <3>2 DEF Copies
    <3>4. Plain(top) = Plain(s)
      BY <3>3 DEF Plain
    <3>. QED
      BY <2>3, <3>3, <3>4 DEF Restores, Redisplay
  <2>. QED
    BY <1>2, <2>4 DEF Returns, t
<1>. QED
  BY <1>3, <1>4, <1>5

\* CommitSegment commits the first segment, and all of the conversion when it
\* leaves it.
LEMMA SegmentReturns ==
  ASSUME NEW s, Ready(s), s.state = "CONVERSION"
  PROVE  Returns(CommitSegment(s))
<1>. DEFINE first == Min(Ends(s.conversion))
            length == Len(s.conversion)
            head == SubSeq(s.conversion, 1, first)
            tail == SubSeq(s.conversion, first + 1, length)
            p == PushUndo(s)
            t == [p EXCEPT !.result = head, !.conversion = tail]
            rest == [t EXCEPT
                      !.key = SubSeq(@, first + 1, length),
                      !.cursor = IF @ < first THEN 0 ELSE @ - first]
            u == IF t.conversion # <<>> THEN rest
                 ELSE EnterState(t, "PRECOMPOSITION")
            o == Output(u)
            r == RememberResult(o)
<1>1. /\ s.conversion \in Texts /\ length = Len(s.key) /\ length \in Nat
      /\ first \in 1..length
      /\ s.undo \in Seq(Entries) /\ Document \subseteq DOMAIN s
      /\ s \in Sessions
  <2>1. Consistent(s)
    BY DEF Ready
  <2>2. /\ s \in Sessions /\ s.undo \in Seq(Entries) /\ length \in Nat
        /\ Document \subseteq DOMAIN s
    BY <2>1 DEF Consistent, Composed, Sessions, Stacks, Texts, Document
  <2>. QED
    BY <2>1, <2>2, FirstOfConversion
<1>2. Composed(p) /\ SameTexts(s, p) /\ p \in Sessions
  BY ContextSaved DEF Ready, Consistent, Composed, ShowsAReading
<1>3. p.conversion = s.conversion /\ p.state = "CONVERSION"
  BY <1>2 DEF SameTexts
<1>4. p.key = s.key
  BY <1>2 DEF SameTexts
<1>5. CommitSegment(s) = r
  BY <1>1, <1>3, <1>4 DEF CommitSegment, first, length
<1>. HIDE DEF first
<1>6. /\ head \in Texts /\ Len(head) = first
      /\ tail \in Texts /\ Len(tail) = length - first
  <2>1. /\ \A i \in 1..first : s.conversion[i] \in Characters \X Styles
        /\ \A i \in first + 1..length :
             s.conversion[i] \in Characters \X Styles
    BY <1>1 DEF Texts
  <2>2. 1 \in Int /\ first \in Int /\ length \in Int /\ first + 1 \in Int
    BY <1>1
  <2>. HIDE DEF length
  <2>3. head \in Texts /\ Len(head) = first
    <3>1. /\ head \in Seq(Characters \X Styles)
          /\ Len(head) = IF 1 <= first THEN first - 1 + 1 ELSE 0
      BY <2>1, <2>2, SubSeqProperties
    <3>. QED
      BY <1>1, <3>1 DEF Texts
  <2>4. tail \in Texts /\ Len(tail) = length - first
    <3>1. /\ tail \in Seq(Characters \X Styles)
          /\ Len(tail) = IF first + 1 <= length
                         THEN length - (first + 1) + 1 ELSE 0
      BY <2>1, <2>2, SubSeqProperties
    <3>2. Len(tail) = length - first
      <4>. HIDE DEF tail
      <4>. QED
        BY <1>1, <3>1
    <3>. QED
      BY <3>1, <3>2 DEF Texts
  <2>. QED
    BY <2>3, <2>4
<1>7. head # <<>> /\ (tail = <<>> => first = length)
  <2>. HIDE DEF head, tail, length
  <2>. QED
    BY <1>1, <1>6
<1>8. first = length => head = s.conversion
  <2>1. SubSeq(s.conversion, 1, Len(s.conversion)) = s.conversion
    BY <1>1, SubSeqFull DEF Texts
  <2>. QED
    BY <2>1
<1>. HIDE DEF length, head, tail, p
<1>9. /\ Document \subseteq DOMAIN t /\ t.undo = p.undo /\ t.result = head
      /\ t.conversion = tail /\ t.state = "CONVERSION"
  BY <1>2, <1>3 DEF Sessions, Document
<1>. HIDE DEF t
<1>10. /\ Document \subseteq DOMAIN u /\ u.undo = p.undo /\ u.result = head
       /\ u.state = "PRECOMPOSITION" => tail = <<>>
  <2>1. CASE t.conversion # <<>>
    BY <1>9, <2>1 DEF Document
  <2>2. CASE t.conversion = <<>>
    BY <1>9, <2>2, DocumentKept DEF SameDocument
  <2>. QED
    BY <2>1, <2>2
<1>. HIDE DEF u
<1>11. /\ Document \subseteq DOMAIN o /\ o.undo = p.undo /\ o.result = head
       /\ o.state = u.state
  BY <1>10, OutputKeepsDocument DEF SameDocument, Output, Document
<1>. HIDE DEF o
<1>12. r.undo = p.undo /\ r.result = head /\ r.state = o.state
  BY <1>11 DEF RememberResult, Document
<1>. HIDE DEF r
<1>13. ASSUME r.undo # <<>>, r.state = "PRECOMPOSITION"
       PROVE  Restores(Last(r.undo), r.result)
  <2>. DEFINE top == Last(r.undo)
  <2>1. "undo" \in DOMAIN s
    BY <1>1 DEF Document
  <2>2. Copies(top, s)
    BY <1>1, <1>12, <1>13, <2>1, ContextOnTop DEF p
  <2>. HIDE DEF top
  <2>3. /\ top.pendingKey = <<>> /\ top.state = "CONVERSION"
        /\ top.conversion = s.conversion
    BY <2>2 DEF Copies
  <2>4. Redisplay(top) = s.conversion
    BY <2>3 DEF Redisplay, Plain
  <2>5. r.result = s.conversion
    BY <1>7, <1>8, <1>10, <1>11, <1>12, <1>13
  <2>. QED
    BY <2>4, <2>5 DEF Restores, top
<1>. QED
  BY <1>5, <1>7, <1>12, <1>13 DEF Returns

\* What Undo shows.
LEMMA UndoRedisplays ==
  ASSUME NEW s \in Sessions, s.undo # <<>>, s.state # "DIRECT",
         DeletePreceding, NEW e
  PROVE  LET t == Undo(s, e)
             entry == Last(s.undo)
         IN  /\ t.preedit = Redisplay(entry)
             /\ t.key = entry.key
             /\ entry.pendingKey = entry.key =>
                  t.presentation = entry.presentation
<1>. DEFINE entry == Last(s.undo)
            q == [s EXCEPT !.undo = Front(@), !.state = entry.state,
                           !.key = entry.key, !.cursor = entry.cursor,
                           !.conversion = entry.conversion,
                           !.committed = entry.committed]
            l == ClearLive(q)
            r == [l EXCEPT !.pending = TRUE,
                           !.pendingGeneration = e.generation,
                           !.pendingKey = entry.pendingKey,
                           !.liveValue = entry.liveValue,
                           !.presentation = entry.presentation]
            p == PopUndo(s, e)
            Spelt(t) == /\ DOMAIN t = DOMAIN s
                        /\ t.state = entry.state /\ t.key = entry.key
                        /\ t.conversion = entry.conversion
<1>1. entry \in Entries /\ entry.key # <<>>
  <2>1. s.undo \in Seq(Entries)
    BY DEF Sessions, Stacks
  <2>2. entry \in Entries
    BY <2>1 DEF Last
  <2>. QED
    BY <2>2 DEF Entries
<1>. HIDE DEF entry
<1>2. Spelt(q)
  BY DEF Sessions
<1>. HIDE DEF q
<1>3. Spelt(l) /\ ~l.pending
  <2>. DEFINE d == DropPending(q)
              m == [d EXCEPT !.active = FALSE, !.fromComposition = FALSE,
                             !.liveValue = <<>>,
                             !.presentation = NoPresentation]
              z == CancelPendingZenz(m)
              v == [z EXCEPT !.visible = NoVisible]
  <2>1. Spelt(d) /\ ~d.pending
    BY <1>2 DEF DropPending, Sessions
  <2>. HIDE DEF d
  <2>2. Spelt(m) /\ ~m.pending
    BY <2>1 DEF Sessions
  <2>. HIDE DEF m
  <2>3. Spelt(z) /\ ~z.pending
    BY <2>2 DEF CancelPendingZenz, Sessions
  <2>. HIDE DEF z
  <2>4. Spelt(v) /\ ~v.pending
    BY <2>3 DEF Sessions
  <2>5. l = v
    BY DEF ClearLive, ClearZenz, v, z, m, d
  <2>. QED
    BY <2>4, <2>5
<1>. HIDE DEF l
<1>4. /\ Spelt(r) /\ r.pending /\ r.liveValue = entry.liveValue
      /\ r.presentation = entry.presentation
  BY <1>3 DEF Sessions
<1>. HIDE DEF r
<1>5. p = IF entry.pendingKey = <<>> \/ entry.pendingKey # entry.key
          THEN l ELSE r
  BY DEF PopUndo, p, r, l, q, entry
<1>6. Undo(s, e) = IF ~p.pending THEN Output(p)
                   ELSE IF CanOutputPending(p)
                     THEN AttachDelayedCallback(OutputPending(p))
                   ELSE Output(CancelPending(p))
  BY DEF Undo, p
<1>. HIDE DEF p
<1>7. \A t : Spelt(t) => /\ Output(t).preedit = Plain(entry)
                         /\ Output(t).key = entry.key
  BY DEF Output, Plain, Sessions
<1>8. CASE entry.pendingKey = <<>> \/ entry.pendingKey # entry.key
  BY <1>1, <1>3, <1>5, <1>6, <1>7, <1>8 DEF Redisplay, entry
<1>9. CASE entry.pendingKey # <<>> /\ entry.pendingKey = entry.key
  <2>1. p = r
    BY <1>5, <1>9
  <2>2. CanOutputPending(p)
          <=> CanPresent(entry.key, entry.presentation, entry.liveValue)
    BY <1>4, <2>1 DEF CanOutputPending
  <2>3. CASE CanOutputPending(p)
    <3>. DEFINE o == OutputPending(p)
                a == AttachDelayedCallback(o)
    <3>1. /\ DOMAIN o = DOMAIN s /\ o.key = entry.key
          /\ o.presentation = entry.presentation
          /\ o.preedit =
               Present(entry.key, entry.presentation, entry.liveValue)
      BY <1>4, <2>1 DEF OutputPending, Sessions
    <3>. HIDE DEF o
    <3>2. /\ a.key = o.key /\ a.presentation = o.presentation
          /\ a.preedit = o.preedit
      BY <3>1 DEF AttachDelayedCallback, Sessions
    <3>3. Undo(s, e) = a
      BY <1>4, <1>6, <2>1, <2>3 DEF a, o
    <3>. HIDE DEF a
    <3>. QED
      BY <1>9, <2>2, <2>3, <3>1, <3>2, <3>3 DEF Redisplay, entry
  <2>4. CASE ~CanOutputPending(p)
    <3>. DEFINE c == CancelPending(p)
    <3>1. Spelt(c) /\ c.presentation = entry.presentation
      BY <1>4, <2>1 DEF CancelPending, CancelPendingZenz, DropPending, Sessions
    <3>. HIDE DEF c
    <3>2. Output(c).presentation = c.presentation
      BY <3>1 DEF Output, Sessions
    <3>3. Undo(s, e) = Output(c)
      BY <1>4, <1>6, <2>1, <2>4 DEF c
    <3>4. Redisplay(entry) = Plain(entry)
      BY <2>2, <2>4 DEF Redisplay
    <3>5. Output(c).preedit = Plain(entry) /\ Output(c).key = entry.key
      BY <1>7, <3>1
    <3>. QED
      BY <3>1, <3>2, <3>3, <3>4, <3>5 DEF entry
  <2>. QED
    BY <2>3, <2>4
<1>. QED
  BY <1>8, <1>9

\* Turning the IME off commits something wherever it saves a context.
LEMMA TurningOffReturns ==
  ASSUME NEW s, Ready(s), s.result = <<>>, NEW e
  PROVE  Returns(IMEOff(s, e))
<1>. DEFINE q == IF HasDeferred(s) \/ HasVisibleZenz(s) THEN s
                 ELSE IF s.state = "CONVERSION" THEN Promote(s) ELSE s
            u == ClearUndo(q)
            c == Commit(u, e)
            n == EnterState(c, "DIRECT")
            t == CancelConverter(n)
<1>1. Document \subseteq DOMAIN s
  BY DEF Ready, Consistent, Composed, Sessions, Document
<1>2. Ready(q) /\ q.result = <<>> /\ Document \subseteq DOMAIN q
  <2>1. Ready(Promote(s)) /\ SameDocument(s, Promote(s))
    BY <1>1, PromotedText, ClearingKeepsDocument
  <2>. QED
    BY <1>1, <2>1 DEF SameDocument
<1>. HIDE DEF q
<1>3. /\ Ready(u) /\ u.result = <<>> /\ u.undo = <<>>
      /\ Document \subseteq DOMAIN u
  <2>1. q \in Sessions /\ Consistent(q)
    BY <1>2 DEF Ready, Consistent, Composed
  <2>2. Consistent(u) /\ SameTexts(q, u)
    BY <2>1, UndoForgotten
  <2>3. u.result = <<>> /\ u.undo = <<>> /\ Document \subseteq DOMAIN u
    BY <1>2 DEF ClearUndo, Document
  <2>. HIDE DEF u
  <2>. QED
    BY <1>2, <2>2, <2>3
    DEF Ready, Emptied, SameTexts, ShowsAReading, IsLive
<1>. HIDE DEF u
<1>4. Document \subseteq DOMAIN c /\ (c.undo # <<>> => c.result # <<>>)
  <2>1. CASE ShowsAReading(u)
    BY <1>3, <2>1, CommitRemembers, EnterCommitsTheReading
  <2>2. CASE ~ShowsAReading(u)
    <3>1. c = CommitInternal(u)
      BY <1>3, <2>2
      DEF Commit, HasDeferred, HasVisibleZenz, ShowsAReading, Ready, IsLive
    <3>. QED
      BY <1>3, <2>2, <3>1, InternallyCommitted DEF SameDocument
  <2>. QED
    BY <2>1, <2>2
<1>. HIDE DEF c
<1>5. SameDocument(c, n) /\ n.state = "DIRECT"
  BY <1>4, DocumentKept DEF EnterState, Document
<1>. HIDE DEF n
<1>6. SameDocument(n, t) /\ t.state = "DIRECT"
  BY <1>5, DocumentKept DEF SameDocument, CancelConverter, Document
<1>7. IMEOff(s, e) = t
  BY DEF IMEOff, t, n, c, u, q
<1>. HIDE DEF t
<1>. QED
  BY <1>4, <1>5, <1>6, <1>7 DEF Returns, SameDocument
-----------------------------------------------------------------------------
(***************************************************************************)
(* What every key and callback leaves.                                      *)
(***************************************************************************)

\* What a handler may do to the document.
Accounts(s, t) ==
  \/ Forgets(t)
  \/ SameDocument(s, t) /\ (s.state = "PRECOMPOSITION" => t.state = s.state)
  \/ Remembers(s, t) /\ Returns(t) /\ s.state # "PRECOMPOSITION"
  \/ Returns(t) /\ \E u : Forgets(u) /\ Remembers(u, t)
  \/ GoesBack(s, t)
  \/ Escapes(s, t)

\* Whatever the key, its handler leaves a screen that spells the reading, and
\* accounts for what it puts into the document.
LEMMA UserResponds ==
  ASSUME Inv, Rests, UserActs
  PROVE  \E s : Handle(s) /\ Spells(s) /\ Accounts(Before, s)
<1>. DEFINE b == Before
            Done == \E s : Handle(s) /\ Spells(s) /\ Accounts(b, s)
<1>1. /\ Ready(b) /\ SameTexts(session, b) /\ b.visible = session.visible
      /\ b.preedit = <<>>
  BY BeginsReady
<1>2. Held(timers) /\ session \in Sessions
  BY DEF Rests, Spells, Consistent, Composed
<1>3. /\ \A e \in Conversions : e.generation \in Generations
      /\ NoOutcome.generation \in Generations
  BY <1>2, GenerationLeft, OutcomesFresh
<1>4. /\ Consistent(b) /\ b \in Sessions
      /\ b.state = session.state /\ b.active = session.active
      /\ Len(b.key) \in Nat /\ b.key = session.key
      /\ Document \subseteq DOMAIN b /\ b.result = <<>>
      /\ b.pending /\ b.state = "COMPOSITION" => b.pendingKey = b.key
  <2>1. b.result = <<>> /\ b.pendingKey = session.pendingKey
    BY <1>2 DEF Before, NewOutput, Sessions
  <2>2. session.pending /\ session.state = "COMPOSITION" =>
          session.pendingKey = session.key
    BY DEF Inv, Handled
  <2>. HIDE DEF b
  <2>. QED
    BY <1>1, <2>1, <2>2 DEF Ready, Consistent, Composed, Sessions, SameTexts,
       Readings, Document
<1>5. /\ HasVisibleZenz(session) => HasVisibleZenz(b)
      /\ HasDeferred(session) => HasDeferred(b)
  BY <1>1 DEF HasVisibleZenz, HasDeferred, SameTexts
<1>. HIDE DEF b
<1>6. /\ Composing => b.state = "COMPOSITION"
      /\ Converting => b.state = "CONVERSION"
  BY <1>4 DEF Composing, Converting
<1>7. \A s : /\ Handle(s) /\ Spells(s)
             /\ SameDocument(b, s) /\ (Composing \/ Converting)
             => Done
  BY <1>6 DEF Accounts
<1>8. \A s : Handle(s) /\ Spells(s) /\ Forgets(s) => Done
  BY DEF Accounts
<1>9. ASSUME TypeCharacter PROVE Done
  <2>1. Alphabet \subseteq Characters
    BY AlphabetAssumption DEF Characters
  <2>2. PICK c \in Alphabet, e \in Conversions :
          Handle(InsertCharacter(b, c, e))
    BY <1>9 DEF TypeCharacter, b
  <2>. QED
    BY <1>1, <1>3, <1>4, <1>8, <2>1, <2>2, TypingSpells, TypingForgets
<1>10. ASSUME TypePunctuation PROVE Done
  BY <1>1, <1>4, <1>8, <1>10, MarkSpells, MarkForgets
  DEF TypePunctuation, Ready, b
<1>11. ASSUME Converting, Handle(ConvertCancel(b)) PROVE Done
  <2>1. SameDocument(b, ConvertCancel(b))
    BY <1>4, ConvertingKeepsDocument
  <2>2. Spells(ConvertCancel(b))
    BY <1>1, <1>6, <1>11, ReturningSpells
  <2>. QED
    BY <1>7, <1>11, <2>1, <2>2
<1>12. ASSUME BackspaceKey PROVE Done
  <2>1. CASE Converting /\ Handle(ConvertCancel(b))
    BY <1>11, <2>1
  <2>2. ASSUME NEW e \in Conversions, Handle(Backspace(b, e)),
               \/ Composing
               \/ Converting /\ session.active
        PROVE  Done
    <3>1. Spells(Backspace(b, e))
      BY <1>1, <1>3, <1>4, <1>6, <2>2, ErasingSpells
    <3>2. Forgets(Backspace(b, e))
      BY <1>4, EditingForgets
    <3>. QED
      BY <1>8, <2>2, <3>1, <3>2
  <2>. QED
    BY <1>12, <2>1, <2>2 DEF BackspaceKey, b
<1>13. ASSUME DeleteKey PROVE Done
  <2>1. PICK e \in Conversions : Composing /\ Handle(Delete(b, e))
    BY <1>13 DEF DeleteKey, b
  <2>2. Spells(Delete(b, e)) /\ Forgets(Delete(b, e))
    BY <1>1, <1>3, <1>4, <1>6, <2>1, ErasingSpells, EditingForgets
  <2>. QED
    BY <1>8, <2>1, <2>2
<1>14. ASSUME MoveCursorKey PROVE Done
  <2>1. PICK cursor \in {0, Len(b.key)} : Handle(MoveCursor(b, cursor))
    BY <1>4, <1>14 DEF MoveCursorKey, b
  <2>2. Spells(MoveCursor(b, cursor))
    BY <1>1, <1>4, <2>1, MovingSpells
  <2>3. Forgets(MoveCursor(b, cursor))
    BY <1>4, EditingForgets
  <2>. QED
    BY <1>8, <2>1, <2>2, <2>3
<1>15. Converting => /\ Spells(Choose(Promote(b)))
                     /\ Spells(CommitSegment(Promote(b)))
  <2>. DEFINE p == Promote(b)
  <2>1. Ready(p) /\ SameComposition(b, p) /\ ~p.active
    BY <1>1, PromotedText
  <2>. HIDE DEF p
  <2>2. Converting => Spells(Choose(p)) /\ Spells(CommitSegment(p))
    BY <1>6, <2>1, ChoosingSpells, SegmentSpells DEF SameComposition, Ready
  <2>. QED
    BY <2>2 DEF p
<1>16. ASSUME Converting, Handle(Choose(Promote(b))) PROVE Done
  BY <1>4, <1>7, <1>15, <1>16, ConvertingKeepsDocument
<1>17. ASSUME SpaceKey PROVE Done
  <2>1. ASSUME Composing, NEW e \in Conversions, Handle(Convert(b, e))
        PROVE  Done
    <3>1. Spells(Convert(b, e))
      BY <1>1, <1>3, <1>6, <2>1, ConvertingSpells
    <3>2. SameDocument(b, Convert(b, e))
      BY <1>4, ConvertingKeepsDocument
    <3>. QED
      BY <1>7, <2>1, <3>1, <3>2
  <2>2. ASSUME Converting, HasVisibleZenz(b), Handle(RevertZenz(b))
        PROVE  Done
    <3>1. Spells(RevertZenz(b))
      BY <1>1, <1>6, <2>2, ReturningSpells
    <3>2. SameDocument(b, RevertZenz(b))
      BY <1>4, ConvertingKeepsDocument
    <3>. QED
      BY <1>7, <2>2, <3>1, <3>2
  <2>3. ASSUME Converting, HasDeferred(b), Handle(RevealDeferred(b))
        PROVE  Done
    <3>1. Spells(RevealDeferred(b))
      BY <1>1, <1>6, <2>3, ReturningSpells
    <3>2. SameDocument(b, RevealDeferred(b))
      BY <1>4, ConvertingKeepsDocument
    <3>. QED
      BY <1>7, <2>3, <3>1, <3>2
  <2>. QED
    BY <1>5, <1>16, <1>17, <2>1, <2>2, <2>3 DEF SpaceKey, b
<1>18. ASSUME TransliterationKey PROVE Done
  <2>1. ASSUME Composing, Handle(ConvertToTransliteration(b)) PROVE Done
    <3>1. Spells(ConvertToTransliteration(b))
      BY <1>1, <1>6, <2>1, ConvertingSpells
    <3>2. SameDocument(b, ConvertToTransliteration(b))
      BY <1>4, ConvertingKeepsDocument
    <3>. QED
      BY <1>7, <2>1, <3>1, <3>2
  <2>. QED
    BY <1>16, <1>18, <2>1 DEF TransliterationKey, b
<1>19. ASSUME CommitSegmentKey PROVE Done
  <2>. DEFINE p == Promote(b)
  <2>1. SameDocument(b, p)
    BY <1>4, ClearingKeepsDocument
  <2>. HIDE DEF p
  <2>2. Remembers(p, CommitSegment(p))
    BY <2>1, SegmentRemembers DEF SameDocument
  <2>3. Remembers(b, CommitSegment(p))
    BY <2>1, <2>2 DEF Remembers, Saved, SameDocument
  <2>4. Returns(CommitSegment(p))
    <3>1. Ready(p) /\ p.state = b.state
      BY <1>1, PromotedText DEF SameComposition, p
    <3>2. b.state = "CONVERSION"
      BY <1>6, <1>19 DEF CommitSegmentKey
    <3>. QED
      BY <3>1, <3>2, SegmentReturns
  <2>. QED
    BY <1>6, <1>15, <1>19, <2>3, <2>4 DEF CommitSegmentKey, Accounts, b, p
<1>20. ASSUME ForceZenzKey PROVE Done
  <2>1. PICK withoutFeedback \in BOOLEAN, e \in Conversions :
          Handle(ForceZenz(b, e, withoutFeedback))
    BY <1>20 DEF ForceZenzKey, b
  <2>2. Spells(ForceZenz(b, e, withoutFeedback))
    BY <1>1, <1>3, <2>1, ForcingSpells
  <2>3. SameDocument(b, ForceZenz(b, e, withoutFeedback))
    BY <1>4, ForcingKeepsDocument
  <2>. QED
    BY <1>7, <1>20, <2>1, <2>2, <2>3 DEF ForceZenzKey
<1>21. ASSUME CancelKey PROVE Done
  <2>1. Spells(Abandon(b)) /\ SameDocument(b, Abandon(b))
    BY <1>1, <1>4, AbandonSpells, ConvertingKeepsDocument
  <2>. QED
    BY <1>7, <1>11, <1>21, <2>1 DEF CancelKey, b
<1>22. ASSUME UnboundKey PROVE Done
  <2>1. Spells(DoNothing(b)) /\ SameDocument(b, DoNothing(b))
    BY <1>1, <1>4, OutputSpells, OutputKeepsDocument DEF DoNothing, Ready
  <2>. QED
    BY <1>7, <1>22, <2>1 DEF UnboundKey, b
<1>23. ASSUME EnterKey PROVE Done
  <2>1. NoOutcome.generation \in Numbers
    BY <1>3 DEF Numbers
  <2>2. Spells(Commit(b, NoOutcome))
    BY <1>1, <2>1, EnterSpells DEF Ready
  <2>3. ShowsAReading(b) /\ b.state # "PRECOMPOSITION"
    BY <1>6, <1>23 DEF EnterKey, ShowsAReading
  <2>4. CASE Remembers(b, Commit(b, NoOutcome))
             /\ (HasDeferred(b) \/ ~HasVisibleZenz(b))
    <3>1. Returns(Commit(b, NoOutcome))
      BY <1>1, <1>4, <2>3, <2>4, EnterReturns
    <3>. QED
      BY <1>23, <2>2, <2>3, <2>4, <3>1 DEF EnterKey, Accounts, b
  <2>5. CASE ~Remembers(b, Commit(b, NoOutcome))
    <3>1. Accounts(b, Commit(b, NoOutcome))
      BY <1>4, <2>3, <2>5, CommitRemembers DEF Accounts
    <3>. QED
      BY <1>23, <2>2, <3>1 DEF EnterKey, b
  <2>6. CASE ~HasDeferred(b) /\ HasVisibleZenz(b)
    <3>1. Escapes(b, Commit(b, NoOutcome))
      BY <1>4, <2>6, CorrectionEscapes
    <3>. QED
      BY <1>23, <2>2, <3>1 DEF EnterKey, Accounts, b
  <2>. QED
    BY <2>4, <2>5, <2>6
<1>24. ASSUME ResetContext PROVE Done
  <2>1. Spells(Abandon(ClearUndo(b)))
    BY <1>4, UndoForgotten, AbandonSpells
  <2>. QED
    BY <1>4, <1>8, <1>24, <2>1, EditingForgets DEF ResetContext, b
<1>25. ASSUME IMEOffKey PROVE Done
  <2>1. NoOutcome.generation \in Numbers
    BY <1>3 DEF Numbers
  <2>2. Spells(IMEOff(b, NoOutcome))
    BY <1>1, <2>1, TurningOffSpells
  <2>3. Accounts(b, IMEOff(b, NoOutcome))
    BY <1>1, <1>4, TurningOffRemembers, TurningOffReturns DEF Accounts
  <2>. QED
    BY <1>25, <2>2, <2>3 DEF IMEOffKey, b
<1>26. ASSUME IMEOnKey PROVE Done
  BY <1>1, <1>4, <1>8, <1>26, AbandonSpells, EditingForgets DEF IMEOnKey, b
<1>27. ASSUME UndoKey PROVE Done
  <2>1. Spells(Undo(b, NoOutcome))
    BY <1>1, <1>3, UndoingSpells
  <2>2. Accounts(b, Undo(b, NoOutcome))
    BY <1>4, UndoGoesBack DEF Accounts
  <2>. QED
    BY <1>27, <2>1, <2>2 DEF UndoKey, b
<1>28. Done
  BY <1>9, <1>10, <1>12, <1>13, <1>14, <1>17, <1>18, <1>19, <1>20, <1>21,
     <1>22, <1>23, <1>24, <1>25, <1>26, <1>27 DEF UserActs
<1>. QED
  BY <1>28 DEF b

\* So does a callback, current or late.
LEMMA TimerResponds ==
  ASSUME Inv, Rests, TimerFires
  PROVE  \E s, held : /\ Respond(s, held) /\ Held(held)
                      /\ Spells(s) /\ Accounts(Before, s)
<1>1. PICK i \in DOMAIN timers :
        FireTimer(i, IF timers[i].kind = "live" THEN Conversions ELSE Replies)
  BY DEF TimerFires
<1>2. Held(timers) /\ session \in Sessions
  BY DEF Rests, Spells, Consistent, Composed
<1>3. PICK e \in Conversions \cup Replies :
        Respond(Dispatch(timers[i], e), RemoveAt(timers, i))
  BY <1>1 DEF FireTimer
<1>4. e.generation \in Generations
  BY <1>2, GenerationLeft, OutcomesFresh
<1>5. Ready(Before) /\ Before.preedit = <<>>
  BY BeginsReady
<1>6. Spells(Dispatch(timers[i], e))
  BY <1>4, <1>5, DelayedSpells, CorrectingSpells DEF Dispatch
<1>7. Held(RemoveAt(timers, i))
  BY <1>2, TimersKept
<1>8. Document \subseteq DOMAIN Before
  BY <1>5 DEF Ready, Consistent, Composed, Sessions, Document
<1>9. Accounts(Before, Dispatch(timers[i], e))
  BY <1>8, CallbacksKeepDocument DEF Dispatch, Accounts
<1>. QED
  BY <1>3, <1>6, <1>7, <1>9

\* The screen that a key or callback leaves spells the reading.
LEMMA HandlersRest ==
  ASSUME Inv, Rests, UserActs \/ TimerFires
  PROVE  Rests'
<1>1. Held(timers)
  BY DEF Rests
<1>. QED
  BY <1>1, UserResponds, TimerResponds, RespondingRests DEF Handle

\* The worker touches the mailbox only.
LEMMA WorkerRests ==
  ASSUME Rests, WorkerAnswers
  PROVE  Rests'
<1>1. PICK status \in {"ok", "error"} :
        session' = [session EXCEPT !.corrector.status = status]
  BY DEF WorkerAnswers
<1>. DEFINE t == [session EXCEPT !.corrector.status = status]
<1>2. session \in Sessions /\ timers' = timers
  BY DEF WorkerAnswers, Rests, Spells, Consistent, Composed
<1>3. t \in Sessions /\ SameScreen(session, t)
  BY <1>2 DEF Sessions, SameScreen, SameTexts
<1>4. session' = t
  BY <1>1
<1>. HIDE DEF t
<1>5. Spells(t) /\ OnlyLive(t)
  BY <1>3, SameSpells DEF Rests, SameScreen, SameTexts, OnlyLive
<1>6. Spells(session') /\ OnlyLive(session') /\ Held(timers')
  BY <1>2, <1>4, <1>5 DEF Rests
<1>. QED
  BY <1>6 DEF Rests, Spells, OnScreen, Spelling, Consistent, Composed,
     LiveSpells,
     DeferredSpells, PendingSpells, OnlyLive, Held, ShowsAReading, IsLive

\* A new session shows nothing.
LEMMA RestsAtFirst ==
  ASSUME Init
  PROVE  Rests
<1>1. <<>> \in Stacks /\ <<>> \in Seq(Callback) /\ Len(<<>>) = 0
  BY BoundsAssumption DEF Stacks
<1>2. session \in Sessions
  BY <1>1, NothingTyped DEF Init, InitialSession, Sessions
<1>3. Spells(session)
  BY <1>1, <1>2, NoReadingShown
  DEF Init, InitialSession, ShowsAReading, Spells, OnScreen, Spelling
<1>. QED
  BY <1>1, <1>3, BoundsAssumption
  DEF Rests, OnlyLive, Held, Init, InitialSession
-----------------------------------------------------------------------------
(***************************************************************************)
(* What follows                                                            *)
(***************************************************************************)
\* Between two calls the members of the Session object (session/session.cc)
\* agree with each other on the reading, whatever the keys, callbacks and
\* answers were: this is the invariant the next two theorems follow from.
THEOREM AlwaysSpells == Spec => []Rests
<1>1. Init => Rests
  BY RestsAtFirst
<1>2. Inv /\ Rests /\ [Next]_vars => Rests'
  <2>. SUFFICES ASSUME Inv, Rests, [Next]_vars PROVE Rests'
    OBVIOUS
  <2>1. CASE UserActs \/ TimerFires
    BY <2>1, HandlersRest
  <2>2. CASE WorkerAnswers
    BY <2>2, WorkerRests
  <2>3. CASE UNCHANGED vars
    BY <2>3 DEF vars, Rests, Spells, OnScreen, Spelling, Consistent, Composed,
       LiveSpells, DeferredSpells, PendingSpells, OnlyLive, Held,
       ShowsAReading, IsLive
  <2>. QED
    BY <2>1, <2>2, <2>3 DEF Next
<1>. QED
  BY <1>1, <1>2, AlwaysHandled, PTL DEF Spec

\* What a Session shows in its preedit always spells the reading that was
\* typed, corrections, pending displays and undone commits included: no
\* handler of session/session.cc shows the text of another reading.
THEOREM ScreenAlwaysSpells == Spec => []ScreenSpellsTheReading
<1>1. Rests => ScreenSpellsTheReading
  BY DEF Rests, Spells, OnScreen, Spelling, ScreenSpellsTheReading
<1>. QED
  BY <1>1, AlwaysSpells, PTL

\* The Session object keeps its types and bounds: the cursor stays in the
\* reading, poll_count within its maximum (AdvancePendingZenzLiveCorrection),
\* undo contexts and the client's timers within their limits.
THEOREM SessionTypeOK == Spec => []TypeOK
<1>1. Rests => TypeOK
  <2>. SUFFICES ASSUME Rests PROVE TypeOK
    OBVIOUS
  <2>1. session \in Sessions /\ session.cursor <= Len(session.key)
    BY DEF Rests, Spells, Consistent, Composed
  <2>2. /\ session.key \in Seq(Characters) /\ Len(session.key) \in Nat
        /\ session.cursor \in Nat
    BY <2>1 DEF Sessions, Readings
  <2>3. session.cursor \in 0..Len(session.key)
    BY <2>1, <2>2
  <2>4. /\ session.zenz.polls \in 0..MaxPolls
        /\ session.zenz.generation \in Generations \cup {0}
        /\ session.zenz.pending \in BOOLEAN
        /\ session.zenz.submitted \in BOOLEAN
        /\ session.deferred.on \in BOOLEAN
        /\ Len(session.undo) <= MaxUndo
    BY <2>1 DEF Sessions, Zenzes, Deferreds, Stacks, Numbers
  <2>5. /\ Len(timers) <= MaxTimers
        /\ \A i \in DOMAIN timers : timers[i] \in Callback
    BY DEF Rests, Held
  <2>. QED
    BY <2>1, <2>2, <2>3, <2>4, <2>5 DEF TypeOK, Sessions, Numbers
<1>. QED
  BY <1>1, AlwaysSpells, PTL
-----------------------------------------------------------------------------
(***************************************************************************)
(* Undo.                                                                    *)
(***************************************************************************)

\* Outside an empty composition Undo is exact, and it stays so: each context
\* was saved when Undo would have been.
UndoIsChained ==
  /\ Chained(session.undo)
  /\ session.state # "PRECOMPOSITION" => UndoIsExact

\* The end of SendKey and SendCommand touches neither the document nor the
\* screen.
LEMMA SettledDocument ==
  ASSUME NEW s, Spells(s)
  PROVE  LET t == Settle(s)
         IN  /\ t.undo = s.undo /\ t.committed = s.committed
             /\ t.result = s.result /\ t.state = s.state
             /\ t.preedit = s.preedit /\ t.key = s.key
             /\ t.presentation = s.presentation
<1>. DEFINE q == [s EXCEPT !.active = FALSE, !.fromComposition = FALSE]
            c == [q EXCEPT !.zenz = NoZenz, !.deferred = NoDeferred,
                           !.corrector = NoQuestion]
            v == [c EXCEPT !.visible = NoVisible]
            Same(t) ==
              /\ DOMAIN t = DOMAIN s
              /\ t.undo = s.undo /\ t.committed = s.committed
              /\ t.result = s.result /\ t.state = s.state
              /\ t.preedit = s.preedit /\ t.key = s.key
              /\ t.presentation = s.presentation
<1>1. s \in Sessions
  BY DEF Spells, Consistent, Composed
<1>2. Same(q)
  BY <1>1 DEF Sessions
<1>. HIDE DEF q
<1>3. Same(c)
  BY <1>1, <1>2 DEF Sessions
<1>. HIDE DEF c
<1>4. Same(v)
  BY <1>1, <1>3 DEF Sessions
<1>5. Settle(s) \in {s, v}
  BY DEF Settle, ClearZenz, CancelPendingZenz, v, c, q
<1>. HIDE DEF v
<1>. QED
  BY <1>4, <1>5

\* A response that accounts for what it puts into the document.
LEMMA AccountingChains ==
  ASSUME Rests, UndoIsChained,
         NEW s, Spells(s), Accounts(Before, s), NEW held, Respond(s, held)
  PROVE  /\ UndoIsChained'
         /\ UndoIsExact /\ ~HasVisibleZenz(session) => UndoIsExact'
<1>. DEFINE b == Before
            t == Settle(s)
            d == Deliver(t)
<1>1. session \in Sessions /\ session.undo \in Seq(Entries)
  BY DEF Rests, Spells, Consistent, Composed, Sessions, Stacks
<1>2. /\ b \in Sessions /\ b.undo = session.undo /\ b.result = <<>>
      /\ b.committed = session.committed /\ b.state = session.state
      /\ HasVisibleZenz(b) => HasVisibleZenz(session)
  BY <1>1, NothingTyped DEF Before, NewOutput, Sessions, HasVisibleZenz
<1>. HIDE DEF b
<1>3. s \in Sessions /\ Len(s.result) \in Nat
  BY DEF Spells, Consistent, Composed, Sessions, Texts
<1>4. /\ Spells(t) /\ t.undo = s.undo /\ t.committed = s.committed
      /\ t.result = s.result /\ t.state = s.state
  BY SettledSpells, SettledDocument
<1>. HIDE DEF t
<1>5. /\ session'.undo = d.undo /\ session'.committed = d.committed
      /\ session'.state = d.state
  <2>1. d \in Sessions
    BY <1>4, DeliveredSpells DEF Spells, Consistent, Composed
  <2>2. session' = [d EXCEPT !.callback = NoCallback]
    BY DEF Respond, d, t
  <2>. HIDE DEF d
  <2>. QED
    BY <2>1, <2>2 DEF Sessions
<1>. HIDE DEF d
<1>6. ASSUME Chained(s.undo), NEW committed \in Nat, Counts(s.undo, committed)
      PROVE  /\ Chained(session'.undo) /\ session'.committed = s.committed
             /\ session'.state = s.state
             /\ Counts(session'.undo, committed + Len(s.result))
  BY <1>4, <1>5, <1>6, DeliveringChains DEF d
<1>7. ASSUME Chained(s.undo), NEW committed \in Nat, Counts(s.undo, committed),
             s.undo # <<>> => s.committed = committed + Len(s.result)
      PROVE  UndoIsChained' /\ UndoIsExact'
  <2>1. session'.undo = <<>> <=> s.undo = <<>>
    BY <1>4, <1>5, <1>7, DeliveringChains DEF d
  <2>. QED
    BY <1>6, <1>7, <2>1 DEF UndoIsChained, UndoIsExact, Counts
<1>8. ASSUME Forgets(s)
      PROVE  UndoIsChained' /\ UndoIsExact'
  <2>1. s.undo = <<>> /\ Chained(s.undo) /\ Counts(s.undo, 0)
    BY <1>8 DEF Forgets, Chained, Counts
  <2>. QED
    BY <1>7, <2>1
<1>9. ASSUME NEW u, Remembers(u, s), u.undo \in Seq(Entries),
             Chained(u.undo), Counts(u.undo, u.committed)
      PROVE  UndoIsChained' /\ UndoIsExact'
  <2>1. PICK entry : /\ entry.delivered = 0 /\ entry.committed = u.committed
                     /\ s.undo = Bounded(Append(u.undo, entry))
    BY <1>9 DEF Remembers, Saved
  <2>2. Chained(s.undo) /\ Counts(s.undo, 0)
    BY <1>9, <2>1, SavingChains
  <2>3. s.undo # <<>> => s.committed = 0 + Len(s.result)
    BY <1>3, <1>9 DEF Remembers
  <2>. QED
    BY <1>7, <2>2, <2>3
<1>10. /\ Chained(b.undo) /\ b.undo \in Seq(Entries)
       /\ UndoIsExact <=> Counts(b.undo, b.committed)
       /\ b.state # "PRECOMPOSITION" => UndoIsExact
  BY <1>1, <1>2 DEF UndoIsChained, UndoIsExact, Counts
<1>11. CASE /\ SameDocument(b, s)
            /\ b.state = "PRECOMPOSITION" => s.state = b.state
  <2>1. s.committed \in Nat /\ s.result = <<>> /\ s.undo = b.undo
    BY <1>2, <1>3, <1>11 DEF SameDocument, Sessions
  <2>2. ASSUME UndoIsExact PROVE UndoIsChained' /\ UndoIsExact'
    BY <1>7, <1>10, <1>11, <2>1, <2>2 DEF SameDocument
  <2>3. CASE b.state = "PRECOMPOSITION" /\ ~UndoIsExact
    <3>. DEFINE committed == Last(s.undo).delivered
    <3>1. s.undo # <<>>
      BY <1>2, <2>1, <2>3 DEF UndoIsExact
    <3>2. committed \in Nat
      <4>1. Last(s.undo) \in Entries
        BY <1>10, <2>1, <3>1 DEF Last
      <4>. QED
        BY <4>1 DEF Entries
    <3>3. Counts(s.undo, committed)
      BY DEF Counts
    <3>4. UndoIsChained'
      BY <1>6, <1>10, <1>11, <2>1, <2>3, <3>2, <3>3 DEF UndoIsChained
    <3>. QED
      BY <2>3, <3>4
  <2>. QED
    BY <1>10, <2>2, <2>3
<1>12. CASE Remembers(b, s) /\ b.state # "PRECOMPOSITION"
  BY <1>9, <1>10, <1>12
<1>13. CASE \E u : Forgets(u) /\ Remembers(u, s)
  <2>1. PICK u : Forgets(u) /\ Remembers(u, s)
    BY <1>13
  <2>2. /\ u.undo \in Seq(Entries) /\ Chained(u.undo)
        /\ Counts(u.undo, u.committed)
    BY <2>1 DEF Forgets, Chained, Counts
  <2>. QED
    BY <1>9, <2>1, <2>2
<1>14. CASE GoesBack(b, s)
  <2>1. /\ b.undo # <<>> /\ s.undo = Front(b.undo)
        /\ s.committed = Last(b.undo).committed /\ s.result = <<>>
    BY <1>2, <1>14 DEF GoesBack
  <2>2. Chained(s.undo) /\ Counts(s.undo, s.committed)
    BY <1>10, <2>1, GoingBackChains
  <2>3. s.committed \in Nat
    BY <1>3 DEF Sessions
  <2>. QED
    BY <1>7, <2>1, <2>2, <2>3
<1>15. CASE Escapes(b, s)
  <2>1. HasVisibleZenz(session) /\ s.undo = b.undo
        /\ s.state = "PRECOMPOSITION"
    BY <1>2, <1>15 DEF Escapes
  <2>2. CASE s.undo = <<>>
    <3>1. Chained(s.undo) /\ Counts(s.undo, 0)
      BY <2>2 DEF Chained, Counts
    <3>. QED
      BY <1>7, <2>2, <3>1
  <2>3. CASE s.undo # <<>>
    <3>. DEFINE committed == Last(s.undo).delivered
    <3>1. Last(s.undo) \in Entries
      BY <1>10, <2>1, <2>3 DEF Last
    <3>2. committed \in Nat /\ Counts(s.undo, committed)
      BY <3>1 DEF Entries, Counts
    <3>. QED
      BY <1>6, <1>10, <2>1, <3>2 DEF UndoIsChained
  <2>. QED
    BY <2>2, <2>3
<1>. QED
  BY <1>8, <1>11, <1>12, <1>13, <1>14, <1>15 DEF Accounts, b

\* Every context PushUndoContext (session/session.cc) saves is chained to the
\* one below it, so that Undo, which pops one, deletes again exactly what was
\* committed since the next was saved; and while a reading is composed or
\* converted Undo is exact.
THEOREM UndoStaysChained == Spec => []UndoIsChained
<1>1. Init => UndoIsChained
  BY DEF Init, InitialSession, UndoIsChained, UndoIsExact, Chained
<1>2. Inv /\ Rests /\ UndoIsChained /\ [Next]_vars => UndoIsChained'
  <2>. SUFFICES ASSUME Inv, Rests, UndoIsChained, [Next]_vars
                PROVE  UndoIsChained'
    OBVIOUS
  <2>1. CASE UserActs \/ TimerFires
    BY <2>1, UserResponds, TimerResponds, AccountingChains DEF Handle
  <2>2. CASE WorkerAnswers
    <3>1. /\ session'.undo = session.undo /\ session'.state = session.state
          /\ session'.committed = session.committed
      BY <2>2 DEF WorkerAnswers, Rests, Spells, Consistent, Composed, Sessions
    <3>. QED
      BY <3>1 DEF UndoIsChained, UndoIsExact, Chained
  <2>3. CASE UNCHANGED vars
    BY <2>3 DEF vars, UndoIsChained, UndoIsExact, Chained
  <2>. QED
    BY <2>1, <2>2, <2>3 DEF Next
<1>. QED
  BY <1>1, <1>2, AlwaysHandled, AlwaysSpells, PTL DEF Spec

\* Undo deletes what was committed since the context on top was saved, and no
\* step but the commit of a Zenz correction (CommitZenzLiveCorrectionResult,
\* session/session.cc, which saves no context) makes it delete anything else.
THEOREM UndoIsEscapedByCorrections == Spec => OnlyCorrectionsEscapeUndo
<1>. DEFINE A == UndoIsExact /\ ~HasVisibleZenz(session) => UndoIsExact'
<1>1. Inv /\ Rests /\ UndoIsChained /\ [Next]_vars => [A]_vars
  <2>. SUFFICES ASSUME Inv, Rests, UndoIsChained, [Next]_vars,
                       ~UNCHANGED vars
                PROVE  A
    OBVIOUS
  <2>1. CASE UserActs \/ TimerFires
    BY <2>1, UserResponds, TimerResponds, AccountingChains DEF Handle
  <2>2. CASE WorkerAnswers
    <3>1. /\ session'.undo = session.undo
          /\ session'.committed = session.committed
      BY <2>2 DEF WorkerAnswers, Rests, Spells, Consistent, Composed, Sessions
    <3>. QED
      BY <3>1 DEF UndoIsExact
  <2>. QED
    BY <2>1, <2>2 DEF Next
<1>. QED
  BY <1>1, AlwaysHandled, AlwaysSpells, UndoStaysChained, PTL
  DEF Spec, OnlyCorrectionsEscapeUndo

\* Every context below delivered something, and the one on top can put back on
\* the screen what was just committed, when that is all it delivered.
CommitsReturn ==
  /\ \A i \in DOMAIN session.undo : session.undo[i].delivered > 0
  /\ /\ session.state = "PRECOMPOSITION"
     /\ session.undo # <<>> /\ session.result # <<>>
     /\ Last(session.undo).delivered = Len(session.result)
     => Restores(Last(session.undo), session.result)

\* What the delivery of a result does to the contexts.
LEMMA DeliveredContexts ==
  ASSUME NEW s, Spells(s)
  PROVE  LET v == Deliver(s).undo
             n == Len(s.undo)
         IN  /\ Deliver(s).result = s.result
             /\ Deliver(s).preedit = s.preedit
             /\ DOMAIN v = 1..n /\ Len(v) = n /\ n \in Nat
             /\ v = <<>> <=> s.undo = <<>>
             /\ \A i \in 1..n : i # n => v[i] = s.undo[i]
             /\ s.undo # <<>> =>
                  v[n] = [s.undo[n] EXCEPT
                           !.delivered = @ + Len(s.result)]
<1>. DEFINE u == s.undo
            n == Len(u)
            w == [u[n] EXCEPT !.delivered = @ + Len(s.result)]
            v == [u EXCEPT ![n] = w]
            t == [s EXCEPT !.undo = v]
<1>1. u \in Seq(Entries) /\ s \in Sessions /\ n \in Nat /\ DOMAIN u = 1..n
  BY DEF Spells, Consistent, Composed, Sessions, Stacks
<1>2. CASE u = <<>>
  <2>1. Deliver(s) = s /\ n = 0
    BY <1>2 DEF Deliver
  <2>. QED
    BY <1>1, <1>2, <2>1
<1>3. CASE u # <<>>
  <2>1. n \in 1..n
    BY <1>1, <1>3
  <2>2. Deliver(s) = t
    BY <1>1, <1>3, <2>1 DEF Deliver, Sessions, Entries
  <2>. HIDE DEF w
  <2>3. DOMAIN v = 1..n /\ v[n] = w /\ \A i \in 1..n : i # n => v[i] = u[i]
    BY <1>1, <2>1
  <2>4. Len(v) = n
    <3>. HIDE DEF v
    <3>. QED
      BY <1>1, <2>3, LenProperties
  <2>5. v # <<>>
    BY <2>1, <2>4
  <2>. HIDE DEF v
  <2>6. t.undo = v /\ t.result = s.result /\ t.preedit = s.preedit
    BY <1>1 DEF Sessions
  <2>. HIDE DEF t
  <2>. QED
    BY <1>1, <1>3, <2>2, <2>3, <2>4, <2>5, <2>6 DEF w
<1>. QED
  BY <1>2, <1>3

\* What a response leaves of the handler's session.
LEMMA ResponseKeeps ==
  ASSUME NEW s, Spells(s), NEW held, Respond(s, held)
  PROVE  LET v == session'.undo
             n == Len(s.undo)
         IN  /\ session'.result = s.result /\ session'.state = s.state
             /\ session'.preedit = s.preedit /\ session'.key = s.key
             /\ session'.presentation = s.presentation
             /\ DOMAIN v = 1..n /\ Len(v) = n /\ n \in Nat
             /\ v = <<>> <=> s.undo = <<>>
             /\ \A i \in 1..n : i # n => v[i] = s.undo[i]
             /\ s.undo # <<>> =>
                  v[n] = [s.undo[n] EXCEPT
                           !.delivered = @ + Len(s.result)]
<1>. DEFINE t == Settle(s)
            d == Deliver(t)
<1>1. /\ Spells(t) /\ t.undo = s.undo /\ t.result = s.result
      /\ t.state = s.state /\ t.preedit = s.preedit /\ t.key = s.key
      /\ t.presentation = s.presentation
  BY SettledSpells, SettledDocument
<1>. HIDE DEF t
<1>2. /\ d \in Sessions /\ SameTexts(t, d)
  BY <1>1, DeliveredSpells DEF Spells, Consistent, Composed
<1>3. /\ session'.undo = d.undo /\ session'.result = d.result
      /\ session'.state = d.state /\ session'.preedit = d.preedit
      /\ session'.key = d.key /\ session'.presentation = d.presentation
  <2>1. session' = [d EXCEPT !.callback = NoCallback]
    BY DEF Respond, d, t
  <2>. HIDE DEF d
  <2>. QED
    BY <1>2, <2>1 DEF Sessions
<1>. QED
  BY <1>1, <1>2, <1>3, DeliveredContexts DEF SameTexts

\* A response that accounts for what it puts into the document lets Undo put
\* it back.
LEMMA AccountingReturns ==
  ASSUME Rests, CommitsReturn,
         NEW s, Spells(s), Accounts(Before, s), NEW held, Respond(s, held)
  PROVE  CommitsReturn'
<1>. DEFINE b == Before
            v == session'.undo
            n == Len(s.undo)
<1>1. session \in Sessions /\ session.undo \in Seq(Entries)
  BY DEF Rests, Spells, Consistent, Composed, Sessions, Stacks
<1>2. b.undo = session.undo /\ b.result = <<>>
  BY <1>1 DEF Before, NewOutput, Sessions
<1>. HIDE DEF b
<1>3. /\ s.undo \in Seq(Entries) /\ DOMAIN s.undo = 1..n
      /\ Len(s.result) \in Nat
      /\ s.result # <<>> => Len(s.result) > 0
  BY DEF Spells, Consistent, Composed, Sessions, Stacks, Texts
<1>4. /\ session'.result = s.result /\ session'.state = s.state
      /\ DOMAIN v = 1..n /\ Len(v) = n /\ n \in Nat
      /\ v = <<>> <=> s.undo = <<>>
      /\ \A i \in 1..n : i # n => v[i] = s.undo[i]
      /\ s.undo # <<>> =>
           v[n] = [s.undo[n] EXCEPT !.delivered = @ + Len(s.result)]
  BY ResponseKeeps
<1>. HIDE DEF v, n
<1>5. \A i \in 1..n : s.undo[i] \in Entries /\ s.undo[i].delivered \in Nat
  <2>1. \A i \in 1..n : s.undo[i] \in Entries
    BY <1>3, ElementOfSeq DEF n
  <2>. QED
    BY <2>1 DEF Entries
<1>6. ASSUME s.undo # <<>>
      PROVE  /\ n \in 1..n /\ Last(s.undo) = s.undo[n] /\ Last(v) = v[n]
             /\ v[n].delivered = s.undo[n].delivered + Len(s.result)
             /\ \A text : Restores(s.undo[n], text) => Restores(v[n], text)
  <2>1. n \in 1..n
    BY <1>3, <1>4, <1>6 DEF n
  <2>2. Last(s.undo) = s.undo[n] /\ Last(v) = v[n]
    BY <1>4 DEF Last, n
  <2>. DEFINE x == s.undo[n]
              y == v[n]
  <2>3. x \in Entries /\ y = [x EXCEPT !.delivered = @ + Len(s.result)]
    BY <1>4, <1>5, <1>6, <2>1
  <2>. HIDE DEF x, y
  <2>4. /\ y.delivered = x.delivered + Len(s.result)
        /\ y.pendingKey = x.pendingKey /\ y.key = x.key
        /\ y.presentation = x.presentation /\ y.liveValue = x.liveValue
        /\ y.state = x.state /\ y.conversion = x.conversion
    BY <2>3 DEF Entries
  <2>5. \A text : Restores(x, text) => Restores(y, text)
    BY <2>4 DEF Restores, Redisplay, Plain
  <2>. QED
    BY <2>1, <2>2, <2>4, <2>5 DEF x, y
<1>7. ASSUME \A i \in 1..n :
               s.undo[i].delivered > 0 \/ (i = n /\ s.result # <<>>),
             /\ s.state = "PRECOMPOSITION" /\ s.undo # <<>>
             /\ s.result # <<>> /\ ~(s.undo[n].delivered > 0)
             => Restores(s.undo[n], s.result)
      PROVE  CommitsReturn'
  <2>1. ASSUME NEW i \in 1..n PROVE v[i].delivered > 0
    <3>1. CASE i # n
      BY <1>4, <1>7, <3>1
    <3>2. CASE i = n
      <4>1. s.undo # <<>>
        BY <1>3, <1>4, <2>1 DEF n
      <4>. QED
        BY <1>3, <1>5, <1>6, <1>7, <3>2, <4>1
    <3>. QED
      BY <3>1, <3>2
  <2>2. ASSUME s.state = "PRECOMPOSITION", v # <<>>, s.result # <<>>,
               Last(v).delivered = Len(s.result)
        PROVE  Restores(Last(v), s.result)
    <3>1. s.undo # <<>>
      BY <1>4, <2>2
    <3>2. ~(s.undo[n].delivered > 0)
      BY <1>3, <1>5, <1>6, <2>2, <3>1
    <3>. QED
      BY <1>6, <1>7, <2>2, <3>1, <3>2
  <2>. QED
    BY <1>4, <2>1, <2>2 DEF CommitsReturn, v
<1>8. \A i \in DOMAIN session.undo : session.undo[i].delivered > 0
  BY DEF CommitsReturn
<1>9. ASSUME NEW x, x.undo \in Seq(Entries), Remembers(x, s), Returns(s),
             \A i \in DOMAIN x.undo : x.undo[i].delivered > 0
      PROVE  CommitsReturn'
  <2>1. PICK entry : s.undo = Bounded(Append(x.undo, entry))
    BY <1>9 DEF Remembers, Saved
  <2>2. ASSUME NEW i \in 1..n
        PROVE  s.undo[i].delivered > 0 \/ (i = n /\ s.result # <<>>)
    <3>1. s.undo # <<>>
      BY <1>3, <1>4, <2>2 DEF n
    <3>2. /\ x.undo \in Seq(Entries \cup {entry})
          /\ entry \in Entries \cup {entry}
      BY <1>9
    <3>3. i = n \/ \E j \in DOMAIN x.undo : s.undo[i] = x.undo[j]
      BY <1>3, <2>1, <2>2, <3>1, <3>2, SavedOnTop DEF n
    <3>. QED
      BY <1>9, <3>1, <3>3 DEF Returns
  <2>. QED
    BY <1>6, <1>7, <1>9, <2>2 DEF Returns
<1>10. CASE Forgets(s)
  <2>1. n = 0
    BY <1>10 DEF Forgets, n
  <2>. QED
    BY <1>7, <1>10, <2>1 DEF Forgets
<1>11. CASE SameDocument(b, s)
  <2>1. s.undo = session.undo /\ s.result = <<>>
    BY <1>2, <1>11 DEF SameDocument
  <2>. QED
    BY <1>3, <1>7, <1>8, <2>1
<1>12. CASE Remembers(b, s) /\ Returns(s)
  BY <1>1, <1>2, <1>8, <1>9, <1>12
<1>13. CASE Returns(s) /\ \E u : Forgets(u) /\ Remembers(u, s)
  <2>1. PICK u : Forgets(u) /\ Remembers(u, s)
    BY <1>13
  <2>2. u.undo = <<>>
    BY <2>1 DEF Forgets
  <2>3. /\ u.undo \in Seq(Entries)
        /\ \A i \in DOMAIN u.undo : u.undo[i].delivered > 0
    BY <2>2
  <2>. QED
    BY <1>9, <1>13, <2>1, <2>3
<1>14. CASE GoesBack(b, s)
  <2>1. /\ session.undo # <<>> /\ s.undo = Front(session.undo)
        /\ s.result = <<>>
    BY <1>2, <1>14 DEF GoesBack
  <2>2. \A i \in 1..n : i \in DOMAIN session.undo
                        /\ s.undo[i] = session.undo[i]
    <3>1. /\ n = Len(session.undo) - 1 /\ Len(session.undo) \in Nat
          /\ DOMAIN session.undo = 1..Len(session.undo)
      BY <1>1, <2>1, FrontKeeps DEF n
    <3>2. \A i \in 1..n : s.undo[i] = session.undo[i]
      BY <1>1, <2>1, <3>1, FrontKeeps
    <3>. QED
      BY <3>1, <3>2
  <2>. QED
    BY <1>7, <1>8, <2>1, <2>2
<1>15. CASE Escapes(b, s)
  <2>1. s.undo = session.undo
    BY <1>2, <1>15 DEF Escapes
  <2>. QED
    BY <1>3, <1>6, <1>7, <1>8, <2>1
<1>. QED
  BY <1>10, <1>11, <1>12, <1>13, <1>14, <1>15 DEF Accounts, b

\* What a Session commits with Enter or segment by segment (CommitInternal,
\* CommitPendingLiveConversionDisplayForSubmit, CommitSegment and
\* CommitDeferredZenzLivePresentationForSubmit, session/session.cc) is what
\* the context saved with it shows, and no context is saved for nothing.
THEOREM CommitsAlwaysReturn == Spec => []CommitsReturn
<1>1. Init => CommitsReturn
  BY DEF Init, InitialSession, CommitsReturn
<1>2. Inv /\ Rests /\ CommitsReturn /\ [Next]_vars => CommitsReturn'
  <2>. SUFFICES ASSUME Inv, Rests, CommitsReturn, [Next]_vars
                PROVE  CommitsReturn'
    OBVIOUS
  <2>1. CASE UserActs \/ TimerFires
    BY <2>1, UserResponds, TimerResponds, AccountingReturns DEF Handle
  <2>2. CASE WorkerAnswers
    <3>1. /\ session'.undo = session.undo /\ session'.state = session.state
          /\ session'.result = session.result
      BY <2>2 DEF WorkerAnswers, Rests, Spells, Consistent, Composed, Sessions
    <3>. QED
      BY <3>1 DEF CommitsReturn
  <2>3. CASE UNCHANGED vars
    BY <2>3 DEF vars, CommitsReturn
  <2>. QED
    BY <2>1, <2>2, <2>3 DEF Next
<1>. QED
  BY <1>1, <1>2, AlwaysHandled, AlwaysSpells, PTL DEF Spec

\* Undo (session/session.cc) puts what was committed last back on the screen,
\* whatever it was committed from, if the client can delete it and the
\* presentation has not come apart from the reading.
THEOREM UndoAlwaysRestores == Spec => UndoRestoresTheScreen
<1>. DEFINE A == /\ DeletePreceding
                 /\ session.state = "PRECOMPOSITION"
                 /\ session.undo # <<>> /\ session.result # <<>>
                 /\ Last(session.undo).delivered = Len(session.result)
                 /\ UndoKey
                 => session'.preedit = session.result \/ Diverged(session')
<1>1. Inv /\ Rests /\ CommitsReturn /\ [Next]_vars => [A]_vars
  <2>. SUFFICES ASSUME Inv, Rests, CommitsReturn, DeletePreceding,
                       session.state = "PRECOMPOSITION",
                       session.undo # <<>>, session.result # <<>>,
                       Last(session.undo).delivered = Len(session.result),
                       UndoKey
                PROVE  session'.preedit = session.result \/ Diverged(session')
    OBVIOUS
  <2>. DEFINE b == Before
              t == Undo(b, NoOutcome)
              entry == Last(session.undo)
  <2>1. Respond(t, timers)
    BY DEF UndoKey, Handle
  <2>2. session \in Sessions /\ Held(timers)
    BY DEF Rests, Spells, Consistent, Composed
  <2>3. Ready(b)
    BY BeginsReady
  <2>4. /\ b \in Sessions /\ b.undo = session.undo
        /\ b.state = session.state
    BY <2>2, <2>3 DEF Ready, Consistent, Composed, Before, NewOutput, Sessions
  <2>5. Spells(t)
    <3>1. NoOutcome.generation \in Generations
      BY <2>2, GenerationLeft, OutcomesFresh
    <3>. QED
      BY <2>3, <3>1, UndoingSpells
  <2>. HIDE DEF b
  <2>6. /\ t.preedit = Redisplay(entry) /\ t.key = entry.key
        /\ entry.pendingKey = entry.key => t.presentation = entry.presentation
    BY <2>4, UndoRedisplays
  <2>. HIDE DEF t
  <2>7. /\ session'.preedit = t.preedit /\ session'.key = t.key
        /\ session'.presentation = t.presentation
    BY <2>1, <2>5, ResponseKeeps
  <2>8. Restores(entry, session.result)
    BY DEF CommitsReturn
  <2>. HIDE DEF entry
  <2>. QED
    BY <2>6, <2>7, <2>8 DEF Restores, Diverged
<1>. QED
  BY <1>1, AlwaysHandled, AlwaysSpells, CommitsAlwaysReturn, PTL
  DEF Spec, UndoRestoresTheScreen
-----------------------------------------------------------------------------
(***************************************************************************)
(* Callbacks that come too late.                                            *)
(***************************************************************************)

\* What the end of SendKey and SendCommand leaves outside a conversion.
Settled(s) ==
  s.state # "CONVERSION" =>
    /\ ~s.active /\ ~s.fromComposition
    /\ s.zenz = NoZenz /\ s.visible = NoVisible
    /\ s.deferred = NoDeferred /\ s.corrector = NoQuestion

\* A session that has settled settles as it is.
LEMMA SettlesOnce ==
  ASSUME NEW s \in Sessions, Settled(s)
  PROVE  Settle(s) = s
<1>. DEFINE q == [s EXCEPT !.active = FALSE, !.fromComposition = FALSE]
            c == [q EXCEPT !.zenz = NoZenz, !.deferred = NoDeferred,
                           !.corrector = NoQuestion]
            v == [c EXCEPT !.visible = NoVisible]
<1>1. CASE s.state # "CONVERSION"
  <2>1. q = s
    BY <1>1 DEF Settled, Sessions
  <2>. HIDE DEF q
  <2>2. c = s
    BY <1>1, <2>1 DEF Settled, Sessions
  <2>. HIDE DEF c
  <2>3. v = s
    BY <1>1, <2>2 DEF Settled, Sessions
  <2>4. Settle(s) = v
    BY <1>1 DEF Settle, ClearZenz, CancelPendingZenz, v, c, q
  <2>. QED
    BY <2>3, <2>4
<1>2. CASE s.state = "CONVERSION"
  BY <1>2 DEF Settle
<1>. QED
  BY <1>1, <1>2

\* Nothing is delivered without a result.
LEMMA NothingDelivered ==
  ASSUME NEW s \in Sessions, s.result = <<>>
  PROVE  Deliver(s) = s
<1>1. CASE s.undo = <<>>
  BY <1>1 DEF Deliver
<1>2. CASE s.undo # <<>>
  <2>. DEFINE u == s.undo
              n == Len(u)
              entry == u[n]
              total == entry.delivered + Len(s.result)
              w == [entry EXCEPT !.delivered = total]
              v == [u EXCEPT ![n] = w]
              t == [s EXCEPT !.undo = v]
  <2>1. u \in Seq(Entries) /\ n \in Nat /\ n \in 1..n /\ entry \in Entries
    BY <1>2 DEF Sessions, Stacks
  <2>2. Deliver(s) = t
    BY <1>2, <2>1 DEF Deliver, Sessions
  <2>3. total = entry.delivered
    <3>1. entry.delivered \in Nat
      BY <2>1 DEF Entries
    <3>. HIDE DEF entry
    <3>. QED
      BY <3>1
  <2>. HIDE DEF total
  <2>4. w = entry
    <3>. HIDE DEF entry
    <3>. QED
      BY <2>1, <2>3 DEF Entries
  <2>. HIDE DEF w
  <2>5. v = u
    BY <2>1, <2>4
  <2>. HIDE DEF v
  <2>6. t = s
    BY <2>5 DEF Sessions
  <2>. QED
    BY <2>2, <2>6
<1>. QED
  BY <1>1, <1>2

\* Every handler leaves a session that has settled.
LEMMA RespondingSettles ==
  ASSUME NEW s, Spells(s), NEW held, Respond(s, held)
  PROVE  Settled(session')
<1>. DEFINE t == Settle(s)
            d == Deliver(t)
            f == [d EXCEPT !.callback = NoCallback]
            q == [s EXCEPT !.active = FALSE, !.fromComposition = FALSE]
            c == [q EXCEPT !.zenz = NoZenz, !.deferred = NoDeferred,
                           !.corrector = NoQuestion]
            v == [c EXCEPT !.visible = NoVisible]
<1>1. s \in Sessions
  BY DEF Spells, Consistent, Composed
<1>2. Settled(t)
  <2>1. CASE s.state # "CONVERSION"
    <3>1. /\ DOMAIN q = DOMAIN s /\ ~q.active /\ ~q.fromComposition
      BY <1>1 DEF Sessions
    <3>. HIDE DEF q
    <3>2. /\ DOMAIN c = DOMAIN s /\ ~c.active /\ ~c.fromComposition
          /\ c.zenz = NoZenz /\ c.deferred = NoDeferred
          /\ c.corrector = NoQuestion
      BY <1>1, <3>1 DEF Sessions
    <3>. HIDE DEF c
    <3>3. Settled(v)
      BY <1>1, <3>2 DEF Sessions, Settled
    <3>4. t = v
      BY <2>1 DEF Settle, ClearZenz, CancelPendingZenz, v, c, q
    <3>. QED
      BY <3>3, <3>4
  <2>2. CASE s.state = "CONVERSION"
    BY <2>2 DEF Settle, Settled
  <2>. QED
    BY <2>1, <2>2
<1>3. Spells(t)
  BY SettledSpells
<1>. HIDE DEF t
<1>4. t \in Sessions
  BY <1>3 DEF Spells, Consistent, Composed
<1>5. \A undo : Settled([t EXCEPT !.undo = undo])
  BY <1>2, <1>4 DEF Settled, Sessions
<1>6. Settled(d)
  BY <1>2, <1>5 DEF Deliver
<1>7. d \in Sessions
  BY <1>3, DeliveredSpells DEF Spells, Consistent, Composed
<1>. HIDE DEF d
<1>8. Settled(f)
  BY <1>6, <1>7 DEF Settled, Sessions
<1>9. session' = f
  BY DEF Respond, f, d, t
<1>. QED
  BY <1>8, <1>9

\* What is left of a sequence.
LEMMA RemovedLength ==
  ASSUME NEW S, NEW u \in Seq(S), NEW l \in 1..Len(u)
  PROVE  /\ RemoveAt(u, l) \in Seq(S)
         /\ Len(RemoveAt(u, l)) = Len(u) - 1
         /\ \A k \in 1..Len(u) - 1 :
              RemoveAt(u, l)[k] = IF k < l THEN u[k] ELSE u[k + 1]
<1>. DEFINE n == Len(u)
<1>0. n \in Nat /\ DOMAIN u = 1..n /\ l \in 1..n
  OBVIOUS
<1>. DEFINE a == SubSeq(u, 1, l - 1)
            b == SubSeq(u, l + 1, n)
<1>1. /\ \A k \in 1..l - 1 : u[k] \in S
      /\ \A k \in l + 1..n : u[k] \in S
  BY <1>0
<1>2. /\ a \in Seq(S) /\ Len(a) = l - 1
      /\ \A k \in 1..l - 1 : a[k] = u[k]
  BY <1>0, <1>1, SubSeqProperties
<1>3. /\ b \in Seq(S) /\ Len(b) = n - l
      /\ \A k \in 1..n - l : b[k] = u[l + k]
  <2>1. l + 1 \in Int /\ n \in Int
    BY <1>0
  <2>2. /\ b \in Seq(S)
        /\ Len(b) = IF l + 1 <= n THEN n - (l + 1) + 1 ELSE 0
        /\ \A k \in 1..n - (l + 1) + 1 : b[k] = u[l + 1 + k - 1]
    <3>. HIDE DEF n
    <3>. QED
      BY <1>1, <2>1, SubSeqProperties
  <2>. HIDE DEF b, n
  <2>3. n - (l + 1) + 1 = n - l /\ (l + 1 <= n \/ n - l = 0)
    BY <1>0
  <2>4. \A k \in 1..n - l : l + 1 + k - 1 = l + k
    BY <1>0
  <2>. QED
    BY <2>2, <2>3, <2>4
<1>4. RemoveAt(u, l) = a \o b
  BY DEF RemoveAt
<1>. HIDE DEF a, b, n
<1>5. /\ Len(a \o b) = n - 1
      /\ \A k \in 1..n - 1 :
           (a \o b)[k] = IF k <= l - 1 THEN a[k] ELSE b[k - (l - 1)]
  <2>1. /\ Len(a \o b) = Len(a) + Len(b)
        /\ \A k \in 1..Len(a) + Len(b) :
             (a \o b)[k] = IF k <= Len(a) THEN a[k] ELSE b[k - Len(a)]
    BY <1>2, <1>3, ConcatProperties
  <2>2. Len(a) + Len(b) = n - 1
    BY <1>0, <1>2, <1>3
  <2>. QED
    BY <1>2, <2>1, <2>2
<1>6. ASSUME NEW k \in 1..n - 1
      PROVE  (a \o b)[k] = IF k < l THEN u[k] ELSE u[k + 1]
  <2>1. CASE k < l
    BY <1>0, <1>2, <1>5, <2>1
  <2>2. CASE ~(k < l)
    <3>1. /\ k - (l - 1) \in 1..n - l /\ ~(k <= l - 1)
          /\ l + (k - (l - 1)) = k + 1
      BY <1>0, <2>2
    <3>. QED
      BY <1>3, <1>5, <2>2, <3>1
  <2>. QED
    BY <2>1, <2>2
<1>7. a \o b \in Seq(S)
  BY <1>2, <1>3, ConcatProperties
<1>. QED
  BY <1>4, <1>5, <1>6, <1>7 DEF n

\* Two elements whose removal leaves the same timers are equal.
LEMMA SameRemoved ==
  ASSUME NEW S, NEW u \in Seq(S), NEW i \in DOMAIN u, NEW j \in DOMAIN u,
         RemoveAt(u, i) = RemoveAt(u, j)
  PROVE  u[i] = u[j]
<1>. DEFINE n == Len(u)
<1>1. n \in Nat /\ DOMAIN u = 1..n
  OBVIOUS
<1>2. \A l \in 1..n : \A k \in 1..n - 1 :
        RemoveAt(u, l)[k] = IF k < l THEN u[k] ELSE u[k + 1]
  BY RemovedLength
<1>3. ASSUME NEW l \in 1..n, NEW m \in 1..n, l < m,
             RemoveAt(u, l) = RemoveAt(u, m)
      PROVE  u[l] = u[m]
  <2>1. ASSUME NEW k \in l..m - 1 PROVE u[k] = u[k + 1]
    <3>1. k \in 1..n - 1 /\ ~(k < l) /\ k < m
      BY <1>1, <1>3, <2>1
    <3>. QED
      BY <1>2, <1>3, <3>1
  <2>. DEFINE T == {k \in l..m : u[k] # u[l]}
  <2>2. CASE T # {}
    <3>1. T \subseteq Nat
      BY <1>1
    <3>2. PICK k \in T : \A h \in T : k <= h
      BY <2>2, <3>1, LeastNatural
    <3>3. k # l /\ k \in l..m
      BY <3>2
    <3>4. /\ k - 1 \in l..m - 1 /\ (k - 1) + 1 = k
          /\ k - 1 \in l..m /\ ~(k <= k - 1)
      BY <1>1, <3>3
    <3>5. u[k - 1] = u[l]
      BY <3>2, <3>4
    <3>6. u[k - 1] = u[k]
      BY <2>1, <3>4
    <3>. QED
      BY <3>2, <3>5, <3>6
  <2>3. CASE T = {}
    <3>1. m \in l..m
      BY <1>1, <1>3
    <3>. QED
      BY <2>3, <3>1
  <2>. QED
    BY <2>2, <2>3
<1>. HIDE DEF n
<1>4. i < j \/ j < i \/ i = j
  BY <1>1
<1>. QED
  BY <1>1, <1>3, <1>4

\* What IgnoreStale shows is what Enter would commit.
LEMMA StaleShowsAgain ==
  ASSUME Inv, Rests, InStep(session), ~Leftover(session), ~Diverged(session)
  PROVE  IgnoreStale(Before) = [Before EXCEPT !.preedit = session.preedit]
<1>. DEFINE b == Before
            Shows(text) == [b EXCEPT !.preedit = text]
            value == Commit(b, [generation |-> 0]).result
<1>1. session \in Sessions /\ Consistent(session) /\ OnScreen(session)
  BY DEF Rests, Spells, Consistent, Composed
<1>2. /\ Ready(b) /\ SameTexts(session, b) /\ b.visible = session.visible
      /\ b.preedit = <<>>
  BY BeginsReady
<1>3. /\ b \in Sessions /\ b.result = <<>> /\ b.zenz = session.zenz
  BY <1>1, <1>2 DEF Ready, Consistent, Composed, Before, NewOutput, Sessions
<1>4. ShowsAReading(session) => value = session.preedit
  BY DEF InStep, b, Before
<1>5. /\ b.deferred.on => b.zenz.pending
      /\ b.zenz.pending => IsLive(b)
      /\ HasVisibleZenz(b) => ~b.zenz.pending
  <2>1. /\ session.deferred.on => session.zenz.pending
        /\ session.zenz.pending => IsLive(session)
        /\ session.visible # NoVisible => ~session.zenz.pending
    BY DEF Inv, Good, DeferredIsLive, ZenzIsLive, VisibleIsLive
  <2>2. HasVisibleZenz(b) => session.visible # NoVisible
    BY <1>2 DEF HasVisibleZenz, NoVisible
  <2>. QED
    BY <1>2, <1>3, <2>1, <2>2 DEF SameTexts, IsLive
<1>6. ~Leftover(b) /\ ~Diverged(b)
  BY <1>2 DEF Leftover, Diverged, SameTexts
<1>7. ShowsAReading(b) <=> ShowsAReading(session)
  BY <1>2 DEF SameTexts, ShowsAReading
<1>. HIDE DEF b
<1>8. \A text : Output(b) = Shows(Plain(b)) /\ OutputZenz(b)
        = Shows(b.visible.value)
  BY DEF Output, OutputZenz
<1>9. OutputWithZenzPending(b)
        = IF HasDeferred(b) THEN Shows(b.deferred.value) ELSE Shows(Plain(b))
  <2>1. Output(b).deferred = b.deferred
    BY <1>3 DEF Output, Sessions
  <2>2. [Shows(Plain(b)) EXCEPT !.preedit = b.deferred.value]
          = Shows(b.deferred.value)
    BY <1>3 DEF Sessions
  <2>3. HasDeferred(b) => b.active /\ b.state = "CONVERSION"
    BY <1>5 DEF HasDeferred, IsLive
  <2>. QED
    BY <1>8, <2>1, <2>2, <2>3
    DEF OutputWithZenzPending, OutputDeferred, HasDeferred
<1>10. CASE ~ShowsAReading(b)
  <2>1. session.preedit = <<>> /\ Shows(<<>>) = b
    BY <1>1, <1>2, <1>3, <1>7, <1>10 DEF OnScreen, Spelling, Sessions
  <2>2. ~HasVisibleZenz(b) /\ ~HasDeferred(b) /\ ~b.zenz.pending
    BY <1>5, <1>10 DEF HasVisibleZenz, HasDeferred, IsLive, ShowsAReading
  <2>3. Plain(b) = <<>>
    BY <1>10 DEF Plain, ShowsAReading
  <2>4. b.pending /\ CanOutputPending(b) => OutputPending(b) = b
    <3>. SUFFICES ASSUME b.pending, CanOutputPending(b)
                  PROVE  OutputPending(b) = b
      OBVIOUS
    <3>. DEFINE text == Present(b.key, b.presentation, b.liveValue)
    <3>1. b.key = <<>>
      BY <1>2, <1>10 DEF Ready, Emptied
    <3>2. text \in Texts /\ Reading(text) = b.key
      <4>1. /\ b.key \in Readings /\ b.presentation \in Presentations
            /\ b.liveValue \in Texts
        BY <1>3 DEF Sessions
      <4>. QED
        BY <4>1, PresentSpells DEF CanOutputPending
    <3>3. text = <<>>
      <4>. HIDE DEF text
      <4>1. Len(text) = Len(<<>>)
        BY <3>1, <3>2, ReadingIsAReading
      <4>. QED
        BY <3>2, <4>1 DEF Texts
    <3>. QED
      BY <2>1, <3>3 DEF OutputPending
  <2>. QED
    BY <1>9, <2>1, <2>2, <2>3, <2>4 DEF IgnoreStale, b
<1>11. CASE ShowsAReading(b) /\ HasVisibleZenz(b)
  <2>1. ~HasDeferred(b)
    BY <1>5, <1>11 DEF HasDeferred
  <2>2. value = b.visible.value
    BY <1>2, <1>3, <1>11, <2>1, EnterCommits
  <2>3. IgnoreStale(b) = OutputZenz(b)
    BY <1>11 DEF IgnoreStale
  <2>. QED
    BY <1>4, <1>7, <1>8, <1>11, <2>2, <2>3 DEF b
<1>12. CASE ShowsAReading(b) /\ ~HasVisibleZenz(b) /\ b.zenz.pending
  <2>1. b.active /\ b.state = "CONVERSION"
    BY <1>5, <1>12 DEF IsLive
  <2>2. value = IF HasDeferred(b) THEN b.deferred.value ELSE Plain(b)
    BY <1>2, <1>3, <1>12, <2>1, EnterCommits
  <2>3. IgnoreStale(b) = OutputWithZenzPending(b)
    BY <1>12, <2>1 DEF IgnoreStale
  <2>. QED
    BY <1>4, <1>7, <1>9, <1>12, <2>2, <2>3 DEF b
<1>13. CASE /\ ShowsAReading(b) /\ ~HasVisibleZenz(b) /\ ~b.zenz.pending
            /\ b.pending
  <2>1. b.state = "COMPOSITION"
    BY <1>6, <1>13 DEF Leftover, ShowsAReading
  <2>2. ~HasDeferred(b)
    BY <1>5, <1>13 DEF HasDeferred
  <2>3. CanOutputPending(b)
    BY <1>2, <1>13 DEF Ready, Consistent, PendingSpells
  <2>4. value = PendingCommitText(b.key, b.presentation, b.liveValue)
    BY <1>2, <1>3, <1>13, <2>1, <2>2, EnterCommits
  <2>5. Present(b.key, b.presentation, b.liveValue) = value
    <3>1. /\ b.key \in Readings /\ b.presentation \in Presentations
          /\ b.liveValue \in Texts
      BY <1>3 DEF Sessions
    <3>2. IsPrefix(Reading(b.presentation.value), b.key)
      BY <1>6 DEF Diverged
    <3>. QED
      BY <2>3, <2>4, <3>1, <3>2, ShownAsCommitted DEF CanOutputPending
  <2>6. IgnoreStale(b) = OutputPending(b)
    BY <1>13, <2>3 DEF IgnoreStale
  <2>. QED
    BY <1>4, <1>7, <1>13, <2>5, <2>6 DEF OutputPending, b
<1>14. CASE /\ ShowsAReading(b) /\ ~HasVisibleZenz(b) /\ ~b.zenz.pending
            /\ ~b.pending
  <2>1. ~HasDeferred(b)
    BY <1>5, <1>14 DEF HasDeferred
  <2>2. value = Plain(b)
    BY <1>2, <1>3, <1>14, <2>1, EnterCommits
  <2>3. IgnoreStale(b) = OutputWithZenzPending(b)
    BY <1>14 DEF IgnoreStale
  <2>. QED
    BY <1>4, <1>7, <1>9, <1>14, <2>1, <2>2, <2>3 DEF b
<1>. QED
  BY <1>10, <1>11, <1>12, <1>13, <1>14 DEF b

\* A callback that nothing takes up, and whose timer is gone, was too late.
LEMMA StaleDispatch ==
  ASSUME Inv, Rests, Settled(session),
         NEW i \in DOMAIN timers, timers' = RemoveAt(timers, i),
         ~IsCurrent(session, timers[i]),
         InStep(session), ~Leftover(session), ~Diverged(session),
         TimerFires
  PROVE  session' = [session EXCEPT !.result = <<>>]
<1>. DEFINE b == Before
<1>1. PICK j \in DOMAIN timers, e \in Conversions \cup Replies :
        Respond(Dispatch(timers[j], e), RemoveAt(timers, j))
  BY DEF TimerFires, FireTimer
<1>. DEFINE s == Dispatch(timers[j], e)
            rest == RemoveAt(timers, j)
<1>2. /\ timers \in Seq(Callback) /\ Len(timers) \in Nat
      /\ Len(timers) <= MaxTimers /\ Held(timers) /\ session \in Sessions
  BY DEF Rests, Held, Spells, Consistent, Composed
<1>3. e.generation \in Generations
  BY <1>2, GenerationLeft, OutcomesFresh
<1>4. /\ Ready(b) /\ SameTexts(session, b) /\ b.preedit = <<>>
  BY BeginsReady
<1>5. Spells(s)
  BY <1>3, <1>4, DelayedSpells, CorrectingSpells DEF Dispatch
<1>6. /\ b \in Sessions /\ b.result = <<>> /\ b.zenz = session.zenz
      /\ b.pendingGeneration = session.pendingGeneration
      /\ b.pendingKey = session.pendingKey /\ b.callback = NoCallback
      /\ Settled(b)
      /\ [b EXCEPT !.preedit = session.preedit]
           = [session EXCEPT !.result = <<>>]
  <2>1. b \in Sessions
    BY <1>4 DEF Ready, Consistent, Composed
  <2>2. b = [session EXCEPT !.preedit = <<>>, !.result = <<>>,
                            !.callback = NoCallback]
    BY DEF Before, NewOutput
  <2>3. session.callback = NoCallback
    BY DEF Inv
  <2>4. Settled(b)
    BY <1>2, <2>2 DEF Settled, Sessions
  <2>. HIDE DEF b
  <2>. QED
    BY <1>2, <2>1, <2>2, <2>3, <2>4 DEF Sessions
<1>7. timers[j] = timers[i]
  <2>1. CASE s.callback = NoCallback
    <3>1. RemoveAt(timers, i) = RemoveAt(timers, j)
      BY <1>1, <2>1 DEF Respond, Post
    <3>. QED
      BY <1>2, <3>1, SameRemoved
  <2>2. CASE s.callback # NoCallback
    <3>1. \A l \in DOMAIN timers :
            /\ RemoveAt(timers, l) \in Seq(Callback)
            /\ Len(RemoveAt(timers, l)) = Len(timers) - 1
      <4>. TAKE l \in DOMAIN timers
      <4>1. l \in 1..Len(timers)
        BY <1>2
      <4>. QED
        BY <1>2, <4>1, RemovedLength
    <3>2. Len(rest) < MaxTimers /\ rest \in Seq(Callback)
      BY <1>2, <3>1, BoundsAssumption
    <3>3. timers' = Append(rest, s.callback)
      BY <1>1, <2>2, <3>2, BoundsAssumption DEF Respond, Post
    <3>4. s.callback \in Callback
      BY <1>5, <2>2 DEF Spells, Consistent, Composed, Sessions
    <3>. HIDE DEF rest, s
    <3>5. Len(timers') = Len(rest) + 1
      BY <3>2, <3>3, <3>4, AppendProperties
    <3>6. Len(timers') = Len(timers) - 1
      BY <3>1
    <3>7. Len(rest) = Len(timers) - 1
      BY <3>1 DEF rest
    <3>. QED
      BY <1>2, <3>5, <3>6, <3>7
  <2>. QED
    BY <2>1, <2>2
<1>8. s = IgnoreStale(b)
  <2>1. /\ IsCurrentLiveCallback(b, timers[j])
             <=> IsCurrentLiveCallback(session, timers[j])
        /\ IsCurrentZenzCallback(b, timers[j])
             <=> IsCurrentZenzCallback(session, timers[j])
    BY <1>4, <1>6 DEF IsCurrentLiveCallback, IsCurrentZenzCallback, SameTexts
  <2>2. ~IsCurrent(session, timers[j])
    BY <1>7
  <2>. QED
    BY <2>1, <2>2 DEF IsCurrent, Dispatch, ApplyDelayedLiveConversion,
       ApplyZenzLiveCorrection
<1>. DEFINE shown == [b EXCEPT !.preedit = session.preedit]
<1>9. s = shown
  BY <1>8, StaleShowsAgain
<1>. HIDE DEF b, s
<1>10. /\ shown \in Sessions /\ Settled(shown) /\ shown.result = <<>>
       /\ [shown EXCEPT !.callback = NoCallback] = shown
  BY <1>2, <1>6 DEF Settled, Sessions
<1>. HIDE DEF shown
<1>11. Settle(shown) = shown /\ Deliver(shown) = shown
  BY <1>10, SettlesOnce, NothingDelivered
<1>12. session' = shown
  BY <1>1, <1>9, <1>10, <1>11 DEF Respond, s
<1>. QED
  BY <1>6, <1>12 DEF shown

\* A new timer may evict the oldest, but there are no fewer timers than before.
LEMMA PostedLength ==
  ASSUME Held(timers), NEW callback \in Callback \cup {NoCallback}
  PROVE  Len(Post(timers, callback)) >= Len(timers)
<1>1. timers \in Seq(Callback) /\ Len(timers) \in Nat
  BY DEF Held
<1>2. CASE callback = NoCallback
  BY <1>1, <1>2 DEF Post
<1>3. CASE callback # NoCallback
  <2>. DEFINE kept == IF Len(timers) >= MaxTimers THEN Tail(timers) ELSE timers
  <2>1. kept \in Seq(Callback) /\ Len(kept) + 1 >= Len(timers)
    <3>1. CASE timers = <<>>
      BY <1>1, <3>1, BoundsAssumption
    <3>2. CASE timers # <<>>
      <4>1. Tail(timers) \in Seq(Callback) /\ Len(Tail(timers)) = Len(timers) - 1
        BY <1>1, <3>2
      <4>. QED
        BY <1>1, <4>1
    <3>. QED
      BY <3>1, <3>2
  <2>. HIDE DEF kept
  <2>2. callback \in Callback
    BY <1>3
  <2>3. Len(Append(kept, callback)) = Len(kept) + 1
    BY <2>1, <2>2, AppendProperties
  <2>4. Post(timers, callback) = Append(kept, callback)
    BY <1>3 DEF Post, kept
  <2>. QED
    BY <2>1, <2>3, <2>4
<1>. QED
  BY <1>2, <1>3

\* Session::SendKey and SendCommand (session/session.cc) leave no correction
\* asked for, visible or deferred outside a conversion: a worker that answers
\* finds a session that is converting.
THEOREM AlwaysSettled == Spec => []Settled(session)
<1>1. Init => Settled(session)
  BY DEF Init, InitialSession, Settled
<1>2. Inv /\ Rests /\ Settled(session) /\ [Next]_vars => Settled(session)'
  <2>. SUFFICES ASSUME Inv, Rests, Settled(session), [Next]_vars
                PROVE  Settled(session')
    BY DEF Settled
  <2>1. CASE UserActs
    <3>1. PICK s : Handle(s) /\ Spells(s)
      BY <2>1, UserResponds
    <3>. QED
      BY <3>1, RespondingSettles DEF Handle
  <2>2. CASE TimerFires
    <3>1. PICK s, held : Respond(s, held) /\ Spells(s)
      BY <2>2, TimerResponds
    <3>. QED
      BY <3>1, RespondingSettles
  <2>3. CASE WorkerAnswers
    <3>1. session \in Sessions
      BY DEF Rests, Spells, Consistent, Composed
    <3>2. session.corrector.status = "open" /\ session'.state = session.state
      BY <2>3, <3>1 DEF WorkerAnswers, Sessions
    <3>3. session.state = "CONVERSION"
      BY <3>2 DEF Settled, NoQuestion
    <3>. QED
      BY <3>2, <3>3 DEF Settled
  <2>4. CASE UNCHANGED vars
    BY <2>4 DEF vars
  <2>. QED
    BY <2>1, <2>2, <2>3, <2>4 DEF Next
<1>. QED
  BY <1>1, <1>2, AlwaysHandled, AlwaysSpells, PTL DEF Spec

\* A delayed command whose generation or key the session no longer waits for
\* (ApplyDelayedLiveConversion and ApplyZenzLiveCorrection, session/session.cc)
\* draws again what Enter would commit and leaves everything else alone,
\* however many keys, timers and answers came before it.
THEOREM StaleCallbacksChangeNothing == Spec => StaleCallbackChangesNothing
<1>. DEFINE A == \A i \in DOMAIN timers :
                   /\ timers' = RemoveAt(timers, i)
                   /\ ~IsCurrent(session, timers[i])
                   /\ InStep(session) /\ ~Leftover(session) /\ ~Diverged(session)
                   => session' = [session EXCEPT !.result = <<>>]
<1>1. Inv /\ Rests /\ Settled(session) /\ [Next]_vars => [A]_vars
  <2>. SUFFICES ASSUME Inv, Rests, Settled(session), [Next]_vars,
                       ~UNCHANGED vars,
                       NEW i \in DOMAIN timers, timers' = RemoveAt(timers, i),
                       ~IsCurrent(session, timers[i]),
                       InStep(session), ~Leftover(session), ~Diverged(session)
                PROVE  session' = [session EXCEPT !.result = <<>>]
    OBVIOUS
  <2>1. /\ Held(timers) /\ Len(timers) \in Nat
        /\ Len(timers') = Len(timers) - 1
    <3>1. timers \in Seq(Callback) /\ i \in 1..Len(timers)
      BY DEF Rests, Held
    <3>. QED
      BY <3>1, RemovedLength DEF Rests
  <2>2. CASE TimerFires
    BY <2>2, StaleDispatch
  <2>3. CASE UserActs
    <3>1. PICK s : Handle(s) /\ Spells(s)
      BY <2>3, UserResponds
    <3>2. s.callback \in Callback \cup {NoCallback}
      BY <3>1 DEF Spells, Consistent, Composed, Sessions
    <3>3. timers' = Post(timers, s.callback)
      BY <3>1 DEF Handle, Respond
    <3>4. Len(timers') >= Len(timers)
      BY <2>1, <3>2, <3>3, PostedLength
    <3>. QED
      BY <2>1, <3>4
  <2>4. CASE WorkerAnswers
    BY <2>1, <2>4 DEF WorkerAnswers
  <2>. QED
    BY <2>2, <2>3, <2>4 DEF Next
<1>. QED
  BY <1>1, AlwaysHandled, AlwaysSpells, AlwaysSettled, PTL
  DEF Spec, StaleCallbackChangesNothing
=============================================================================
