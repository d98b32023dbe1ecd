--------------------------- MODULE LruCache_proofs ---------------------------
(***************************************************************************)
(* Proofs about the pointers of lru_cache.h, for a cache of any number of  *)
(* elements (allocated at once, as LruCache has it) and any keys.          *)
(*                                                                         *)
(* A cache Represents three sequences: list, the elements in use, ks,      *)
(* their keys, and spare, the elements that are free.  Each operation is   *)
(* shown to lead from what represents some sequences to what represents    *)
(* those its comment says; Order, which follows the pointers, then finds   *)
(* list again.  Induction along a sequence is a lemma, UpTo, about a set   *)
(* of numbers, so that every proof here is first-order.                    *)
(***************************************************************************)
EXTENDS LruCache, FiniteSetTheorems, SequenceTheorems, TLAPS

-----------------------------------------------------------------------------
\* The least element principle, from the well-foundedness of strict inclusion
\* among finite sets: what the inductions below rest on.
LEMMA LeastNatural ==
  ASSUME NEW S \in SUBSET Nat, S # {}
  PROVE  \E n \in S : \A m \in S : n <= m
<1>. DEFINE Below(n) == 0 .. (n - 1)
            R == StrictSubsetOrdering(Nat)
            T == {Below(n) : n \in S}
<1>1. T \subseteq FiniteSubsetsOf(Nat)
  <2>. SUFFICES ASSUME NEW n \in S PROVE Below(n) \in FiniteSubsetsOf(Nat)
    OBVIOUS
  <2>1. IsFiniteSet(0 .. (n - 1))
    BY FS_Interval
  <2>. QED
    BY <2>1 DEF FiniteSubsetsOf
<1>2. IsWellFoundedOn(R, FiniteSubsetsOf(Nat))
  BY FS_StrictSubsetOrderingWellFounded
<1>3. T # {}
  OBVIOUS
<1>4. PICK x \in T : \A y \in T : <<y, x>> \notin R
  <2>. HIDE DEF T, R
  <2>. QED
    BY <1>1, <1>2, <1>3, WFMin
<1>5. PICK n \in S : x = Below(n)
  OBVIOUS
<1>6. ASSUME NEW m \in S, m < n PROVE FALSE
  <2>1. Below(m) \in T /\ <<Below(m), x>> \notin R
    BY <1>4
  <2>2. Below(m) \subseteq Below(n) /\ m \in Below(n) /\ m \notin Below(m)
    BY <1>6
  <2>3. <<Below(m), Below(n)>> \in R
    BY <2>2 DEF StrictSubsetOrdering
  <2>. QED
    BY <2>1, <2>3, <1>5
<1>. QED
  BY <1>6
\* Induction along an initial segment.
LEMMA UpTo ==
  ASSUME NEW n \in Nat, NEW P, 0 \in P,
         \A i \in 1 .. n : i - 1 \in P => i \in P
  PROVE  \A i \in 0 .. n : i \in P
<1>. DEFINE bad == {i \in 0 .. n : i \notin P}
<1>1. bad \in SUBSET Nat
  OBVIOUS
<1>. SUFFICES ASSUME bad # {} PROVE FALSE
  OBVIOUS
<1>2. PICK i \in bad : \A j \in bad : i <= j
  <2>. HIDE DEF bad
  <2>. QED
    BY <1>1, LeastNatural
<1>3. i \in 0 .. n /\ i \notin P
  OBVIOUS
<1>4. i \in 1 .. n
  BY <1>3
<1>5. i - 1 \in 0 .. n /\ ~(i <= i - 1)
  BY <1>4
<1>6. i - 1 \notin bad
  BY <1>2, <1>5
<1>. QED
  BY <1>3, <1>4, <1>5, <1>6

\* The values a recursive function takes, each by a step from the one before.
Steps(n, S) == [1 .. n -> [S -> S]]

Takes(f, n, S, first, G) ==
  /\ f \in [0 .. n -> S]
  /\ f[0] = first
  /\ \A i \in 1 .. n : f[i] = G[i][f[i - 1]]

\* There is such a function.
LEMMA Recursion ==
  ASSUME NEW S, NEW n \in Nat, NEW first \in S, NEW G \in Steps(n, S)
  PROVE  \E f : Takes(f, n, S, first, G)
<1>. USE DEF Steps
<1>. DEFINE Is(f, m) == /\ f \in [0 .. m -> S] /\ f[0] = first
                        /\ \A i \in 1 .. m : f[i] = G[i][f[i - 1]]
            P == {m \in 0 .. n : \E f : Is(f, m)}
<1>1. 0 \in P
  <2>. DEFINE f == [i \in 0 .. 0 |-> first]
  <2>1. Is(f, 0)
    OBVIOUS
  <2>. HIDE DEF Is, f
  <2>. QED
    BY <2>1
<1>2. ASSUME NEW i \in 1 .. n, i - 1 \in P PROVE i \in P
  <2>1. PICK f : Is(f, i - 1)
    BY <1>2
  <2>. DEFINE g == [j \in 0 .. i |-> IF j = i THEN G[i][f[i - 1]] ELSE f[j]]
  <2>2. f[i - 1] \in S /\ G[i] \in [S -> S]
    BY <2>1
  <2>3. g \in [0 .. i -> S]
    BY <2>1, <2>2
  <2>4. g[0] = first
    BY <2>1
  <2>5. ASSUME NEW j \in 1 .. i PROVE g[j] = G[j][g[j - 1]]
    <3>1. CASE j = i
      BY <3>1
    <3>2. CASE j # i
      <4>1. j \in 1 .. i - 1 /\ g[j] = f[j] /\ g[j - 1] = f[j - 1]
        BY <3>2
      <4>. QED
        BY <4>1, <2>1
    <3>. QED
      BY <3>1, <3>2
  <2>6. Is(g, i)
    BY <2>3, <2>4, <2>5
  <2>. HIDE DEF Is, g
  <2>. QED
    BY <2>6
<1>3. \A i \in 0 .. n : i \in P
  <2>. HIDE DEF P
  <2>. QED
    BY <1>1, <1>2, UpTo
<1>4. n \in P
  BY <1>3
<1>. QED
  BY <1>4 DEF Takes

\* Sequences without repetition.
Distinct(s) == \A i, j \in DOMAIN s : s[i] = s[j] => i = j

Strings(S) == {s \in Seq(S) : Distinct(s)}

Without(s, p) == [i \in 1 .. Len(s) - 1 |-> IF i < p THEN s[i] ELSE s[i + 1]]

Pushed(x, s) == [i \in 1 .. Len(s) + 1 |-> IF i = 1 THEN x ELSE s[i - 1]]

\* A function on an initial segment is a sequence.
LEMMA FunctionIsSeq ==
  ASSUME NEW S, NEW n \in Nat, NEW f \in [1 .. n -> S]
  PROVE  f \in Seq(S) /\ Len(f) = n /\ DOMAIN f = 1 .. n
BY SeqDef, LenProperties

\* A string without one of its elements is one.
LEMMA WithoutOne ==
  ASSUME NEW S, NEW s \in Strings(S), NEW p \in DOMAIN s
  PROVE  /\ Without(s, p) \in Strings(S)
         /\ Len(Without(s, p)) = Len(s) - 1
         /\ DOMAIN Without(s, p) = 1 .. Len(s) - 1
         /\ RangeOf(Without(s, p)) = RangeOf(s) \ {s[p]}
         /\ Without(s, p) = << >> <=> Len(s) = 1
         /\ \A i \in 1 .. Len(s) - 1 :
              Without(s, p)[i] = IF i < p THEN s[i] ELSE s[i + 1]
<1>. DEFINE t == Without(s, p)
<1>1. s \in Seq(S) /\ Len(s) \in Nat /\ Len(s) - 1 \in Nat /\ p \in 1 .. Len(s)
      /\ DOMAIN s = 1 .. Len(s)
  BY DEF Strings
<1>2. t \in [1 .. Len(s) - 1 -> S]
  BY <1>1 DEF Without
<1>3. t \in Seq(S) /\ Len(t) = Len(s) - 1 /\ DOMAIN t = 1 .. Len(s) - 1
  BY <1>1, <1>2, FunctionIsSeq
<1>4. Distinct(t)
  <2>. SUFFICES ASSUME NEW i \in DOMAIN t, NEW j \in DOMAIN t, t[i] = t[j]
                PROVE  i = j
    BY DEF Distinct
  <2>1. /\ t[i] = s[IF i < p THEN i ELSE i + 1]
        /\ t[j] = s[IF j < p THEN j ELSE j + 1]
    BY <1>3 DEF Without
  <2>. DEFINE k == IF i < p THEN i ELSE i + 1
              l == IF j < p THEN j ELSE j + 1
  <2>2. k \in DOMAIN s /\ l \in DOMAIN s /\ i \in Nat /\ j \in Nat
    BY <1>1, <1>3
  <2>3. s[k] = s[l]
    BY <2>1
  <2>. HIDE DEF k, l
  <2>4. k = l
    BY <2>2, <2>3 DEF Strings, Distinct
  <2>. QED
    BY <2>2, <2>4, <1>1 DEF k, l
<1>5. RangeOf(t) = RangeOf(s) \ {s[p]}
  <2>1. ASSUME NEW i \in DOMAIN t PROVE t[i] \in RangeOf(s) \ {s[p]}
    <3>1. t[i] = IF i < p THEN s[i] ELSE s[i + 1]
      BY <1>3 DEF Without
    <3>2. i \in DOMAIN s /\ i + 1 \in DOMAIN s
      BY <1>1, <1>3
    <3>. QED
      BY <3>1, <3>2, <1>1 DEF Strings, Distinct, RangeOf
  <2>2. ASSUME NEW i \in DOMAIN s, i # p PROVE s[i] \in RangeOf(t)
    <3>1. CASE i < p
      BY <1>1, <1>3, <3>1 DEF Without, RangeOf
    <3>2. CASE i > p
      <4>1. i - 1 \in DOMAIN t /\ ~(i - 1 < p) /\ (i - 1) + 1 = i
        BY <1>1, <1>3, <3>2
      <4>2. t[i - 1] = s[i]
        BY <4>1, <1>3 DEF Without
      <4>. QED
        BY <4>1, <4>2 DEF RangeOf
    <3>. QED
      BY <1>1, <2>2, <3>1, <3>2
  <2>. QED
    BY <2>1, <2>2 DEF RangeOf
<1>6. t = << >> <=> Len(s) = 1
  BY <1>1, <1>3, EmptySeq
<1>7. \A i \in 1 .. Len(s) - 1 : t[i] = IF i < p THEN s[i] ELSE s[i + 1]
  BY DEF Without
<1>. QED
  BY <1>3, <1>4, <1>5, <1>6, <1>7 DEF Strings

\* A string with a new element in front is one.
LEMMA PushedOne ==
  ASSUME NEW S, NEW s \in Strings(S), NEW x \in S
  PROVE  /\ Len(Pushed(x, s)) = Len(s) + 1
         /\ DOMAIN Pushed(x, s) = 1 .. Len(s) + 1
         /\ Pushed(x, s) \in Seq(S)
         /\ Pushed(x, s) # << >>
         /\ RangeOf(Pushed(x, s)) = RangeOf(s) \cup {x}
         /\ x \notin RangeOf(s) => Pushed(x, s) \in Strings(S)
<1>. DEFINE t == Pushed(x, s)
<1>1. s \in Seq(S) /\ Len(s) \in Nat /\ Len(s) + 1 \in Nat
      /\ DOMAIN s = 1 .. Len(s)
  BY DEF Strings
<1>2. t \in [1 .. Len(s) + 1 -> S]
  BY <1>1 DEF Pushed
<1>3. t \in Seq(S) /\ Len(t) = Len(s) + 1 /\ DOMAIN t = 1 .. Len(s) + 1
  BY <1>1, <1>2, FunctionIsSeq
<1>4. t[1] = x /\ 1 \in DOMAIN t
  BY <1>1, <1>3 DEF Pushed
<1>5. ASSUME NEW i \in DOMAIN t, i # 1
      PROVE  t[i] = s[i - 1] /\ i - 1 \in DOMAIN s
  BY <1>1, <1>3, <1>5 DEF Pushed
<1>6. ASSUME NEW i \in DOMAIN s
      PROVE  t[i + 1] = s[i] /\ i + 1 \in DOMAIN t
  BY <1>1, <1>3, <1>6 DEF Pushed
<1>7. RangeOf(t) = RangeOf(s) \cup {x}
  BY <1>4, <1>5, <1>6 DEF RangeOf
<1>8. ASSUME x \notin RangeOf(s) PROVE Distinct(t)
  <2>. SUFFICES ASSUME NEW i \in DOMAIN t, NEW j \in DOMAIN t, t[i] = t[j],
                       i # j
                PROVE  FALSE
    BY DEF Distinct
  <2>1. CASE i = 1 \/ j = 1
    BY <2>1, <1>4, <1>5, <1>8 DEF RangeOf
  <2>2. CASE i # 1 /\ j # 1
    BY <2>2, <1>1, <1>3, <1>5 DEF Strings, Distinct
  <2>. QED
    BY <2>1, <2>2
<1>. QED
  BY <1>1, <1>3, <1>7, <1>8 DEF Strings
-----------------------------------------------------------------------------
FirstOf(s) == IF s = << >> THEN Nil ELSE s[1]
LastOf(s) == IF s = << >> THEN Nil ELSE s[Len(s)]
After(s, i) == IF i = Len(s) THEN Nil ELSE s[i + 1]
Before(s, i) == IF i = 1 THEN Nil ELSE s[i - 1]

Tables(n, keys) == UNION {[D -> 1 .. n] : D \in SUBSET keys}

Caches(n, keys) ==
  [table : Tables(n, keys), block : BOOLEAN,
   free : (1 .. n) \cup {Nil}, head : (1 .. n) \cup {Nil},
   tail : (1 .. n) \cup {Nil}, next : [1 .. n -> (1 .. n) \cup {Nil}],
   prev : [1 .. n -> (1 .. n) \cup {Nil}]]

\* The links of a cache make one list of elements and another of spare ones.
Links(c, n, list, spare) ==
  /\ list \in Strings(1 .. n) /\ spare \in Strings(1 .. n)
  /\ RangeOf(list) \cap RangeOf(spare) = {}
  /\ c.head = FirstOf(list) /\ c.tail = LastOf(list) /\ c.free = FirstOf(spare)
  /\ \A i \in DOMAIN list :
       c.next[list[i]] = After(list, i) /\ c.prev[list[i]] = Before(list, i)
  /\ \A i \in DOMAIN spare : c.next[spare[i]] = After(spare, i)
  /\ \A e \in 1 .. n : e \notin RangeOf(list) =>
       /\ c.prev[e] = Nil
       /\ e \notin RangeOf(spare) => c.next[e] = Nil

\* RemoveFromLRU() takes an element out of the list in use.
LEMMA RemoveFromLRULinks ==
  ASSUME NEW n \in Nat, NEW keys, Nil \notin 1 .. n,
         NEW c \in Caches(n, keys), NEW list, NEW spare,
         Links(c, n, list, spare), NEW p \in DOMAIN list
  PROVE  LET d == RemoveFromLRU(c, list[p])
         IN  /\ d \in Caches(n, keys)
             /\ d.table = c.table /\ d.block = c.block
             /\ Links(d, n, Without(list, p), spare)
<1>. DEFINE e == list[p]
            d == RemoveFromLRU(c, e)
            rest == Without(list, p)
            l == Len(list)
<1>1. /\ list \in Strings(1 .. n) /\ spare \in Strings(1 .. n)
      /\ l \in Nat /\ DOMAIN list = 1 .. l /\ p \in 1 .. l
      /\ e \in 1 .. n /\ list # << >> /\ e # Nil /\ Len(list) = l
  BY DEF Links, Strings
<1>2. /\ c.next[e] = After(list, p) /\ c.prev[e] = Before(list, p)
      /\ c.head = list[1] /\ c.tail = list[l]
  BY <1>1 DEF Links, FirstOf, LastOf
<1>3. /\ d \in Caches(n, keys) /\ d.table = c.table /\ d.block = c.block
      /\ d.free = c.free
      /\ d.head = IF c.head = e THEN c.next[e] ELSE c.head
      /\ d.tail = IF c.tail = e THEN c.prev[e] ELSE c.tail
      /\ \A x \in 1 .. n :
           /\ d.next[x] = CASE x = e -> Nil
                            [] x = c.prev[e] -> c.next[e]
                            [] OTHER -> c.next[x]
           /\ d.prev[x] = CASE x = e -> Nil
                            [] x = c.next[e] -> c.prev[e]
                            [] OTHER -> c.prev[x]
  BY <1>1 DEF RemoveFromLRU, Caches, Elements
<1>4. /\ rest \in Strings(1 .. n) /\ Len(rest) = l - 1
      /\ DOMAIN rest = 1 .. l - 1 /\ RangeOf(rest) = RangeOf(list) \ {e}
      /\ \A i \in 1 .. l - 1 : rest[i] = IF i < p THEN list[i] ELSE list[i + 1]
      /\ rest = << >> <=> l = 1
  <2>1. list \in Strings(1 .. n) /\ p \in DOMAIN list
    BY <1>1
  <2>. QED
    BY ONLY <2>1, WithoutOne
<1>. HIDE DEF d, rest, e, l
<1>5. \A i, j \in 1 .. l : list[i] = list[j] => i = j
  BY <1>1 DEF Strings, Distinct
<1>6. d.head = FirstOf(rest) /\ d.tail = LastOf(rest)
  <2>1. d.head = FirstOf(rest)
    <3>1. CASE p = 1
      <4>1. d.head = After(list, 1)
        BY <1>2, <1>3, <3>1 DEF e
      <4>2. CASE l = 1
        BY <4>1, <4>2, <1>1, <1>4 DEF After, FirstOf
      <4>3. CASE l # 1
        <5>1. rest[1] = list[2] /\ rest # << >>
          BY <1>1, <1>4, <3>1, <4>3
        <5>. QED
          BY <4>1, <4>3, <5>1, <1>1 DEF After, FirstOf
      <4>. QED
        BY <4>2, <4>3
    <3>2. CASE p # 1
      <4>1. list[1] # e /\ rest # << >> /\ rest[1] = list[1]
        BY <1>1, <1>4, <1>5, <3>2 DEF e
      <4>. QED
        BY <4>1, <1>2, <1>3 DEF FirstOf
    <3>. QED
      BY <3>1, <3>2
  <2>2. d.tail = LastOf(rest)
    <3>1. CASE p = l
      <4>1. d.tail = Before(list, l)
        BY <1>2, <1>3, <3>1 DEF e
      <4>2. CASE l = 1
        BY <4>1, <4>2, <1>4 DEF Before, LastOf
      <4>3. CASE l # 1
        <5>1. rest[l - 1] = list[l - 1] /\ rest # << >>
          BY <1>1, <1>4, <3>1, <4>3
        <5>. QED
          BY <4>1, <4>3, <5>1, <1>4 DEF Before, LastOf
      <4>. QED
        BY <4>2, <4>3
    <3>2. CASE p # l
      <4>1. list[l] # e /\ rest # << >> /\ rest[l - 1] = list[l]
        BY <1>1, <1>4, <1>5, <3>2 DEF e
      <4>. QED
        BY <4>1, <1>2, <1>3, <1>4 DEF LastOf
    <3>. QED
      BY <3>1, <3>2
  <2>. QED
    BY <2>1, <2>2
<1>7. ASSUME NEW i \in 1 .. l - 1
      PROVE  d.next[rest[i]] = After(rest, i)
             /\ d.prev[rest[i]] = Before(rest, i)
  <2>. DEFINE k == IF i < p THEN i ELSE i + 1
  <2>1. k \in 1 .. l /\ k # p /\ rest[i] = list[k] /\ i \in Nat
        /\ (i < p <=> k < p)
    BY <1>1, <1>4, <1>7
  <2>2. list[k] \in 1 .. n /\ list[k] # e /\ list[k] # Nil
    BY <2>1, <1>1, <1>5 DEF Strings, e
  <2>3. /\ d.next[list[k]] = IF list[k] = Before(list, p) THEN After(list, p)
                             ELSE After(list, k)
        /\ d.prev[list[k]] = IF list[k] = After(list, p) THEN Before(list, p)
                             ELSE Before(list, k)
    BY <1>1, <1>2, <1>3, <2>1, <2>2 DEF Links
  <2>4. list[k] = Before(list, p) <=> k = p - 1
    BY <1>1, <1>5, <2>1, <2>2 DEF Before
  <2>5. list[k] = After(list, p) <=> k = p + 1
    BY <1>1, <1>5, <2>1, <2>2 DEF After
  <2>6. After(rest, i) = IF k = p - 1 THEN After(list, p) ELSE After(list, k)
    <3>1. CASE i = l - 1
      BY <3>1, <1>1, <1>4, <2>1 DEF After
    <3>2. CASE i # l - 1
      <4>1. i + 1 \in 1 .. l - 1 /\ After(rest, i) = rest[i + 1]
        BY <3>2, <1>1, <1>4, <1>7 DEF After
      <4>2. rest[i + 1] = IF i + 1 < p THEN list[i + 1] ELSE list[i + 2]
        BY <4>1, <1>4, <1>1
      <4>3. i + 1 # l /\ i + 2 \in 1 .. l /\ p <= l
        BY <3>2, <1>1, <1>7
      <4>. QED
        BY <4>1, <4>2, <4>3, <1>1, <2>1 DEF After
    <3>. QED
      BY <3>1, <3>2
  <2>7. Before(rest, i) = IF k = p + 1 THEN Before(list, p)
                          ELSE Before(list, k)
    BY <1>1, <1>4, <2>1 DEF Before
  <2>. QED
    BY <2>1, <2>3, <2>4, <2>5, <2>6, <2>7
<1>8. ASSUME NEW x \in 1 .. n, x \notin RangeOf(list)
      PROVE  d.next[x] = c.next[x] /\ d.prev[x] = c.prev[x] /\ x # e
  <2>1. x # e /\ x # Nil /\ \A i \in 1 .. l : x # list[i]
    BY <1>1, <1>8 DEF RangeOf, e
  <2>2. x # c.next[e] /\ x # c.prev[e]
    BY <1>1, <1>2, <2>1 DEF After, Before
  <2>. QED
    BY <1>3, <2>1, <2>2
<1>9. ASSUME NEW i \in DOMAIN spare
      PROVE  d.next[spare[i]] = After(spare, i)
  <2>1. spare[i] \in 1 .. n /\ spare[i] \notin RangeOf(list)
    <3>1. spare \in Seq(1 .. n) /\ spare[i] \in RangeOf(spare)
      BY <1>1 DEF RangeOf, Strings
    <3>. QED
      BY <3>1 DEF Links
  <2>2. c.next[spare[i]] = After(spare, i)
    BY DEF Links
  <2>. QED
    BY <1>8, <2>1, <2>2
<1>10. ASSUME NEW x \in 1 .. n, x \notin RangeOf(rest)
       PROVE  d.prev[x] = Nil /\ (x \notin RangeOf(spare) => d.next[x] = Nil)
  <2>1. CASE x = e
    <3>1. d.prev[x] = (CASE x = e -> Nil
                        [] x = c.next[e] -> c.prev[e]
                        [] OTHER -> c.prev[x])
          /\ d.next[x] = (CASE x = e -> Nil
                        [] x = c.prev[e] -> c.next[e]
                        [] OTHER -> c.next[x])
      BY <1>3
    <3>2. c.next[e] # e /\ c.prev[e] # e
      BY <1>1, <1>2, <1>5 DEF After, Before, e
    <3>. QED
      BY <3>1, <3>2, <2>1
  <2>2. CASE x # e
    BY <1>4, <1>8, <1>10, <2>2 DEF Links
  <2>. QED
    BY <2>1, <2>2
<1>11. RangeOf(rest) \cap RangeOf(spare) = {}
  BY <1>4 DEF Links
<1>. USE DEF l
<1>12. Links(d, n, rest, spare)
  BY <1>1, <1>3, <1>4, <1>6, <1>7, <1>9, <1>10, <1>11 DEF Links
<1>. QED
  BY <1>3, <1>12 DEF d, rest, e
-----------------------------------------------------------------------------
\* What PushLRUHead() does with an element once it is in neither list.
InFront(c, n, e) ==
  [c EXCEPT !.next[e] = c.head, !.head = e,
            !.prev = [x \in 1 .. n |-> IF x = c.head THEN e ELSE c.prev[x]],
            !.tail = IF c.tail = Nil THEN e ELSE c.tail]

\* The part of PushLRUHead() that links an element in front of the list.
LEMMA InFrontLinks ==
  ASSUME NEW n \in Nat, NEW keys, Nil \notin 1 .. n,
         NEW c \in Caches(n, keys), NEW list, NEW spare,
         Links(c, n, list, spare),
         NEW e \in 1 .. n, e \notin RangeOf(list), e \notin RangeOf(spare)
  PROVE  LET d == InFront(c, n, e)
         IN  /\ d \in Caches(n, keys)
             /\ d.table = c.table /\ d.block = c.block
             /\ Links(d, n, Pushed(e, list), spare)
<1>. DEFINE d == InFront(c, n, e)
            more == Pushed(e, list)
            l == Len(list)
<1>1. /\ list \in Strings(1 .. n) /\ spare \in Strings(1 .. n)
      /\ l \in Nat /\ DOMAIN list = 1 .. l /\ Len(list) = l
      /\ e # Nil /\ \A i \in 1 .. l : list[i] \in 1 .. n /\ list[i] # e
      /\ (list = << >> <=> l = 0)
      /\ \A i, j \in 1 .. l : list[i] = list[j] => i = j
  <2>1. list \in Strings(1 .. n) /\ spare \in Strings(1 .. n)
    BY DEF Links
  <2>. QED
    BY <2>1, EmptySeq DEF Strings, Distinct, RangeOf
<1>2. /\ d \in Caches(n, keys) /\ d.table = c.table /\ d.block = c.block
      /\ d.free = c.free /\ d.head = e
      /\ d.tail = IF c.tail = Nil THEN e ELSE c.tail
      /\ \A x \in 1 .. n :
           /\ d.next[x] = IF x = e THEN c.head ELSE c.next[x]
           /\ d.prev[x] = IF x = c.head THEN e ELSE c.prev[x]
  BY DEF InFront, Caches
<1>3. /\ more \in Strings(1 .. n) /\ Len(more) = l + 1
      /\ DOMAIN more = 1 .. l + 1 /\ RangeOf(more) = RangeOf(list) \cup {e}
      /\ more # << >>
  BY <1>1, PushedOne
<1>4. \A i \in 1 .. l + 1 : more[i] = IF i = 1 THEN e ELSE list[i - 1]
  BY DEF Pushed
<1>. HIDE DEF d, more, l
<1>5. d.head = FirstOf(more) /\ d.tail = LastOf(more)
  <2>1. d.head = FirstOf(more)
    BY <1>1, <1>2, <1>3, <1>4 DEF FirstOf
  <2>2. CASE l = 0
    <3>1. c.tail = Nil /\ more[l + 1] = e
      BY <2>2, <1>1, <1>4 DEF Links, LastOf
    <3>. QED
      BY <3>1, <2>1, <1>2, <1>3 DEF LastOf
  <2>3. CASE l # 0
    <3>1. c.tail = list[l] /\ list[l] # Nil /\ more[l + 1] = list[l]
      BY <2>3, <1>1, <1>4 DEF Links, LastOf
    <3>. QED
      BY <3>1, <2>1, <1>2, <1>3 DEF LastOf
  <2>. QED
    BY <2>1, <2>2, <2>3
<1>6. ASSUME NEW i \in 1 .. l + 1
      PROVE  d.next[more[i]] = After(more, i)
             /\ d.prev[more[i]] = Before(more, i)
  <2>1. CASE i = 1
    <3>1. more[1] = e /\ d.next[e] = c.head /\ c.prev[e] = Nil /\ c.head # e
      BY <1>1, <1>2, <1>4, <2>1 DEF Links, FirstOf
    <3>2. d.prev[e] = Nil
      BY <1>2, <3>1
    <3>3. After(more, 1) = IF l = 0 THEN Nil ELSE list[1]
      BY <1>1, <1>3, <1>4 DEF After
    <3>4. c.head = IF l = 0 THEN Nil ELSE list[1]
      BY <1>1 DEF Links, FirstOf
    <3>. QED
      BY <3>1, <3>2, <3>3, <3>4, <2>1 DEF Before
  <2>2. CASE i # 1
    <3>. DEFINE k == i - 1
    <3>1. k \in 1 .. l /\ more[i] = list[k] /\ list[k] # e /\ list # << >>
          /\ list[k] \in 1 .. n
      BY <1>1, <1>4, <1>6, <2>2
    <3>2. /\ d.next[list[k]] = After(list, k)
          /\ d.prev[list[k]] = IF list[k] = list[1] THEN e ELSE Before(list, k)
      BY <1>1, <1>2, <3>1 DEF Links, FirstOf
    <3>3. After(more, i) = After(list, k)
      <4>1. CASE i = l + 1
        BY <4>1, <1>1, <1>3 DEF After
      <4>2. CASE i # l + 1
        <5>1. i + 1 \in 1 .. l + 1 /\ i + 1 # 1 /\ (i + 1) - 1 = k + 1 /\ k # l
          BY <4>2, <1>1, <1>6
        <5>2. more[i + 1] = list[k + 1]
          BY <5>1, <1>4
        <5>. QED
          BY <5>1, <5>2, <4>2, <1>1, <1>3 DEF After
      <4>. QED
        BY <4>1, <4>2
    <3>4. list[k] = list[1] <=> k = 1
      BY <1>1, <3>1
    <3>5. Before(more, i) = IF k = 1 THEN e ELSE Before(list, k)
      BY <1>1, <1>4, <1>6, <2>2, <3>1 DEF Before
    <3>. QED
      BY <3>1, <3>2, <3>3, <3>4, <3>5
  <2>. QED
    BY <2>1, <2>2
<1>7. ASSUME NEW x \in 1 .. n, x \notin RangeOf(more)
      PROVE  d.next[x] = c.next[x] /\ d.prev[x] = c.prev[x]
             /\ x \notin RangeOf(list)
  <2>1. x # e /\ x \notin RangeOf(list)
    BY <1>3, <1>7
  <2>2. x # c.head
    BY <2>1, <1>1 DEF Links, FirstOf, RangeOf
  <2>. QED
    BY <2>1, <2>2, <1>2
<1>8. RangeOf(more) \cap RangeOf(spare) = {}
  BY <1>3 DEF Links
<1>9. ASSUME NEW i \in DOMAIN spare
      PROVE  d.next[spare[i]] = After(spare, i)
  <2>1. spare \in Seq(1 .. n) /\ spare[i] \in RangeOf(spare)
    BY <1>1 DEF RangeOf, Strings
  <2>2. spare[i] \in 1 .. n /\ c.next[spare[i]] = After(spare, i)
    BY <2>1 DEF Links
  <2>. QED
    BY <1>7, <1>8, <2>1, <2>2
<1>10. ASSUME NEW x \in 1 .. n, x \notin RangeOf(more)
       PROVE  d.prev[x] = Nil /\ (x \notin RangeOf(spare) => d.next[x] = Nil)
  BY <1>7, <1>10 DEF Links
<1>11. Links(d, n, more, spare)
  <2>1. d.free = FirstOf(spare)
    BY <1>2 DEF Links
  <2>. QED
    BY <2>1, <1>1, <1>3, <1>5, <1>6, <1>8, <1>9, <1>10 DEF Links
<1>. QED
  BY <1>2, <1>11 DEF d, more

\* PushLRUHead() of the head, of another element in use, of an unlinked one.
LEMMA PushLRUHeadLinks ==
  ASSUME NEW n \in Nat, NEW keys, Nil \notin 1 .. n,
         NEW c \in Caches(n, keys), NEW list, NEW spare,
         Links(c, n, list, spare)
  PROVE  /\ \A p \in DOMAIN list :
              LET d == PushLRUHead(c, list[p])
              IN  /\ d \in Caches(n, keys)
                  /\ d.table = c.table /\ d.block = c.block
                  /\ Links(d, n, Pushed(list[p], Without(list, p)), spare)
         /\ \A e \in 1 .. n :
              e \notin RangeOf(list) /\ e \notin RangeOf(spare) =>
              LET d == PushLRUHead(c, e)
              IN  /\ d \in Caches(n, keys)
                  /\ d.table = c.table /\ d.block = c.block
                  /\ Links(d, n, Pushed(e, list), spare)
<1>1. /\ list \in Strings(1 .. n) /\ spare \in Strings(1 .. n)
      /\ Len(list) \in Nat /\ DOMAIN list = 1 .. Len(list)
      /\ \A i \in DOMAIN list : list[i] \in 1 .. n
  BY DEF Links, Strings
<1>2. ASSUME NEW e, NEW r \in Caches(n, keys), r = RemoveFromLRU(c, e),
             c.head # e
      PROVE  PushLRUHead(c, e) = InFront(r, n, e)
  <2>1. Elements(c) = 1 .. n
    BY DEF Caches, Elements
  <2>2. PushLRUHead(c, e) =
          [r EXCEPT !.next[e] = r.head, !.head = e,
                    !.prev = [x \in 1 .. n |->
                                IF x = r.head THEN e ELSE @[x]],
                    !.tail = IF @ = Nil THEN e ELSE @]
    BY <1>2, <2>1 DEF PushLRUHead
  <2>. QED
    BY <2>2 DEF InFront, Caches
<1>3. ASSUME NEW p \in DOMAIN list
      PROVE  LET d == PushLRUHead(c, list[p])
              IN  /\ d \in Caches(n, keys)
                  /\ d.table = c.table /\ d.block = c.block
                  /\ Links(d, n, Pushed(list[p], Without(list, p)), spare)
  <2>. DEFINE e == list[p]
              r == RemoveFromLRU(c, e)
              rest == Without(list, p)
  <2>1. CASE p # 1
    <3>1. list[1] # e /\ list # << >>
      <4>1. 1 \in DOMAIN list /\ Distinct(list)
        BY <1>1 DEF Strings
      <4>2. list # << >>
        BY <4>1
      <4>. QED
        BY <4>1, <4>2, <2>1 DEF Distinct
    <3>2. c.head # e
      BY <3>1 DEF Links, FirstOf
    <3>3. /\ r \in Caches(n, keys) /\ r.table = c.table /\ r.block = c.block
          /\ Links(r, n, rest, spare)
      BY RemoveFromLRULinks
    <3>4. RangeOf(rest) = RangeOf(list) \ {e}
      BY <1>1, WithoutOne
    <3>5. e \in 1 .. n /\ e \in RangeOf(list) /\ e \notin RangeOf(spare)
      BY <1>1 DEF Links, RangeOf
    <3>6. PushLRUHead(c, e) = InFront(r, n, e)
      BY <1>2, <3>2, <3>3
    <3>. HIDE DEF r, e, rest
    <3>7. /\ InFront(r, n, e) \in Caches(n, keys)
          /\ InFront(r, n, e).table = r.table
          /\ InFront(r, n, e).block = r.block
          /\ Links(InFront(r, n, e), n, Pushed(e, rest), spare)
      BY <3>3, <3>4, <3>5, InFrontLinks
    <3>. QED
      BY <3>3, <3>6, <3>7 DEF e, rest
  <2>2. CASE p = 1
    <3>1. list # << >> /\ c.head = e
      BY <1>1, <2>2 DEF Links, FirstOf
    <3>2. PushLRUHead(c, e) = c
      BY <3>1 DEF PushLRUHead
    <3>3. Pushed(e, rest) = list
      <4>1. Len(rest) = Len(list) - 1
        BY <1>1, WithoutOne
      <4>2. \A i \in 1 .. Len(list) : i # 1 => rest[i - 1] = list[i]
        BY <1>1, <2>2 DEF Without
      <4>3. Len(rest) + 1 = Len(list)
        BY <1>1, <4>1
      <4>4. Pushed(e, rest) = [i \in 1 .. Len(list) |-> list[i]]
        BY <4>2, <4>3, <2>2 DEF Pushed
      <4>. QED
        BY <4>4, <1>1 DEF Strings
    <3>. QED
      BY <3>2, <3>3
  <2>. QED
    BY <2>1, <2>2
<1>4. ASSUME NEW e \in 1 .. n, e \notin RangeOf(list), e \notin RangeOf(spare)
      PROVE  LET d == PushLRUHead(c, e)
              IN  /\ d \in Caches(n, keys)
                  /\ d.table = c.table /\ d.block = c.block
                  /\ Links(d, n, Pushed(e, list), spare)
  <2>1. c.next[e] = Nil /\ c.prev[e] = Nil /\ e # Nil
    BY <1>4 DEF Links
  <2>2. c.head # e /\ c.tail # e
    <3>1. list # << >> => 1 \in DOMAIN list /\ Len(list) \in DOMAIN list
      BY <1>1, EmptySeq DEF Strings
    <3>. QED
      BY <1>4, <2>1, <3>1 DEF Links, FirstOf, LastOf, RangeOf
  <2>3. RemoveFromLRU(c, e) = c
    <3>. DEFINE r == RemoveFromLRU(c, e)
    <3>1. /\ c.next \in [1 .. n -> (1 .. n) \cup {Nil}]
          /\ c.prev \in [1 .. n -> (1 .. n) \cup {Nil}]
          /\ Elements(c) = 1 .. n
      BY DEF Caches, Elements
    <3>2. [x \in 1 .. n |-> CASE x = e -> Nil
                              [] x = c.prev[e] -> c.next[e]
                              [] OTHER -> c.next[x]] = c.next
      BY <2>1, <3>1
    <3>3. [x \in 1 .. n |-> CASE x = e -> Nil
                              [] x = c.next[e] -> c.prev[e]
                              [] OTHER -> c.prev[x]] = c.prev
      BY <2>1, <3>1
    <3>4. r = [c EXCEPT !.head = c.head, !.tail = c.tail, !.next = c.next,
                        !.prev = c.prev]
      BY <2>2, <3>1, <3>2, <3>3 DEF RemoveFromLRU
    <3>. QED
      BY <3>4 DEF Caches
  <2>4. PushLRUHead(c, e) = InFront(c, n, e)
    BY <1>2, <2>2, <2>3
  <2>. QED
    BY <1>4, <2>4, InFrontLinks
<1>. QED
  BY <1>3, <1>4
-----------------------------------------------------------------------------
\* PushFreeList() of an element that is in neither list.
LEMMA PushFreeListLinks ==
  ASSUME NEW n \in Nat, NEW keys, Nil \notin 1 .. n,
         NEW c \in Caches(n, keys), NEW list, NEW spare,
         Links(c, n, list, spare),
         NEW e \in 1 .. n, e \notin RangeOf(list), e \notin RangeOf(spare)
  PROVE  LET d == PushFreeList(c, e)
         IN  /\ d \in Caches(n, keys)
             /\ d.table = c.table /\ d.block = c.block
             /\ Links(d, n, list, Pushed(e, spare))
<1>. DEFINE d == PushFreeList(c, e)
            more == Pushed(e, spare)
            l == Len(spare)
<1>1. /\ list \in Strings(1 .. n) /\ spare \in Strings(1 .. n)
      /\ l \in Nat /\ DOMAIN spare = 1 .. l /\ Len(spare) = l
      /\ e # Nil /\ \A i \in 1 .. l : spare[i] \in 1 .. n /\ spare[i] # e
      /\ (spare = << >> <=> l = 0)
  <2>1. list \in Strings(1 .. n) /\ spare \in Strings(1 .. n)
    BY DEF Links
  <2>. QED
    BY <2>1, EmptySeq DEF Strings, RangeOf
<1>2. /\ d \in Caches(n, keys) /\ d.table = c.table /\ d.block = c.block
      /\ d.free = e /\ d.head = c.head /\ d.tail = c.tail
      /\ \A x \in 1 .. n :
           /\ d.next[x] = IF x = e THEN c.free ELSE c.next[x]
           /\ d.prev[x] = IF x = e THEN Nil ELSE c.prev[x]
  BY DEF PushFreeList, Caches
<1>3. /\ more \in Strings(1 .. n) /\ Len(more) = l + 1
      /\ DOMAIN more = 1 .. l + 1 /\ RangeOf(more) = RangeOf(spare) \cup {e}
      /\ more # << >>
  BY <1>1, PushedOne
<1>4. \A i \in 1 .. l + 1 : more[i] = IF i = 1 THEN e ELSE spare[i - 1]
  BY DEF Pushed
<1>. HIDE DEF d, more, l
<1>5. d.free = FirstOf(more)
  BY <1>1, <1>2, <1>3, <1>4 DEF FirstOf
<1>6. ASSUME NEW i \in 1 .. l + 1
      PROVE  d.next[more[i]] = After(more, i)
  <2>1. CASE i = 1
    <3>1. more[1] = e /\ d.next[e] = c.free
      BY <1>1, <1>2, <1>4
    <3>2. After(more, 1) = IF l = 0 THEN Nil ELSE spare[1]
      BY <1>1, <1>3, <1>4 DEF After
    <3>3. c.free = IF l = 0 THEN Nil ELSE spare[1]
      BY <1>1 DEF Links, FirstOf
    <3>. QED
      BY <3>1, <3>2, <3>3, <2>1
  <2>2. CASE i # 1
    <3>. DEFINE k == i - 1
    <3>1. k \in 1 .. l /\ more[i] = spare[k] /\ spare[k] # e
          /\ spare[k] \in 1 .. n
      BY <1>1, <1>4, <1>6, <2>2
    <3>2. d.next[spare[k]] = After(spare, k)
      BY <1>1, <1>2, <3>1 DEF Links
    <3>3. After(more, i) = After(spare, k)
      <4>1. CASE i = l + 1
        BY <4>1, <1>1, <1>3 DEF After
      <4>2. CASE i # l + 1
        <5>1. i + 1 \in 1 .. l + 1 /\ i + 1 # 1 /\ (i + 1) - 1 = k + 1 /\ k # l
          BY <4>2, <1>1, <1>6
        <5>2. more[i + 1] = spare[k + 1]
          BY <5>1, <1>4
        <5>. QED
          BY <5>1, <5>2, <4>2, <1>1, <1>3 DEF After
      <4>. QED
        BY <4>1, <4>2
    <3>. QED
      BY <3>1, <3>2, <3>3
  <2>. QED
    BY <2>1, <2>2
<1>7. ASSUME NEW i \in DOMAIN list
      PROVE  /\ d.next[list[i]] = After(list, i)
             /\ d.prev[list[i]] = Before(list, i)
  <2>1. list[i] \in 1 .. n /\ list[i] # e
    BY <1>1 DEF RangeOf, Strings
  <2>. QED
    BY <2>1, <1>2 DEF Links
<1>8. RangeOf(list) \cap RangeOf(more) = {}
  BY <1>3 DEF Links
<1>9. ASSUME NEW x \in 1 .. n, x \notin RangeOf(list)
      PROVE  d.prev[x] = Nil /\ (x \notin RangeOf(more) => d.next[x] = Nil)
  BY <1>2, <1>3, <1>9 DEF Links
<1>10. d.head = FirstOf(list) /\ d.tail = LastOf(list)
  BY <1>2 DEF Links
<1>11. Links(d, n, list, more)
  BY <1>1, <1>3, <1>5, <1>6, <1>7, <1>8, <1>9, <1>10 DEF Links
<1>. QED
  BY <1>2, <1>11 DEF d, more

\* PopFreeList() of a free list that is not empty.
LEMMA PopFreeListLinks ==
  ASSUME NEW n \in Nat, NEW keys, Nil \notin 1 .. n,
         NEW c \in Caches(n, keys), NEW list, NEW spare,
         Links(c, n, list, spare), spare # << >>
  PROVE  LET d == PopFreeList(c)
         IN  /\ d \in Caches(n, keys)
             /\ d.table = c.table /\ d.block = c.block
             /\ c.free = spare[1] /\ 1 \in DOMAIN spare
             /\ Links(d, n, list, Without(spare, 1))
<1>. DEFINE d == PopFreeList(c)
            e == spare[1]
            rest == Without(spare, 1)
            l == Len(spare)
<1>1. /\ list \in Strings(1 .. n) /\ spare \in Strings(1 .. n)
      /\ l \in Nat /\ DOMAIN spare = 1 .. l /\ Len(spare) = l
      /\ 1 \in DOMAIN spare
      /\ e \in 1 .. n /\ e \notin RangeOf(list) /\ e \in RangeOf(spare)
      /\ \A i \in 1 .. l : spare[i] \in 1 .. n
      /\ \A i, j \in 1 .. l : spare[i] = spare[j] => i = j
  <2>1. list \in Strings(1 .. n) /\ spare \in Strings(1 .. n)
    BY DEF Links
  <2>2. l \in Nat /\ l # 0 /\ DOMAIN spare = 1 .. l
    BY <2>1, EmptySeq DEF Strings
  <2>3. e \in 1 .. n /\ e \in RangeOf(spare)
    BY <2>1, <2>2 DEF Strings, RangeOf
  <2>4. e \notin RangeOf(list)
    BY <2>3 DEF Links
  <2>5. /\ \A i \in 1 .. l : spare[i] \in 1 .. n
        /\ \A i, j \in 1 .. l : spare[i] = spare[j] => i = j
    <3>1. spare \in Seq(1 .. n) /\ Distinct(spare)
      BY <2>1 DEF Strings
    <3>. QED
      BY <3>1, <2>2 DEF Distinct
  <2>. QED
    BY <2>1, <2>2, <2>3, <2>4, <2>5
<1>2. c.free = e /\ c.next[e] = After(spare, 1)
  BY <1>1 DEF Links, FirstOf
<1>3. /\ d \in Caches(n, keys) /\ d.table = c.table /\ d.block = c.block
      /\ d.free = c.next[e] /\ d.head = c.head /\ d.tail = c.tail
      /\ \A x \in 1 .. n :
           /\ d.next[x] = IF x = e THEN Nil ELSE c.next[x]
           /\ d.prev[x] = IF x = c.next[e] THEN Nil ELSE c.prev[x]
  <2>1. Elements(c) = 1 .. n
    BY DEF Caches, Elements
  <2>2. d = [c EXCEPT !.free = c.next[e], !.next[e] = Nil,
                      !.prev = [x \in 1 .. n |-> IF x = c.next[e] THEN Nil
                                                 ELSE c.prev[x]]]
    BY <1>2, <2>1 DEF PopFreeList
  <2>. HIDE DEF d, e
  <2>. QED
    BY <2>2, <1>1 DEF Caches
<1>4. /\ rest \in Strings(1 .. n) /\ Len(rest) = l - 1
      /\ DOMAIN rest = 1 .. l - 1 /\ RangeOf(rest) = RangeOf(spare) \ {e}
      /\ (rest = << >> <=> l = 1)
  <2>1. spare \in Strings(1 .. n) /\ 1 \in DOMAIN spare
    BY <1>1
  <2>. QED
    BY ONLY <2>1, WithoutOne
<1>5. \A i \in 1 .. l - 1 : rest[i] = spare[i + 1]
  BY <1>1 DEF Without
<1>. HIDE DEF d, e, rest, l
<1>6. d.free = FirstOf(rest)
  BY <1>1, <1>2, <1>3, <1>4, <1>5 DEF FirstOf, After
<1>7. \A x \in 1 .. n : x \notin RangeOf(spare) => x # c.next[e]
  <2>1. c.next[e] = Nil \/ c.next[e] \in RangeOf(spare)
    BY <1>1, <1>2 DEF After, RangeOf
  <2>. QED
    BY <2>1
<1>8. ASSUME NEW i \in DOMAIN list
      PROVE  /\ d.next[list[i]] = After(list, i)
             /\ d.prev[list[i]] = Before(list, i)
  <2>1. list[i] \in 1 .. n /\ list[i] \notin RangeOf(spare)
    <3>1. list \in Seq(1 .. n) /\ list[i] \in RangeOf(list)
      BY <1>1 DEF RangeOf, Strings
    <3>. QED
      BY <3>1 DEF Links
  <2>2. list[i] # e /\ list[i] # c.next[e]
    BY <2>1, <1>1, <1>7
  <2>. QED
    BY <2>1, <2>2, <1>3 DEF Links
<1>9. ASSUME NEW i \in 1 .. l - 1
      PROVE  d.next[rest[i]] = After(rest, i)
  <2>1. i + 1 \in 1 .. l /\ i + 1 # 1
    BY <1>1, <1>9
  <2>2. rest[i] = spare[i + 1] /\ spare[i + 1] \in 1 .. n /\ spare[i + 1] # e
    BY <2>1, <1>1, <1>5 DEF e
  <2>3. d.next[rest[i]] = After(spare, i + 1)
    <3>1. c.next[spare[i + 1]] = After(spare, i + 1)
      BY <2>1, <1>1 DEF Links
    <3>. QED
      BY <3>1, <2>2, <1>3
  <2>4. After(spare, i + 1) = After(rest, i)
    <3>1. CASE i = l - 1
      BY <3>1, <1>1, <1>4 DEF After
    <3>2. CASE i # l - 1
      <4>1. i + 1 \in 1 .. l - 1 /\ i + 1 # l
        BY <3>2, <1>1, <1>9
      <4>2. rest[i + 1] = spare[(i + 1) + 1]
        BY <4>1, <1>5
      <4>. QED
        BY <3>2, <4>1, <4>2, <1>1, <1>4 DEF After
    <3>. QED
      BY <3>1, <3>2
  <2>. QED
    BY <2>3, <2>4
<1>10. RangeOf(list) \cap RangeOf(rest) = {}
  BY <1>4 DEF Links
<1>11. ASSUME NEW x \in 1 .. n, x \notin RangeOf(list)
       PROVE  d.prev[x] = Nil /\ (x \notin RangeOf(rest) => d.next[x] = Nil)
  BY <1>3, <1>4, <1>11 DEF Links
<1>12. d.head = FirstOf(list) /\ d.tail = LastOf(list)
  BY <1>3 DEF Links
<1>13. Links(d, n, list, rest)
  BY <1>1, <1>4, <1>6, <1>8, <1>9, <1>10, <1>11, <1>12 DEF Links
<1>. QED
  BY <1>1, <1>2, <1>3, <1>13 DEF d, rest, e

\* AddBlock() of a cache that has nothing.
LEMMA AddBlockLinks ==
  ASSUME NEW n \in Nat \ {0}, NEW keys, Nil \notin 1 .. n,
         NEW c \in Caches(n, keys), ~c.block, Links(c, n, << >>, << >>)
  PROVE  LET d == AddBlock(c)
             spare == [i \in 1 .. n |-> n + 1 - i]
         IN  /\ d \in Caches(n, keys)
             /\ d.table = c.table /\ d.block
             /\ Links(d, n, << >>, spare) /\ RangeOf(spare) = 1 .. n
             /\ spare # << >>
<1>. DEFINE d == AddBlock(c)
            spare == [i \in 1 .. n |-> n + 1 - i]
<1>1. Elements(c) = 1 .. n /\ Cardinality(1 .. n) = n
  BY FS_Interval DEF Caches, Elements
<1>2. d = [c EXCEPT !.block = TRUE, !.free = n,
                    !.next = [e \in 1 .. n |-> IF e = 1 THEN Nil ELSE e - 1],
                    !.prev = [e \in 1 .. n |-> Nil]]
  BY <1>1 DEF AddBlock
<1>3. /\ d \in Caches(n, keys) /\ d.table = c.table /\ d.block
      /\ d.free = n /\ d.head = c.head /\ d.tail = c.tail
      /\ \A x \in 1 .. n : /\ d.next[x] = IF x = 1 THEN Nil ELSE x - 1
                           /\ d.prev[x] = Nil
  <2>. HIDE DEF d
  <2>1. [e \in 1 .. n |-> IF e = 1 THEN Nil ELSE e - 1]
          \in [1 .. n -> (1 .. n) \cup {Nil}]
    OBVIOUS
  <2>2. [e \in 1 .. n |-> Nil] \in [1 .. n -> (1 .. n) \cup {Nil}]
        /\ n \in 1 .. n
    OBVIOUS
  <2>. QED
    BY <1>2, <2>1, <2>2 DEF Caches
<1>4. spare \in [1 .. n -> 1 .. n] /\ Distinct(spare)
  BY DEF Distinct
<1>5. spare \in Seq(1 .. n) /\ Len(spare) = n /\ DOMAIN spare = 1 .. n
  BY <1>4, FunctionIsSeq
<1>6. RangeOf(spare) = 1 .. n
  <2>1. ASSUME NEW e \in 1 .. n 
        PROVE  n + 1 - e \in 1 .. n /\ spare[n + 1 - e] = e
    OBVIOUS
  <2>. QED
    BY <1>4, <1>5, <2>1 DEF RangeOf
<1>7. spare # << >> /\ spare[1] = n
  BY <1>5, EmptySeq
<1>8. \A i \in 1 .. n : d.next[spare[i]] = After(spare, i)
  BY <1>3, <1>5 DEF After
<1>9. << >> \in Strings(1 .. n) /\ RangeOf(<< >>) = {}
  BY DEF Links, RangeOf
<1>10. Links(d, n, << >>, spare)
  <2>. HIDE DEF d, spare
  <2>1. d.head = FirstOf(<< >>) /\ d.tail = LastOf(<< >>)
    BY <1>3 DEF Links
  <2>2. d.free = FirstOf(spare) /\ spare \in Strings(1 .. n)
    BY <1>3, <1>4, <1>5, <1>7 DEF FirstOf, Strings
  <2>3. \A x \in 1 .. n : d.prev[x] = Nil /\ x \in RangeOf(spare)
    BY <1>3, <1>6
  <2>4. DOMAIN << >> = {}
    OBVIOUS
  <2>. QED
    BY <2>1, <2>2, <2>3, <2>4, <1>5, <1>8, <1>9 DEF Links
<1>. QED
  BY <1>3, <1>6, <1>7, <1>10
-----------------------------------------------------------------------------
\* A cache of n elements that holds the keys ks, the most recent first, in
\* the elements of list, and has the elements of spare left.
Represents(c, n, keys, list, ks, spare) ==
  /\ c \in Caches(n, keys)
  /\ Links(c, n, list, spare)
  /\ ks \in Strings(keys) /\ Len(ks) = Len(list)
  /\ DOMAIN c.table = RangeOf(ks)
  /\ \A i \in DOMAIN ks : c.table[ks[i]] = list[i]
  /\ IF c.block THEN RangeOf(list) \cup RangeOf(spare) = 1 .. n
     ELSE list = << >> /\ spare = << >>

\* What follows at once: the table is that of the keys and their elements.
Layout(c, n, keys, list, ks, spare) ==
  /\ list \in Strings(1 .. n) /\ ks \in Strings(keys)
  /\ spare \in Strings(1 .. n)
  /\ Len(list) \in Nat /\ Len(ks) = Len(list)
  /\ DOMAIN list = 1 .. Len(list) /\ DOMAIN ks = 1 .. Len(list)
  /\ \A i \in 1 .. Len(list) : list[i] \in 1 .. n /\ ks[i] \in keys
  /\ \A i, j \in 1 .. Len(list) : list[i] = list[j] => i = j
  /\ \A i, j \in 1 .. Len(list) : ks[i] = ks[j] => i = j
  /\ RangeOf(list) \cap RangeOf(spare) = {}
  /\ DOMAIN c.table = RangeOf(ks)
  /\ c.table \in [RangeOf(ks) -> 1 .. n]
  /\ \A i \in 1 .. Len(list) : c.table[ks[i]] = list[i]
  /\ RangeOf(c.table) = RangeOf(list)

\* What the links and the table of a represented cache say.
LEMMA RepresentedLayout ==
  ASSUME NEW n \in Nat, NEW keys, NEW c, NEW list, NEW ks, NEW spare,
         Represents(c, n, keys, list, ks, spare)
  PROVE  Layout(c, n, keys, list, ks, spare)
<1>1. list \in Strings(1 .. n) /\ ks \in Strings(keys)
      /\ spare \in Strings(1 .. n)
      /\ Len(ks) = Len(list) /\ RangeOf(list) \cap RangeOf(spare) = {}
  BY DEF Represents, Links
<1>2. list \in Seq(1 .. n) /\ Distinct(list) /\ ks \in Seq(keys)
      /\ Distinct(ks)
  BY <1>1 DEF Strings
<1>3. Len(list) \in Nat /\ DOMAIN list = 1 .. Len(list)
      /\ DOMAIN ks = 1 .. Len(list)
  BY <1>1, <1>2
<1>4. \A i \in 1 .. Len(list) : list[i] \in 1 .. n /\ ks[i] \in keys
  BY <1>2, <1>3
<1>5. /\ \A i, j \in 1 .. Len(list) : list[i] = list[j] => i = j
      /\ \A i, j \in 1 .. Len(list) : ks[i] = ks[j] => i = j
  BY <1>2, <1>3 DEF Distinct
<1>6. DOMAIN c.table = RangeOf(ks)
      /\ \A i \in 1 .. Len(list) : c.table[ks[i]] = list[i]
  BY <1>3 DEF Represents
<1>7. c.table \in [RangeOf(ks) -> 1 .. n]
  <2>1. c.table \in Tables(n, keys)
    BY DEF Represents, Caches
  <2>2. PICK D \in SUBSET keys : c.table \in [D -> 1 .. n]
    BY <2>1 DEF Tables
  <2>. QED
    BY <2>2, <1>6
<1>8. RangeOf(c.table) = RangeOf(list)
  <2>1. ASSUME NEW k \in DOMAIN c.table PROVE c.table[k] \in RangeOf(list)
    BY <1>3, <1>6 DEF RangeOf
  <2>2. ASSUME NEW i \in DOMAIN list PROVE list[i] \in RangeOf(c.table)
    <3>1. ks[i] \in DOMAIN c.table /\ c.table[ks[i]] = list[i]
      BY <1>3, <1>6 DEF RangeOf
    <3>. QED
      BY <3>1 DEF RangeOf
  <2>. QED
    BY <2>1, <2>2 DEF RangeOf
<1>. QED
  BY <1>1, <1>3, <1>4, <1>5, <1>6, <1>7, <1>8 DEF Layout

\* The key of an element in use.
LEMMA KeyOfRepresented ==
  ASSUME NEW n \in Nat, NEW keys, NEW c, NEW list, NEW ks, NEW spare,
         Represents(c, n, keys, list, ks, spare), NEW p \in DOMAIN list
  PROVE  /\ p \in DOMAIN ks /\ KeyOf(c, list[p]) = ks[p]
         /\ HasKey(c, ks[p]) /\ c.table[ks[p]] = list[p]
<1>0. Layout(c, n, keys, list, ks, spare)
  BY RepresentedLayout
<1>1. /\ p \in 1 .. Len(list) /\ p \in DOMAIN ks
      /\ ks[p] \in DOMAIN c.table /\ c.table[ks[p]] = list[p]
  BY <1>0 DEF RangeOf, Layout
<1>2. ASSUME NEW k \in DOMAIN c.table, c.table[k] = list[p] PROVE k = ks[p]
  <2>1. PICK i \in DOMAIN ks : k = ks[i]
    BY <1>0 DEF RangeOf, Layout
  <2>2. i \in 1 .. Len(list) /\ list[i] = list[p]
    BY <1>2, <2>1, <1>0 DEF Layout
  <2>3. i = p
    BY <1>1, <2>2, <1>0 DEF Layout
  <2>. QED
    BY <2>1, <2>3
<1>. QED
  BY <1>1, <1>2 DEF KeyOf, HasKey

\* Evict() takes an element in use, and its key, to the free list.
LEMMA EvictRepresents ==
  ASSUME NEW n \in Nat, NEW keys, Nil \notin 1 .. n,
         NEW c, NEW list, NEW ks, NEW spare,
         Represents(c, n, keys, list, ks, spare), NEW p \in DOMAIN list
  PROVE  Represents(Evict(c, list[p]), n, keys, Without(list, p),
                    Without(ks, p), Pushed(list[p], spare))
<1>. DEFINE e == list[p]
            erased == [c EXCEPT !.table =
                         Restrict(@, DOMAIN @ \ {KeyOf(c, e)})]
            removed == RemoveFromLRU(erased, e)
            d == Evict(c, e)
            l == Len(list)
            rest == Without(list, p)
            krest == Without(ks, p)
            table == [x \in RangeOf(ks) \ {ks[p]} |-> c.table[x]]
<1>0. Layout(c, n, keys, list, ks, spare)
  BY RepresentedLayout
<1>1. /\ list \in Strings(1 .. n) /\ ks \in Strings(keys)
      /\ spare \in Strings(1 .. n)
      /\ l \in Nat /\ Len(ks) = l /\ DOMAIN list = 1 .. l /\ DOMAIN ks = 1 .. l
      /\ c.table \in [RangeOf(ks) -> 1 .. n]
      /\ p \in 1 .. l /\ e \in 1 .. n /\ e \in RangeOf(list)
      /\ \A i \in 1 .. l : c.table[ks[i]] = list[i]
  BY <1>0 DEF RangeOf, Layout
<1>2. erased = [c EXCEPT !.table = table]
  <2>1. KeyOf(c, e) = ks[p]
    BY KeyOfRepresented
  <2>. QED
    BY <2>1, <1>1 DEF Restrict
<1>3. /\ erased \in Caches(n, keys) /\ Links(erased, n, list, spare)
      /\ erased.table = table /\ erased.block = c.block
  <2>1. table \in Tables(n, keys)
    <3>1. RangeOf(ks) \ {ks[p]} \in SUBSET keys
      BY <1>1 DEF RangeOf, Strings
    <3>2. table \in [RangeOf(ks) \ {ks[p]} -> 1 .. n]
      BY <1>1
    <3>. QED
      BY <3>1, <3>2 DEF Tables
  <2>2. c \in Caches(n, keys) /\ Links(c, n, list, spare)
    BY DEF Represents
  <2>. HIDE DEF erased, table
  <2>3. /\ erased \in Caches(n, keys) /\ erased.table = table
        /\ erased.block = c.block /\ erased.head = c.head
        /\ erased.tail = c.tail /\ erased.free = c.free
        /\ erased.next = c.next /\ erased.prev = c.prev
    BY <1>2, <2>1, <2>2 DEF Caches
  <2>. QED
    BY <2>2, <2>3 DEF Links
<1>4. /\ removed \in Caches(n, keys) /\ Links(removed, n, rest, spare)
      /\ removed.table = table /\ removed.block = c.block
  <2>. HIDE DEF erased, table
  <2>1. p \in DOMAIN list
    OBVIOUS
  <2>. QED
    BY <1>3, <2>1, RemoveFromLRULinks DEF e
<1>5. /\ rest \in Strings(1 .. n) /\ Len(rest) = l - 1
      /\ DOMAIN rest = 1 .. l - 1
      /\ RangeOf(rest) = RangeOf(list) \ {e}
  <2>1. list \in Strings(1 .. n) /\ p \in DOMAIN list
    BY <1>1
  <2>. QED
    BY ONLY <2>1, WithoutOne
<1>6. /\ krest \in Strings(keys) /\ Len(krest) = l - 1
      /\ DOMAIN krest = 1 .. l - 1
      /\ RangeOf(krest) = RangeOf(ks) \ {ks[p]}
  <2>1. ks \in Strings(keys) /\ p \in DOMAIN ks /\ Len(ks) = l
    BY <1>1
  <2>2. /\ krest \in Strings(keys) /\ Len(krest) = Len(ks) - 1
        /\ DOMAIN krest = 1 .. Len(ks) - 1
        /\ RangeOf(krest) = RangeOf(ks) \ {ks[p]}
    BY ONLY <2>1, WithoutOne
  <2>. QED
    BY <2>1, <2>2
<1>7. e \notin RangeOf(rest) /\ e \notin RangeOf(spare)
  BY <1>1, <1>5, <1>0 DEF Layout
<1>8. d = PushFreeList(removed, e)
  BY DEF Evict
<1>. HIDE DEF d, removed, erased, e, rest, krest
<1>9. /\ d \in Caches(n, keys) /\ d.table = table /\ d.block = c.block
      /\ Links(d, n, rest, Pushed(e, spare))
  BY <1>1, <1>4, <1>7, <1>8, PushFreeListLinks
<1>10. ASSUME NEW i \in 1 .. l - 1
       PROVE  d.table[krest[i]] = rest[i]
  <2>1. krest[i] \in RangeOf(ks) \ {ks[p]}
    BY <1>6 DEF RangeOf
  <2>2. \E k \in 1 .. l : krest[i] = ks[k] /\ rest[i] = list[k]
    <3>1. CASE i < p
      BY <3>1, <1>1 DEF krest, rest, Without
    <3>2. CASE ~(i < p)
      <4>1. i + 1 \in 1 .. l /\ krest[i] = ks[i + 1] /\ rest[i] = list[i + 1]
        BY <3>2, <1>1 DEF krest, rest, Without
      <4>. QED
        BY <4>1
    <3>. QED
      BY <3>1, <3>2
  <2>. QED
    BY <2>1, <2>2, <1>1, <1>9
<1>11. IF d.block THEN RangeOf(rest) \cup RangeOf(Pushed(e, spare)) = 1 .. n
       ELSE FALSE
  <2>1. c.block
    BY <1>1, EmptySeq DEF Represents
  <2>2. RangeOf(Pushed(e, spare)) = RangeOf(spare) \cup {e}
    BY <1>1, PushedOne
  <2>. QED
    BY <2>1, <2>2, <1>1, <1>5, <1>9 DEF Represents
<1>12. DOMAIN d.table = RangeOf(krest)
  BY <1>6, <1>9
<1>13. Represents(d, n, keys, rest, krest, Pushed(e, spare))
  BY <1>5, <1>6, <1>9, <1>10, <1>11, <1>12 DEF Represents
<1>. QED
  BY <1>13 DEF d, e, rest, krest
-----------------------------------------------------------------------------
\* A sequence without repetition is as long as the set of what is in it.
LEMMA StringCount ==
  ASSUME NEW S, NEW s \in Strings(S)
  PROVE  IsFiniteSet(RangeOf(s)) /\ Cardinality(RangeOf(s)) = Len(s)
<1>1. s \in Seq(S) /\ Distinct(s) /\ Len(s) \in Nat /\ DOMAIN s = 1 .. Len(s)
  BY DEF Strings
<1>2. s \in Bijection(1 .. Len(s), RangeOf(s))
  <2>1. s \in [1 .. Len(s) -> RangeOf(s)]
    BY <1>1 DEF RangeOf
  <2>2. \A t \in RangeOf(s) : \E i \in 1 .. Len(s) : s[i] = t
    BY <1>1 DEF RangeOf
  <2>. QED
    BY <1>1, <2>1, <2>2 DEF Distinct, Bijection, Injection, Surjection,
                            IsInjective
<1>3. IsFiniteSet(1 .. Len(s)) /\ Cardinality(1 .. Len(s)) = Len(s)
  BY <1>1, FS_Interval
<1>. QED
  BY <1>2, <1>3, FS_Bijection DEF ExistsBijection

\* Erase() takes the key out of the order, and Evict() its element.
LEMMA EraseRepresents ==
  ASSUME NEW n \in Nat, NEW keys, Nil \notin 1 .. n,
         NEW c, NEW list, NEW ks, NEW spare,
         Represents(c, n, keys, list, ks, spare)
  PROVE  /\ \A p \in DOMAIN list :
              Represents(Erase(c, ks[p]), n, keys, Without(list, p),
                         Without(ks, p), Pushed(list[p], spare))
         /\ \A k : ~HasKey(c, k) => Erase(c, k) = c
<1>1. ASSUME NEW p \in DOMAIN list
      PROVE  Represents(Erase(c, ks[p]), n, keys, Without(list, p),
                        Without(ks, p), Pushed(list[p], spare))
  <2>1. HasKey(c, ks[p]) /\ c.table[ks[p]] = list[p]
    BY KeyOfRepresented
  <2>2. Erase(c, ks[p]) = Evict(c, list[p])
    BY <2>1 DEF Erase
  <2>. QED
    BY <2>2, EvictRepresents
<1>. QED
  BY <1>1 DEF Erase

\* MutableLookup() moves the key to the head.
LEMMA LookupRepresents ==
  ASSUME NEW n \in Nat, NEW keys, Nil \notin 1 .. n,
         NEW c, NEW list, NEW ks, NEW spare,
         Represents(c, n, keys, list, ks, spare)
  PROVE  /\ \A p \in DOMAIN list :
              /\ Represents(Lookup(c, ks[p]), n, keys,
                            Pushed(list[p], Without(list, p)),
                            Pushed(ks[p], Without(ks, p)), spare)
              /\ Lookup(c, ks[p]).table = c.table
         /\ \A k : ~HasKey(c, k) => Lookup(c, k) = c
<1>0. Layout(c, n, keys, list, ks, spare)
  BY RepresentedLayout
<1>1. ASSUME NEW p \in DOMAIN list
      PROVE  /\ Represents(Lookup(c, ks[p]), n, keys,
                           Pushed(list[p], Without(list, p)),
                           Pushed(ks[p], Without(ks, p)), spare)
             /\ Lookup(c, ks[p]).table = c.table
  <2>. DEFINE e == list[p]
              k == ks[p]
              d == PushLRUHead(c, e)
              l == Len(list)
              rest == Without(list, p)
              krest == Without(ks, p)
              more == Pushed(e, rest)
              kmore == Pushed(k, krest)
  <2>1. Lookup(c, k) = d
    BY KeyOfRepresented DEF Lookup
  <2>2. /\ l \in Nat /\ Len(ks) = l /\ DOMAIN list = 1 .. l
        /\ DOMAIN ks = 1 .. l
        /\ p \in 1 .. l /\ e \in 1 .. n /\ k \in keys
        /\ e \in RangeOf(list) /\ k \in RangeOf(ks)
        /\ list \in Strings(1 .. n) /\ ks \in Strings(keys)
        /\ Len(list) = l
    BY <1>0 DEF Layout, RangeOf
  <2>3. /\ d \in Caches(n, keys) /\ d.table = c.table /\ d.block = c.block
        /\ Links(d, n, more, spare)
    <3>1. c \in Caches(n, keys) /\ Links(c, n, list, spare)
      BY DEF Represents
    <3>. QED
      BY <3>1, PushLRUHeadLinks
  <2>4. /\ rest \in Strings(1 .. n) /\ Len(rest) = Len(list) - 1
        /\ RangeOf(rest) = RangeOf(list) \ {e}
    <3>1. list \in Strings(1 .. n) /\ p \in DOMAIN list
      BY <2>2
    <3>. QED
      BY ONLY <3>1, WithoutOne
  <2>5. /\ krest \in Strings(keys) /\ Len(krest) = Len(ks) - 1
        /\ RangeOf(krest) = RangeOf(ks) \ {k}
    <3>1. ks \in Strings(keys) /\ p \in DOMAIN ks
      BY <2>2
    <3>. QED
      BY ONLY <3>1, WithoutOne
  <2>6. /\ \A i \in 1 .. l : more[i] = IF i = 1 THEN e ELSE rest[i - 1]
        /\ \A i \in 1 .. l : kmore[i] = IF i = 1 THEN k ELSE krest[i - 1]
        /\ \A i \in 1 .. l - 1 :
             rest[i] = IF i < p THEN list[i] ELSE list[i + 1]
        /\ \A i \in 1 .. l - 1 : krest[i] = IF i < p THEN ks[i] ELSE ks[i + 1]
    BY <2>2, <2>4, <2>5 DEF Pushed, Without
  <2>. HIDE DEF d, rest, krest, e, k, l
  <2>7. /\ Len(more) = l /\ RangeOf(more) = RangeOf(list)
    <3>1. Len(more) = Len(rest) + 1 /\ RangeOf(more) = RangeOf(rest) \cup {e}
      <4>1. rest \in Strings(1 .. n) /\ e \in 1 .. n
        BY <2>2, <2>4
      <4>. QED
        BY ONLY <4>1, PushedOne
    <3>. QED
      BY <3>1, <2>2, <2>4
  <2>8. /\ Len(kmore) = l /\ RangeOf(kmore) = RangeOf(ks)
        /\ kmore \in Strings(keys) /\ DOMAIN kmore = 1 .. l
    <3>1. /\ Len(kmore) = Len(krest) + 1
          /\ RangeOf(kmore) = RangeOf(krest) \cup {k}
          /\ kmore \in Strings(keys) /\ DOMAIN kmore = 1 .. Len(krest) + 1
      BY <2>2, <2>5, PushedOne
    <3>. QED
      BY <3>1, <2>2, <2>5
  <2>. HIDE DEF more, kmore
  <2>9. ASSUME NEW i \in 1 .. l PROVE d.table[kmore[i]] = more[i]
    <3>1. \E j \in 1 .. l : kmore[i] = ks[j] /\ more[i] = list[j]
      <4>1. CASE i = 1
        BY <4>1, <2>2, <2>6 DEF e, k
      <4>2. CASE i # 1
        <5>. DEFINE m == i - 1
        <5>1. m \in 1 .. l - 1 /\ kmore[i] = krest[m] /\ more[i] = rest[m]
              /\ m \in 1 .. l /\ m + 1 \in 1 .. l
          BY <4>2, <2>2, <2>6
        <5>. HIDE DEF m
        <5>2. /\ krest[m] = IF m < p THEN ks[m] ELSE ks[m + 1]
              /\ rest[m] = IF m < p THEN list[m] ELSE list[m + 1]
          BY <5>1, <2>6
        <5>. QED
          BY <5>1, <5>2
      <4>. QED
        BY <4>1, <4>2
    <3>2. \A j \in 1 .. l : c.table[ks[j]] = list[j]
      BY <1>0 DEF Layout, l
    <3>. QED
      BY <2>3, <3>1, <3>2
  <2>10. /\ DOMAIN d.table = RangeOf(kmore)
         /\ IF d.block THEN RangeOf(more) \cup RangeOf(spare) = 1 .. n
            ELSE FALSE
    <3>1. DOMAIN c.table = RangeOf(ks) /\ c.block
      BY <2>2, EmptySeq DEF Represents, RangeOf
    <3>. QED
      BY <3>1, <2>3, <2>7, <2>8 DEF Represents
  <2>11. Represents(d, n, keys, more, kmore, spare)
    BY <2>3, <2>7, <2>8, <2>9, <2>10 DEF Represents
  <2>. QED
    BY <2>1, <2>3, <2>11 DEF d, e, k, more, kmore, rest, krest
<1>. QED
  BY <1>1 DEF Lookup
-----------------------------------------------------------------------------
\* There are no more keys than elements, and as many only if all are in use.
LEMMA LayoutCount ==
  ASSUME NEW n \in Nat, NEW keys, NEW c, NEW list, NEW ks, NEW spare,
         Represents(c, n, keys, list, ks, spare)
  PROVE  /\ Len(list) <= n
         /\ Len(list) = n <=> RangeOf(list) = 1 .. n
         /\ Size(c) = Len(ks)
<1>1. Layout(c, n, keys, list, ks, spare)
  BY RepresentedLayout
<1>2. IsFiniteSet(1 .. n) /\ Cardinality(1 .. n) = n
  BY FS_Interval
<1>3. list \in Strings(1 .. n) /\ ks \in Strings(keys)
      /\ RangeOf(list) \in SUBSET (1 .. n) /\ DOMAIN c.table = RangeOf(ks)
  BY <1>1 DEF Layout, RangeOf
<1>4. Cardinality(RangeOf(list)) = Len(list)
      /\ Cardinality(RangeOf(ks)) = Len(ks)
  BY <1>3, StringCount
<1>5. /\ Cardinality(RangeOf(list)) <= Cardinality(1 .. n)
      /\ Cardinality(1 .. n) = Cardinality(RangeOf(list)) =>
           1 .. n = RangeOf(list)
  BY <1>2, <1>3, FS_Subset
<1>. QED
  BY <1>2, <1>3, <1>4, <1>5 DEF Size

\* A full sequence without its end.
Kept(s, n) == IF Len(s) = n THEN Without(s, n) ELSE s

\* NextFreeElement() evicts the tail of a full cache, and nothing else.
LEMMA NextFreeRepresents ==
  ASSUME NEW n \in Nat \ {0}, NEW keys, Nil \notin 1 .. n,
         NEW c, NEW list, NEW ks, NEW spare,
         Represents(c, n, keys, list, ks, spare)
  PROVE  \E left : /\ Represents(NextFreeElement(c), n, keys, Kept(list, n),
                                 Kept(ks, n), left)
                   /\ left # << >>
<1>. DEFINE new == IF c.free = Nil THEN AddBlock(c) ELSE c
<1>1. Layout(c, n, keys, list, ks, spare)
  BY RepresentedLayout
<1>2. /\ c \in Caches(n, keys) /\ Links(c, n, list, spare)
      /\ c.free = FirstOf(spare) /\ c.tail = LastOf(list)
  BY DEF Represents, Links
<1>3. Len(ks) = Len(list) /\ Len(list) \in Nat
      /\ (Len(list) = n <=> RangeOf(list) = 1 .. n)
  <2>1. Len(list) = n <=> RangeOf(list) = 1 .. n
    BY LayoutCount
  <2>. QED
    BY <2>1, <1>1 DEF Layout
<1>4. spare # << >> => spare[1] \in 1 .. n
  BY <1>1, EmptySeq DEF Layout, Strings
<1>5. CASE ~c.block
  <2>. DEFINE d == AddBlock(c)
              left == [i \in 1 .. n |-> n + 1 - i]
  <2>1. list = << >> /\ spare = << >>
    BY <1>5 DEF Represents
  <2>2. /\ d \in Caches(n, keys) /\ d.table = c.table /\ d.block
        /\ Links(d, n, << >>, left) /\ RangeOf(left) = 1 .. n /\ left # << >>
    BY <1>2, <1>5, <2>1, AddBlockLinks
  <2>3. Len(list) = 0
    BY <2>1
  <2>4. ks = << >> /\ Kept(list, n) = list /\ Kept(ks, n) = ks
    BY <1>1, <1>3, <2>3, EmptySeq DEF Layout, Strings, Kept
  <2>5. d.free = left[1] /\ left[1] = n
    BY <2>2 DEF Links, FirstOf
  <2>. HIDE DEF d, left
  <2>6. Represents(d, n, keys, list, ks, left)
    <3>1. /\ DOMAIN << >> = {} /\ RangeOf(<< >>) = {} /\ Len(<< >>) = 0
          /\ ks = << >> /\ << >> \in Strings(keys)
      BY <1>1, <2>4 DEF RangeOf, Layout
    <3>2. DOMAIN d.table = {}
      BY <1>1, <2>2, <3>1 DEF Layout
    <3>. QED
      BY <2>1, <2>2, <3>1, <3>2 DEF Represents
  <2>7. NextFreeElement(c) = d
    BY <1>2, <2>1, <2>5 DEF NextFreeElement, FirstOf, d
  <2>. QED
    BY <2>2, <2>4, <2>6, <2>7
<1>6. CASE c.block /\ spare # << >>
  <2>1. c.free # Nil
    BY <1>2, <1>4, <1>6 DEF FirstOf
  <2>2. NextFreeElement(c) = c
    BY <2>1 DEF NextFreeElement
  <2>3. Len(list) # n
    <3>1. spare[1] \in RangeOf(spare)
      BY <1>1, <1>6, EmptySeq DEF Layout, Strings, RangeOf
    <3>2. RangeOf(list) \cap RangeOf(spare) = {}
      BY <1>1 DEF Layout
    <3>. QED
      BY <3>1, <3>2, <1>3, <1>4, <1>6
  <2>. QED
    BY <1>3, <1>6, <2>2, <2>3 DEF Kept
<1>7. CASE c.block /\ spare = << >>
  <2>1. c.free = Nil /\ AddBlock(c) = c
    BY <1>2, <1>7 DEF FirstOf, AddBlock
  <2>2. RangeOf(list) = 1 .. n
    <3>1. RangeOf(spare) = {}
      BY <1>7 DEF RangeOf
    <3>. QED
      BY <3>1, <1>7 DEF Represents
  <2>3. Len(list) = n /\ n \in DOMAIN list /\ list # << >>
    <3>1. DOMAIN list = 1 .. Len(list) /\ Len(list) = n
      BY <1>1, <1>3, <2>2 DEF Layout
    <3>2. n \in DOMAIN list
      BY <3>1
    <3>. QED
      BY <3>1, <3>2
  <2>4. NextFreeElement(c) = Evict(c, list[n])
    BY <1>2, <2>1, <2>3 DEF NextFreeElement, LastOf
  <2>5. Represents(Evict(c, list[n]), n, keys,
                   Without(list, n), Without(ks, n),
                   Pushed(list[n], spare))
    BY <2>3, EvictRepresents
  <2>6. Pushed(list[n], spare) # << >>
    <3>1. spare \in Strings(1 .. n) /\ list[n] \in 1 .. n
      BY <1>1, <2>3 DEF Layout
    <3>. QED
      BY ONLY <3>1, PushedOne
  <2>. QED
    BY <1>3, <2>3, <2>4, <2>5, <2>6 DEF Kept
<1>. QED
  BY <1>5, <1>6, <1>7

\* A cache whose table has a key for an element.
WithKey(c, k, e) ==
  [c EXCEPT !.table = [x \in DOMAIN @ \cup {k} |-> IF x = k THEN e ELSE @[x]]]

\* The rest of Insert(): a free element takes the key to the head.
LEMMA InsertFreeRepresents ==
  ASSUME NEW n \in Nat, NEW keys, Nil \notin 1 .. n,
         NEW c, NEW list, NEW ks, NEW spare,
         Represents(c, n, keys, list, ks, spare), spare # << >>,
         NEW k \in keys, ~HasKey(c, k)
  PROVE  LET e == c.free
             p == PopFreeList(c)
             d == PushLRUHead(WithKey(p, k, e), e)
         IN  /\ Represents(d, n, keys, Pushed(e, list), Pushed(k, ks),
                           Without(spare, 1))
             /\ e \in 1 .. n /\ e \notin RangeOf(list)
<1>. DEFINE e == c.free
            p == PopFreeList(c)
            q == WithKey(p, k, e)
            d == PushLRUHead(q, e)
            table == [x \in RangeOf(ks) \cup {k} |->
                        IF x = k THEN e ELSE c.table[x]]
            l == Len(list)
            rest == Without(spare, 1)
            more == Pushed(e, list)
            kmore == Pushed(k, ks)
<1>1. Layout(c, n, keys, list, ks, spare)
  BY RepresentedLayout
<1>2. /\ p \in Caches(n, keys) /\ p.table = c.table /\ p.block = c.block
      /\ c.free = spare[1] /\ 1 \in DOMAIN spare /\ Links(p, n, list, rest)
  <2>1. c \in Caches(n, keys) /\ Links(c, n, list, spare)
    BY DEF Represents
  <2>. QED
    BY <2>1, PopFreeListLinks
<1>3. /\ list \in Strings(1 .. n) /\ ks \in Strings(keys)
      /\ spare \in Strings(1 .. n)
      /\ l \in Nat /\ Len(ks) = l /\ Len(list) = l /\ DOMAIN list = 1 .. l
      /\ DOMAIN ks = 1 .. l
      /\ c.table \in [RangeOf(ks) -> 1 .. n] /\ k \notin RangeOf(ks)
      /\ \A i \in 1 .. l : c.table[ks[i]] = list[i]
      /\ RangeOf(list) \cap RangeOf(spare) = {}
  BY <1>1 DEF Layout, HasKey
<1>4. e \in 1 .. n /\ e \in RangeOf(spare) /\ e \notin RangeOf(list)
  <2>1. spare \in Seq(1 .. n) /\ spare[1] \in RangeOf(spare)
    BY <1>2, <1>3 DEF Strings, RangeOf
  <2>2. spare[1] \in 1 .. n
    BY <1>2, <2>1
  <2>. QED
    BY <1>2, <1>3, <2>1, <2>2
<1>5. RangeOf(rest) = RangeOf(spare) \ {e}
  <2>1. spare \in Strings(1 .. n) /\ 1 \in DOMAIN spare
    BY <1>2, <1>3
  <2>2. RangeOf(rest) = RangeOf(spare) \ {spare[1]}
    BY ONLY <2>1, WithoutOne
  <2>. QED
    BY <2>2, <1>2
<1>. HIDE DEF rest
<1>6. q = [p EXCEPT !.table = table]
  BY <1>2, <1>3 DEF WithKey
<1>7. table \in Tables(n, keys)
  <2>1. RangeOf(ks) \cup {k} \in SUBSET keys
    BY <1>3 DEF RangeOf, Strings
  <2>2. table \in [RangeOf(ks) \cup {k} -> 1 .. n]
    BY <1>3, <1>4
  <2>. QED
    BY <2>1, <2>2 DEF Tables
<1>. HIDE DEF q, p, table
<1>8. /\ q \in Caches(n, keys) /\ q.table = table /\ q.block = c.block
      /\ q.head = p.head /\ q.tail = p.tail /\ q.free = p.free
      /\ q.next = p.next /\ q.prev = p.prev
  BY <1>2, <1>6, <1>7 DEF Caches
<1>9. Links(q, n, list, rest)
  BY <1>2, <1>8 DEF Links
<1>. HIDE DEF e
<1>10. /\ d \in Caches(n, keys) /\ d.table = table /\ d.block = c.block
       /\ Links(d, n, more, rest)
  BY <1>4, <1>5, <1>8, <1>9, PushLRUHeadLinks
<1>11. Len(more) = l + 1 /\ RangeOf(more) = RangeOf(list) \cup {e}
  <2>1. list \in Strings(1 .. n) /\ e \in 1 .. n /\ Len(list) = l
    BY <1>3, <1>4
  <2>2. Len(more) = Len(list) + 1 /\ RangeOf(more) = RangeOf(list) \cup {e}
    BY ONLY <2>1, PushedOne
  <2>. QED
    BY <2>1, <2>2
<1>12. /\ kmore \in Strings(keys) /\ Len(kmore) = l + 1
       /\ RangeOf(kmore) = RangeOf(ks) \cup {k} /\ DOMAIN kmore = 1 .. l + 1
  BY <1>3, PushedOne
<1>13. /\ \A i \in 1 .. l + 1 : kmore[i] = IF i = 1 THEN k ELSE ks[i - 1]
       /\ \A i \in 1 .. l + 1 : more[i] = IF i = 1 THEN e ELSE list[i - 1]
  BY <1>3 DEF Pushed
<1>. HIDE DEF d, more, kmore, l
<1>14. ASSUME NEW i \in 1 .. l + 1 PROVE d.table[kmore[i]] = more[i]
  <2>1. CASE i = 1
    BY <2>1, <1>10, <1>13 DEF table
  <2>2. CASE i # 1
    <3>1. i - 1 \in 1 .. l
      BY <2>2, <1>3
    <3>2. kmore[i] = ks[i - 1] /\ more[i] = list[i - 1]
          /\ c.table[ks[i - 1]] = list[i - 1]
      BY <2>2, <3>1, <1>3, <1>13
    <3>3. ks[i - 1] \in RangeOf(ks) /\ ks[i - 1] # k
      BY <3>1, <1>3 DEF RangeOf
    <3>. QED
      BY <3>2, <3>3, <1>10 DEF table
  <2>. QED
    BY <2>1, <2>2
<1>15. c.block /\ RangeOf(list) \cup RangeOf(spare) = 1 .. n
  BY DEF Represents
<1>16. DOMAIN d.table = RangeOf(kmore) /\ d.block
       /\ RangeOf(more) \cup RangeOf(rest) = 1 .. n
  <2>1. DOMAIN table = RangeOf(ks) \cup {k}
    BY DEF table
  <2>. QED
    BY <2>1, <1>4, <1>5, <1>10, <1>11, <1>12, <1>15
<1>17. Represents(d, n, keys, more, kmore, rest)
  BY <1>10, <1>11, <1>12, <1>14, <1>16 DEF Represents
<1>. QED
  BY <1>4, <1>17 DEF d, q, p, e, more, kmore, rest

\* Insert() of a key that is not there, and of one that is.
LEMMA InsertRepresents ==
  ASSUME NEW n \in Nat \ {0}, NEW keys, Nil \notin 1 .. n,
         NEW c, NEW list, NEW ks, NEW spare,
         Represents(c, n, keys, list, ks, spare), NEW k \in keys
  PROVE  /\ ~HasKey(c, k) =>
              \E e \in 1 .. n : \E left :
                /\ Represents(Insert(c, k), n, keys, Pushed(e, Kept(list, n)),
                              Pushed(k, Kept(ks, n)), left)
                /\ e \notin RangeOf(Kept(list, n))
         /\ \A p \in DOMAIN list : ks[p] = k =>
              \E e \in 1 .. n : \E left :
                Represents(Insert(c, k), n, keys, Pushed(e, Without(list, p)),
                           Pushed(k, Without(ks, p)), left)
<1>1. Layout(c, n, keys, list, ks, spare)
  BY RepresentedLayout
<1>2. ASSUME NEW c2, NEW list2, NEW ks2, NEW spare2, ~HasKey(c2, k),
             Represents(c2, n, keys, list2, ks2, spare2),
             Erase(c, k) = c2
      PROVE  \E e \in 1 .. n : \E left :
               /\ Represents(Insert(c, k), n, keys, Pushed(e, Kept(list2, n)),
                             Pushed(k, Kept(ks2, n)), left)
               /\ e \notin RangeOf(Kept(list2, n))
  <2>. DEFINE r == NextFreeElement(c2)
  <2>1. PICK left :
          /\ Represents(r, n, keys, Kept(list2, n), Kept(ks2, n), left)
          /\ left # << >>
    BY <1>2, NextFreeRepresents
  <2>2. ~HasKey(r, k)
    <3>1. Layout(c2, n, keys, list2, ks2, spare2)
          /\ Layout(r, n, keys, Kept(list2, n), Kept(ks2, n), left)
      BY <1>2, <2>1, RepresentedLayout
    <3>2. DOMAIN r.table = RangeOf(Kept(ks2, n))
          /\ DOMAIN c2.table = RangeOf(ks2)
          /\ ks2 \in Strings(keys) /\ DOMAIN ks2 = 1 .. Len(ks2)
      BY <3>1 DEF Layout
    <3>3. RangeOf(Kept(ks2, n)) \subseteq RangeOf(ks2)
      <4>1. CASE Len(ks2) = n
        <5>1. n \in DOMAIN ks2
          BY <4>1, <3>2
        <5>2. RangeOf(Without(ks2, n)) = RangeOf(ks2) \ {ks2[n]}
          BY ONLY <3>2, <5>1, WithoutOne
        <5>. QED
          BY <5>2, <4>1 DEF Kept
      <4>2. CASE Len(ks2) # n
        BY <4>2 DEF Kept
      <4>. QED
        BY <4>1, <4>2
    <3>. QED
      BY <1>2, <3>2, <3>3 DEF HasKey
  <2>3. Insert(c, k) =
          PushLRUHead(WithKey(PopFreeList(r), k, r.free), r.free)
    BY <1>2 DEF Insert, WithKey
  <2>. HIDE DEF r
  <2>4. /\ Represents(Insert(c, k), n, keys, Pushed(r.free, Kept(list2, n)),
                      Pushed(k, Kept(ks2, n)), Without(left, 1))
        /\ r.free \in 1 .. n /\ r.free \notin RangeOf(Kept(list2, n))
    BY <2>1, <2>2, <2>3, InsertFreeRepresents
  <2>. QED
    BY <2>4
<1>3. ASSUME NEW p \in DOMAIN list, ks[p] = k
      PROVE  \E e \in 1 .. n : \E left :
               Represents(Insert(c, k), n, keys, Pushed(e, Without(list, p)),
                          Pushed(k, Without(ks, p)), left)
  <2>. DEFINE c2 == Erase(c, k)
              rest == Without(list, p)
              krest == Without(ks, p)
  <2>1. Represents(c2, n, keys, rest, krest, Pushed(list[p], spare))
    BY <1>3, EraseRepresents
  <2>2. /\ Len(rest) = Len(list) - 1 /\ Len(krest) = Len(ks) - 1
        /\ RangeOf(krest) = RangeOf(ks) \ {k}
    <3>1. list \in Strings(1 .. n) /\ ks \in Strings(keys) /\ p \in DOMAIN ks
      BY <1>1 DEF Layout
    <3>. QED
      BY <1>3, <3>1, WithoutOne
  <2>3. ~HasKey(c2, k)
    <3>1. Layout(c2, n, keys, rest, krest, Pushed(list[p], spare))
      BY <2>1, RepresentedLayout
    <3>. QED
      BY <2>2, <3>1 DEF HasKey, Layout
  <2>4. Len(rest) # n /\ Len(krest) # n
    <3>1. Len(list) <= n /\ Len(list) \in Nat /\ Len(ks) = Len(list)
      BY <1>1, LayoutCount DEF Layout
    <3>. QED
      BY <2>2, <3>1
  <2>. HIDE DEF c2, rest, krest
  <2>5. \E e \in 1 .. n : \E left :
          /\ Represents(Insert(c, k), n, keys, Pushed(e, Kept(rest, n)),
                        Pushed(k, Kept(krest, n)), left)
          /\ e \notin RangeOf(Kept(rest, n))
    BY <1>2, <2>1, <2>3 DEF c2
  <2>. QED
    BY <2>4, <2>5 DEF Kept, rest, krest
<1>. QED
  BY <1>2, <1>3, EraseRepresents
-----------------------------------------------------------------------------
\* What an iterator meets is the list it was started at the head of.
LEMMA WalkOfList ==
  ASSUME NEW n \in Nat, NEW keys, Nil \notin 1 .. n,
         NEW c \in Caches(n, keys), NEW s \in Strings(1 .. n),
         \A i \in DOMAIN s : c.next[s[i]] = After(s, i)
  PROVE  Walk(c, FirstOf(s)) = s
<1>. DEFINE from == FirstOf(s)
            l == Len(s)
            Step(f) == [i \in 1 .. n |->
                          IF i = 1 THEN from
                          ELSE IF f[i - 1] = Nil THEN Nil
                          ELSE c.next[f[i - 1]]]
            met == [i \in 1 .. n |-> IF i <= l THEN s[i] ELSE Nil]
            at == CHOOSE f : f = Step(f)
<1>1. /\ s \in Seq(1 .. n) /\ l \in Nat /\ DOMAIN s = 1 .. l /\ Len(s) = l
      /\ \A i \in 1 .. l : s[i] \in 1 .. n /\ s[i] # Nil
      /\ (s = << >> <=> l = 0)
  BY EmptySeq DEF Strings
<1>2. l <= n
  <2>1. RangeOf(s) \in SUBSET (1 .. n)
    BY <1>1 DEF RangeOf
  <2>2. IsFiniteSet(1 .. n) /\ Cardinality(1 .. n) = n
    BY FS_Interval
  <2>3. Cardinality(RangeOf(s)) = l
    BY StringCount
  <2>. QED
    BY <2>1, <2>2, <2>3, FS_Subset
<1>. HIDE DEF l
<1>3. met = Step(met)
  <2>. SUFFICES ASSUME NEW i \in 1 .. n PROVE met[i] = Step(met)[i]
    OBVIOUS
  <2>1. CASE i = 1
    BY <2>1, <1>1 DEF FirstOf
  <2>2. CASE i # 1 /\ i - 1 <= l
    <3>1. i - 1 \in 1 .. l /\ i - 1 \in 1 .. n /\ (i - 1) + 1 = i
      BY <2>2, <1>1
    <3>2. met[i - 1] = s[i - 1] /\ met[i - 1] # Nil
      BY <2>2, <3>1, <1>1
    <3>3. c.next[s[i - 1]] = After(s, i - 1)
      BY <3>1, <1>1
    <3>4. After(s, i - 1) = met[i]
      BY <3>1, <1>1 DEF After
    <3>. QED
      BY <2>2, <3>2, <3>3, <3>4
  <2>3. CASE i # 1 /\ ~(i - 1 <= l)
    <3>1. i - 1 \in 1 .. n /\ ~(i <= l)
      BY <2>3, <1>1
    <3>. QED
      BY <2>3, <3>1
  <2>. QED
    BY <2>1, <2>2, <2>3
<1>4. ASSUME NEW f, f = Step(f) PROVE f = met
  <2>. DEFINE bad == {i \in 1 .. n : f[i] # met[i]}
  <2>1. CASE bad = {}
    <3>1. \A i \in 1 .. n : f[i] = met[i]
      BY <2>1
    <3>2. f = [i \in 1 .. n |-> f[i]]
      BY <1>4
    <3>. HIDE DEF Step
    <3>. QED
      BY <3>1, <3>2
  <2>2. CASE bad # {}
    <3>1. bad \in SUBSET Nat
      OBVIOUS
    <3>. HIDE DEF bad
    <3>2. PICK i \in bad : \A j \in bad : i <= j
      BY <2>2, <3>1, LeastNatural
    <3>3. i \in 1 .. n /\ f[i] # met[i]
      BY <3>2 DEF bad
    <3>4. f[i] = Step(f)[i] /\ met[i] = Step(met)[i]
      BY <1>3, <1>4
    <3>5. i = 1 \/ (i - 1 \in 1 .. n /\ i - 1 \notin bad)
      BY <3>2, <3>3
    <3>6. i # 1 => f[i - 1] = met[i - 1]
      BY <3>5 DEF bad
    <3>. HIDE DEF met
    <3>. QED
      BY <3>3, <3>4, <3>6
  <2>. QED
    BY <2>1, <2>2
<1>. HIDE DEF from
<1>5. at = met
  <2>. HIDE DEF Step, met
  <2>. QED
    BY <1>3, <1>4
<1>6. Elements(c) = 1 .. n
  BY DEF Caches, Elements
<1>7. Walk(c, from) = SubSeq(at, 1, Cardinality({i \in 1 .. n : at[i] # Nil}))
  BY <1>6 DEF Walk
<1>8. {i \in 1 .. n : met[i] # Nil} = 1 .. l
  BY <1>1, <1>2
<1>9. Cardinality(1 .. l) = l
  BY <1>1, FS_Interval
<1>10. SubSeq(met, 1, l) = s
  <2>1. \A i \in 1 .. l : met[i] = s[i] /\ s[i] \in 1 .. n
    BY <1>1, <1>2
  <2>. HIDE DEF met
  <2>2. /\ SubSeq(met, 1, l) \in Seq(1 .. n)
        /\ Len(SubSeq(met, 1, l)) = l
        /\ \A i \in 1 .. l : SubSeq(met, 1, l)[i] = s[i]
    <3>1. /\ SubSeq(met, 1, l) \in Seq(1 .. n)
          /\ Len(SubSeq(met, 1, l)) = IF 1 <= l THEN l - 1 + 1 ELSE 0
          /\ \A i \in 1 .. l - 1 + 1 : SubSeq(met, 1, l)[i] = met[1 + i - 1]
      BY <1>1, <2>1, SubSeqProperties
    <3>. QED
      BY <1>1, <2>1, <3>1
  <2>. QED
    BY <1>1, <2>2, SeqEqual
<1>. HIDE DEF at, met
<1>. QED
  BY <1>5, <1>7, <1>8, <1>9, <1>10 DEF from

\* The iterators of a cache meet the list, and the links hold together.
LEMMA RepresentedIsLinked ==
  ASSUME NEW n \in Nat, NEW keys, Nil \notin 1 .. n,
         NEW c, NEW list, NEW ks, NEW spare,
         Represents(c, n, keys, list, ks, spare)
  PROVE  Order(c) = list /\ OrderOfKeys(c) = ks /\ Linked(c)
<1>1. Layout(c, n, keys, list, ks, spare)
  BY RepresentedLayout
<1>2. /\ c \in Caches(n, keys) /\ Links(c, n, list, spare)
      /\ c.head = FirstOf(list) /\ c.tail = LastOf(list)
      /\ c.free = FirstOf(spare)
      /\ \A i \in DOMAIN list : c.next[list[i]] = After(list, i)
      /\ \A i \in DOMAIN list : c.prev[list[i]] = Before(list, i)
      /\ \A i \in DOMAIN spare : c.next[spare[i]] = After(spare, i)
      /\ \A e \in 1 .. n : e \notin RangeOf(list) => c.prev[e] = Nil
  BY DEF Represents, Links
<1>3. /\ list \in Strings(1 .. n) /\ spare \in Strings(1 .. n)
      /\ DOMAIN list = 1 .. Len(list) /\ DOMAIN ks = 1 .. Len(list)
      /\ Len(list) \in Nat /\ ks \in Strings(keys) /\ Len(ks) = Len(list)
      /\ RangeOf(c.table) = RangeOf(list)
      /\ RangeOf(list) \cap RangeOf(spare) = {}
  BY <1>1 DEF Layout
<1>4. Order(c) = list
  <2>1. Walk(c, FirstOf(list)) = list
    BY <1>2, <1>3, WalkOfList
  <2>. QED
    BY <2>1, <1>2 DEF Order
<1>5. Walk(c, c.free) = spare
  <2>1. Walk(c, FirstOf(spare)) = spare
    BY <1>2, <1>3, WalkOfList
  <2>. QED
    BY <2>1, <1>2
<1>6. OrderOfKeys(c) = ks
  <2>1. \A i \in 1 .. Len(list) : KeyOf(c, list[i]) = ks[i]
    BY <1>3, KeyOfRepresented
  <2>2. OrderOfKeys(c) = [i \in 1 .. Len(list) |-> KeyOf(c, list[i])]
    BY <1>3, <1>4 DEF OrderOfKeys
  <2>3. ks = [i \in 1 .. Len(list) |-> ks[i]]
    BY <1>3 DEF Strings
  <2>. QED
    BY <2>1, <2>2, <2>3
<1>7. Elements(c) = 1 .. n
  BY <1>2 DEF Caches, Elements
<1>8. IF c.block THEN RangeOf(spare) = (1 .. n) \ RangeOf(list)
      ELSE RangeOf(spare) = {}
  <2>1. RangeOf(spare) \subseteq 1 .. n
    BY <1>3 DEF Strings, RangeOf
  <2>2. CASE c.block
    <3>1. RangeOf(list) \cup RangeOf(spare) = 1 .. n
      BY <2>2 DEF Represents
    <3>. QED
      BY <2>1, <2>2, <3>1, <1>3
  <2>3. CASE ~c.block
    <3>1. spare = << >>
      BY <2>3 DEF Represents
    <3>. QED
      BY <2>3, <3>1 DEF RangeOf
  <2>. QED
    BY <2>2, <2>3
<1>9. Linked(c)
  <2>1. Len(list) = Size(c)
    BY <1>3, LayoutCount
  <2>2. c.tail = IF list = << >> THEN Nil ELSE list[Len(list)]
    BY <1>2 DEF LastOf
  <2>3. \A i \in 1 .. Len(list) :
          c.prev[list[i]] = IF i = 1 THEN Nil ELSE list[i - 1]
    BY <1>2, <1>3 DEF Before
  <2>4. list # << >> => c.next[c.tail] = Nil
    <3>1. list # << >> => Len(list) \in DOMAIN list
      BY <1>3, EmptySeq DEF Strings
    <3>. QED
      BY <3>1, <2>2, <1>2 DEF After
  <2>5. RangeOf(Walk(c, c.free)) =
          IF c.block THEN Elements(c) \ RangeOf(list) ELSE {}
    BY <1>5, <1>7, <1>8
  <2>6. \A e \in Elements(c) \ RangeOf(list) : c.prev[e] = Nil
    BY <1>2, <1>7
  <2>. QED
    BY <1>3, <1>4, <2>1, <2>2, <2>3, <2>4, <2>5, <2>6 DEF Linked
<1>. QED
  BY <1>4, <1>6, <1>9

\* A new cache has nothing in either list.
LEMMA NewCacheRepresents ==
  ASSUME NEW n \in Nat, NEW keys
  PROVE  Represents(NewCache(n), n, keys, << >>, << >>, << >>)
<1>. DEFINE c == NewCache(n)
<1>1. /\ << >> \in Strings(1 .. n) /\ << >> \in Strings(keys)
      /\ RangeOf(<< >>) = {} /\ Len(<< >>) = 0 /\ DOMAIN << >> = {}
  BY EmptySeq DEF Strings, Distinct, RangeOf
<1>2. /\ c.table = << >> /\ c.block = FALSE /\ c.free = Nil /\ c.head = Nil
      /\ c.tail = Nil /\ \A e \in 1 .. n : c.next[e] = Nil /\ c.prev[e] = Nil
  BY DEF NewCache
<1>3. c \in Caches(n, keys)
  <2>1. << >> \in Tables(n, keys)
    <3>1. << >> \in [{} -> 1 .. n]
      BY <1>1
    <3>. QED
      BY <3>1 DEF Tables
  <2>. QED
    BY <2>1 DEF NewCache, Caches
<1>. HIDE DEF c
<1>4. Links(c, n, << >>, << >>)
  BY <1>1, <1>2 DEF Links, FirstOf, LastOf
<1>5. Represents(c, n, keys, << >>, << >>, << >>)
  BY <1>1, <1>2, <1>3, <1>4 DEF Represents
<1>. QED
  BY <1>5 DEF c
-----------------------------------------------------------------------------
\* A cache whose links are those of some lists: what the calls of lru_cache.h
\* make of a new one.
Good(c, n, keys) ==
  \E list, ks, spare : Represents(c, n, keys, list, ks, spare)

\* What its user may rely on.
Sound(c, n, keys) ==
  /\ Linked(c)
  /\ c \in Caches(n, keys)
  /\ OrderOfKeys(c) \in Strings(keys)
  /\ DOMAIN c.table = RangeOf(OrderOfKeys(c))
  /\ DOMAIN c.table \subseteq keys
  /\ c.table \in [DOMAIN c.table -> 1 .. n]
  /\ Size(c) = Len(OrderOfKeys(c)) /\ Size(c) \in 0 .. n
  /\ RangeOf(Order(c)) = RangeOf(c.table)
  /\ \A k \in DOMAIN c.table : KeyOf(c, c.table[k]) = k
  /\ Size(c) # 0 => /\ Size(c) \in DOMAIN OrderOfKeys(c)
                    /\ KeyOf(c, c.tail) = OrderOfKeys(c)[Size(c)]

\* A cache that was reached by calls is sound.
LEMMA GoodIsSound ==
  ASSUME NEW n \in Nat, NEW keys, Nil \notin 1 .. n, NEW c, Good(c, n, keys)
  PROVE  Sound(c, n, keys)
<1>1. PICK list, ks, spare : Represents(c, n, keys, list, ks, spare)
  BY DEF Good
<1>2. Layout(c, n, keys, list, ks, spare)
  BY <1>1, RepresentedLayout
<1>3. Order(c) = list /\ OrderOfKeys(c) = ks /\ Linked(c)
  BY <1>1, RepresentedIsLinked
<1>4. Len(list) <= n /\ Size(c) = Len(ks)
  BY <1>1, LayoutCount
<1>5. /\ ks \in Strings(keys) /\ Len(ks) = Len(list) /\ Len(list) \in Nat
      /\ DOMAIN list = 1 .. Len(list) /\ DOMAIN ks = 1 .. Len(list)
      /\ DOMAIN c.table = RangeOf(ks) /\ c.table \in [RangeOf(ks) -> 1 .. n]
      /\ RangeOf(c.table) = RangeOf(list)
      /\ \A i \in 1 .. Len(list) : c.table[ks[i]] = list[i] /\ ks[i] \in keys
  BY <1>2 DEF Layout
<1>6. DOMAIN c.table \subseteq keys
  BY <1>5 DEF RangeOf
<1>7. \A p \in DOMAIN list : KeyOf(c, list[p]) = ks[p]
  BY <1>1, KeyOfRepresented
<1>8. ASSUME NEW k \in DOMAIN c.table PROVE KeyOf(c, c.table[k]) = k
  <2>1. PICK i \in DOMAIN ks : k = ks[i]
    BY <1>5 DEF RangeOf
  <2>. QED
    BY <2>1, <1>5, <1>7
<1>9. Size(c) # 0 => Size(c) \in DOMAIN ks /\ KeyOf(c, c.tail) = ks[Size(c)]
  <2>. SUFFICES ASSUME Size(c) # 0
                PROVE  Size(c) \in DOMAIN ks /\ KeyOf(c, c.tail) = ks[Size(c)]
    OBVIOUS
  <2>1. Len(list) # 0 /\ Size(c) = Len(list)
    BY <1>4, <1>5
  <2>2. list # << >>
    BY <2>1
  <2>3. c.tail = list[Len(list)]
    BY <1>1, <2>2 DEF Represents, Links, LastOf
  <2>4. Len(list) \in DOMAIN list
    BY <1>5, <2>1
  <2>. QED
    BY <1>5, <1>7, <2>1, <2>3, <2>4
<1>10. c \in Caches(n, keys)
  BY <1>1 DEF Represents
<1>. QED
  BY <1>3, <1>4, <1>5, <1>6, <1>8, <1>9, <1>10 DEF Sound

\* Erase() as its user sees it.
ErasedAt(c, n, keys, p) ==
  LET k == OrderOfKeys(c)[p]
      d == Erase(c, k)
  IN  /\ Good(d, n, keys)
      /\ OrderOfKeys(d) = Without(OrderOfKeys(c), p)
      /\ DOMAIN d.table = DOMAIN c.table \ {k}
      /\ \A x \in DOMAIN d.table : d.table[x] = c.table[x]

\* Erase() of a key leaves the others where they were.
LEMMA GoodErase ==
  ASSUME NEW n \in Nat, NEW keys, Nil \notin 1 .. n, NEW c, Good(c, n, keys),
         NEW p \in DOMAIN OrderOfKeys(c)
  PROVE  ErasedAt(c, n, keys, p)
<1>1. PICK list, ks, spare : Represents(c, n, keys, list, ks, spare)
  BY DEF Good
<1>2. OrderOfKeys(c) = ks
  BY <1>1, RepresentedIsLinked
<1>3. p \in DOMAIN list /\ DOMAIN c.table = RangeOf(ks)
  <2>1. Layout(c, n, keys, list, ks, spare)
    BY <1>1, RepresentedLayout
  <2>. QED
    BY <1>2, <2>1 DEF Layout
<1>. DEFINE k == ks[p]
            d == Erase(c, k)
            e == list[p]
<1>4. Represents(d, n, keys, Without(list, p), Without(ks, p),
                 Pushed(list[p], spare))
  BY <1>1, <1>3, EraseRepresents
<1>5. Good(d, n, keys) /\ OrderOfKeys(d) = Without(ks, p)
  BY <1>4, RepresentedIsLinked DEF Good
<1>6. d.table = [x \in DOMAIN c.table \ {k} |-> c.table[x]]
  <2>1. HasKey(c, k) /\ c.table[k] = e /\ KeyOf(c, e) = k
    BY <1>1, <1>3, KeyOfRepresented
  <2>2. d = Evict(c, e)
    BY <2>1 DEF Erase
  <2>3. c \in Caches(n, keys)
    BY <1>1 DEF Represents
  <2>. HIDE DEF d, k, e
  <2>. QED
    BY <2>1, <2>2, <2>3
       DEF Evict, PushFreeList, RemoveFromLRU, Caches, Restrict
<1>. QED
  BY <1>2, <1>5, <1>6 DEF ErasedAt

\* MutableLookup() as its user sees it.
LEMMA GoodLookup ==
  ASSUME NEW n \in Nat, NEW keys, Nil \notin 1 .. n, NEW c, Good(c, n, keys),
         NEW p \in DOMAIN OrderOfKeys(c)
  PROVE  LET k == OrderOfKeys(c)[p]
             d == Lookup(c, k)
         IN  /\ Good(d, n, keys)
             /\ OrderOfKeys(d) = Pushed(k, Without(OrderOfKeys(c), p))
             /\ d.table = c.table
<1>1. PICK list, ks, spare : Represents(c, n, keys, list, ks, spare)
  BY DEF Good
<1>2. OrderOfKeys(c) = ks
  BY <1>1, RepresentedIsLinked
<1>3. p \in DOMAIN list
  <2>1. Layout(c, n, keys, list, ks, spare)
    BY <1>1, RepresentedLayout
  <2>. QED
    BY <1>2, <2>1 DEF Layout
<1>. DEFINE k == ks[p]
            d == Lookup(c, k)
<1>4. /\ Represents(d, n, keys, Pushed(list[p], Without(list, p)),
                    Pushed(ks[p], Without(ks, p)), spare)
      /\ d.table = c.table
  BY <1>1, <1>3, LookupRepresents
<1>5. Good(d, n, keys) /\ OrderOfKeys(d) = Pushed(k, Without(ks, p))
  BY <1>4, RepresentedIsLinked DEF Good
<1>. QED
  BY <1>2, <1>4, <1>5

\* Insert() as its user sees it: of a key that is not there...
LEMMA GoodInsert ==
  ASSUME NEW n \in Nat \ {0}, NEW keys, Nil \notin 1 .. n, NEW c,
         Good(c, n, keys), NEW k \in keys, ~HasKey(c, k)
  PROVE  LET d == Insert(c, k)
         IN  /\ Good(d, n, keys)
             /\ OrderOfKeys(d) = Pushed(k, Kept(OrderOfKeys(c), n))
             /\ Size(c) < n =>
                  /\ DOMAIN d.table = DOMAIN c.table \cup {k}
                  /\ d.table[k] \in (1 .. n) \ RangeOf(c.table)
                  /\ RangeOf(d.table) = RangeOf(c.table) \cup {d.table[k]}
<1>1. PICK list, ks, spare : Represents(c, n, keys, list, ks, spare)
  BY DEF Good
<1>2. OrderOfKeys(c) = ks
  BY <1>1, RepresentedIsLinked
<1>. DEFINE d == Insert(c, k)
            more == Kept(list, n)
            kmore == Kept(ks, n)
<1>3. PICK e \in 1 .. n : \E left :
        /\ Represents(d, n, keys, Pushed(e, more), Pushed(k, kmore), left)
        /\ e \notin RangeOf(more)
  BY <1>1, InsertRepresents
<1>4. PICK left :
        /\ Represents(d, n, keys, Pushed(e, more), Pushed(k, kmore), left)
        /\ e \notin RangeOf(more)
  BY <1>3
<1>5. Good(d, n, keys) /\ OrderOfKeys(d) = Pushed(k, kmore)
  BY <1>4, RepresentedIsLinked DEF Good
<1>6. ASSUME Size(c) < n
      PROVE  /\ DOMAIN d.table = DOMAIN c.table \cup {k}
             /\ d.table[k] \in (1 .. n) \ RangeOf(c.table)
             /\ RangeOf(d.table) = RangeOf(c.table) \cup {d.table[k]}
  <2>1. Layout(c, n, keys, list, ks, spare)
    BY <1>1, RepresentedLayout
  <2>2. Size(c) = Len(ks)
    BY <1>1, LayoutCount
  <2>3. /\ list \in Strings(1 .. n) /\ ks \in Strings(keys)
        /\ DOMAIN c.table = RangeOf(ks) /\ RangeOf(c.table) = RangeOf(list)
        /\ Len(ks) = Len(list) /\ Len(list) \in Nat
    BY <2>1 DEF Layout
  <2>4. Len(list) # n /\ Len(ks) # n
    BY <1>6, <2>2, <2>3
  <2>5. more = list /\ kmore = ks
    BY <2>4 DEF Kept
  <2>. HIDE DEF d, more, kmore
  <2>6. Layout(d, n, keys, Pushed(e, list), Pushed(k, ks), left)
    BY <1>4, <2>5, RepresentedLayout
  <2>7. RangeOf(Pushed(e, list)) = RangeOf(list) \cup {e}
    BY <2>3, PushedOne
  <2>8. RangeOf(Pushed(k, ks)) = RangeOf(ks) \cup {k}
    BY <2>3, PushedOne
  <2>9. d.table[k] = e
    <3>1. Len(Pushed(e, list)) = Len(list) + 1
      BY <2>3, PushedOne
    <3>2. 1 \in 1 .. Len(Pushed(e, list))
      BY <2>3, <3>1
    <3>3. d.table[Pushed(k, ks)[1]] = Pushed(e, list)[1]
      BY <2>6, <3>2 DEF Layout
    <3>4. Pushed(k, ks)[1] = k /\ Pushed(e, list)[1] = e
      BY <2>3 DEF Pushed
    <3>. QED
      BY <3>3, <3>4
  <2>10. /\ DOMAIN d.table = RangeOf(ks) \cup {k}
         /\ RangeOf(d.table) = RangeOf(list) \cup {e}
    BY <2>6, <2>7, <2>8 DEF Layout
  <2>. QED
    BY <1>4, <2>3, <2>5, <2>9, <2>10
<1>. QED
  BY <1>2, <1>5, <1>6

\* ...and of one that is.
LEMMA GoodInsertAgain ==
  ASSUME NEW n \in Nat \ {0}, NEW keys, Nil \notin 1 .. n, NEW c,
         Good(c, n, keys), NEW p \in DOMAIN OrderOfKeys(c)
  PROVE  LET k == OrderOfKeys(c)[p]
             d == Insert(c, k)
         IN  /\ Good(d, n, keys)
             /\ OrderOfKeys(d) = Pushed(k, Without(OrderOfKeys(c), p))
<1>1. PICK list, ks, spare : Represents(c, n, keys, list, ks, spare)
  BY DEF Good
<1>2. OrderOfKeys(c) = ks
  BY <1>1, RepresentedIsLinked
<1>3. p \in DOMAIN list /\ ks[p] \in keys
  <2>1. Layout(c, n, keys, list, ks, spare)
    BY <1>1, RepresentedLayout
  <2>. QED
    BY <1>2, <2>1 DEF Layout
<1>. DEFINE k == ks[p]
            d == Insert(c, k)
<1>4. \E e \in 1 .. n : \E left :
        Represents(d, n, keys, Pushed(e, Without(list, p)),
                   Pushed(k, Without(ks, p)), left)
  BY <1>1, <1>3, InsertRepresents
<1>5. Good(d, n, keys) /\ OrderOfKeys(d) = Pushed(k, Without(ks, p))
  BY <1>4, RepresentedIsLinked DEF Good
<1>. QED
  BY <1>2, <1>5

\* What the comments of lru_cache.h say of the calls: Erase() leaves the other
\* keys where they were, MutableLookup() moves the key to the head, Insert()
\* puts it there and drops the tail of a cache that is full without it.
CallsFollowRecency(c, n, keys) ==
  LET order == OrderOfKeys(c)
  IN  /\ order \in Strings(keys) /\ Len(order) <= n
      /\ \A p \in DOMAIN order :
           LET others == Without(order, p)
           IN  /\ OrderOfKeys(Erase(c, order[p])) = others
               /\ OrderOfKeys(Lookup(c, order[p])) = Pushed(order[p], others)
               /\ OrderOfKeys(Insert(c, order[p])) = Pushed(order[p], others)
      /\ \A k \in keys \ RangeOf(order) :
           /\ Erase(c, k) = c
           /\ Lookup(c, k) = c
           /\ OrderOfKeys(Insert(c, k)) = Pushed(k, Kept(order, n))

\* A cache that was reached by calls answers the next one as it should.
LEMMA GoodFollowsRecency ==
  ASSUME NEW n \in Nat \ {0}, NEW keys, Nil \notin 1 .. n, NEW c,
         Good(c, n, keys)
  PROVE  /\ Linked(c) /\ CallsFollowRecency(c, n, keys)
         /\ \A k \in keys : /\ Good(Insert(c, k), n, keys)
                            /\ Good(Lookup(c, k), n, keys)
                            /\ Good(Erase(c, k), n, keys)
<1>. DEFINE order == OrderOfKeys(c)
<1>1. /\ order \in Strings(keys) /\ DOMAIN c.table = RangeOf(order)
      /\ Size(c) = Len(order) /\ Size(c) \in 0 .. n /\ Linked(c)
  BY GoodIsSound DEF Sound
<1>2. Len(order) <= n
  BY <1>1
<1>3. ASSUME NEW p \in DOMAIN order
      PROVE  /\ Good(Erase(c, order[p]), n, keys)
             /\ Good(Lookup(c, order[p]), n, keys)
             /\ Good(Insert(c, order[p]), n, keys)
             /\ OrderOfKeys(Erase(c, order[p])) = Without(order, p)
             /\ OrderOfKeys(Lookup(c, order[p])) =
                  Pushed(order[p], Without(order, p))
             /\ OrderOfKeys(Insert(c, order[p])) =
                  Pushed(order[p], Without(order, p))
  <2>1. /\ Good(Erase(c, order[p]), n, keys)
        /\ OrderOfKeys(Erase(c, order[p])) = Without(order, p)
    <3>1. ErasedAt(c, n, keys, p)
      BY GoodErase
    <3>. QED
      BY <3>1 DEF ErasedAt
  <2>2. /\ Good(Lookup(c, order[p]), n, keys)
        /\ OrderOfKeys(Lookup(c, order[p])) =
             Pushed(order[p], Without(order, p))
    BY GoodLookup
  <2>3. /\ Good(Insert(c, order[p]), n, keys)
        /\ OrderOfKeys(Insert(c, order[p])) =
             Pushed(order[p], Without(order, p))
    BY GoodInsertAgain
  <2>. QED
    BY <2>1, <2>2, <2>3
<1>4. ASSUME NEW k \in keys, k \notin RangeOf(order)
      PROVE  /\ Erase(c, k) = c /\ Lookup(c, k) = c
             /\ Good(Insert(c, k), n, keys)
             /\ OrderOfKeys(Insert(c, k)) = Pushed(k, Kept(order, n))
  <2>1. ~HasKey(c, k)
    BY <1>1, <1>4 DEF HasKey
  <2>2. Erase(c, k) = c /\ Lookup(c, k) = c
    BY <2>1 DEF Erase, Lookup
  <2>. QED
    BY <2>1, <2>2, GoodInsert
<1>. HIDE DEF order
<1>5. ASSUME NEW k \in keys
      PROVE  /\ Good(Insert(c, k), n, keys) /\ Good(Lookup(c, k), n, keys)
             /\ Good(Erase(c, k), n, keys)
  <2>1. CASE k \in RangeOf(order)
    <3>1. PICK p \in DOMAIN order : k = order[p]
      BY <2>1 DEF RangeOf
    <3>. QED
      BY <3>1, <1>3
  <2>2. CASE k \notin RangeOf(order)
    BY <2>2, <1>4
  <2>. QED
    BY <2>1, <2>2
<1>. QED
  BY <1>1, <1>2, <1>3, <1>4, <1>5 DEF CallsFollowRecency, order

\* Whatever sequence of Insert, MutableLookup and Erase a cache of any size
\* (allocated at once) has seen, its pointers still make one list of what is in use and one of
\* what is free, and the next call does to the order of recency what the
\* comments of lru_cache.h say.
THEOREM AnyCallsFollowRecency ==
  ASSUME NEW n \in Nat \ {0}, NEW keys, Nil \notin 1 .. n, NEW m \in Nat,
         NEW cache, cache[0] = NewCache(n),
         \A i \in 1 .. m : \E k \in keys :
           cache[i] \in {Insert(cache[i - 1], k), Lookup(cache[i - 1], k),
                         Erase(cache[i - 1], k)}
  PROVE  \A i \in 0 .. m :
           Linked(cache[i]) /\ CallsFollowRecency(cache[i], n, keys)
<1>. DEFINE P == {i \in 0 .. m : Good(cache[i], n, keys)}
<1>1. 0 \in P
  <2>1. Represents(NewCache(n), n, keys, << >>, << >>, << >>)
    BY NewCacheRepresents
  <2>2. Good(cache[0], n, keys)
    BY <2>1 DEF Good
  <2>. QED
    BY <2>2
<1>2. ASSUME NEW i \in 1 .. m, i - 1 \in P PROVE i \in P
  <2>1. Good(cache[i - 1], n, keys)
    BY <1>2
  <2>2. PICK k \in keys :
          cache[i] \in {Insert(cache[i - 1], k), Lookup(cache[i - 1], k),
                        Erase(cache[i - 1], k)}
    OBVIOUS
  <2>3. Good(cache[i], n, keys)
    BY <2>1, <2>2, GoodFollowsRecency
  <2>. QED
    BY <2>3
<1>3. \A i \in 0 .. m : i \in P
  <2>. HIDE DEF P
  <2>. QED
    BY <1>1, <1>2, UpTo
<1>. QED
  BY <1>3, GoodFollowsRecency
=============================================================================
