------------------------------ MODULE LruCache ------------------------------
(***************************************************************************)
(* storage/lru_cache.h: a table of elements that are linked, by pointers   *)
(* in the elements themselves, either into the list of what is in use,     *)
(* most recent first, or into the list of what is free.  A cache is a      *)
(* record, an operation a function of one.  Caches of at most 128 elements *)
(* are modelled: they allocate all of their elements in one block.         *)
(***************************************************************************)
EXTENDS Naturals, FiniteSets, Sequences, SequencesExt, Functions

CONSTANT Nil  \* the null pointer

Elements(c) == DOMAIN c.next

(***************************************************************************)
(* LruCache(max_elements): nothing is allocated before the first Insert.   *)
(***************************************************************************)
NewCache(max) ==
  [table |-> << >>, block |-> FALSE, free |-> Nil, head |-> Nil,
   tail |-> Nil, next |-> [e \in 1 .. max |-> Nil],
   prev |-> [e \in 1 .. max |-> Nil]]

Size(c) == Cardinality(DOMAIN c.table)

HasKey(c, k) == k \in DOMAIN c.table

KeyOf(c, e) == CHOOSE k \in DOMAIN c.table : c.table[k] = e

\* What an iterator meets that starts at an element.
Walk(c, from) ==
  LET at[i \in Elements(c)] ==
        IF i = 1 THEN from
        ELSE IF at[i - 1] = Nil THEN Nil ELSE c.next[at[i - 1]]
  IN  SubSeq(at, 1, Cardinality({i \in Elements(c) : at[i] # Nil}))

\* The elements in use in the order of the list.
Order(c) == Walk(c, c.head)

OrderOfKeys(c) ==
  LET list == Order(c) IN [i \in DOMAIN list |-> KeyOf(c, list[i])]

AddBlock(c) ==
  IF c.block THEN c
  ELSE [c EXCEPT !.block = TRUE,
                 !.free = Cardinality(Elements(c)),
                 !.next = [e \in Elements(c) |-> IF e = 1 THEN Nil ELSE e - 1],
                 !.prev = [e \in Elements(c) |-> Nil]]

PushFreeList(c, e) ==
  [c EXCEPT !.prev[e] = Nil, !.next[e] = c.free, !.free = e]

\* PopFreeList() of a free list that is not empty; it returns c.free.
PopFreeList(c) ==
  LET rest == c.next[c.free]
  IN  [c EXCEPT !.free = rest, !.next[c.free] = Nil,
                !.prev = [e \in Elements(c) |->
                            IF e = rest THEN Nil ELSE @[e]]]

RemoveFromLRU(c, e) ==
  [c EXCEPT
     !.head = IF @ = e THEN c.next[e] ELSE @,
     !.tail = IF @ = e THEN c.prev[e] ELSE @,
     !.next = [x \in Elements(c) |-> CASE x = e -> Nil
                                       [] x = c.prev[e] -> c.next[e]
                                       [] OTHER -> @[x]],
     !.prev = [x \in Elements(c) |-> CASE x = e -> Nil
                                       [] x = c.next[e] -> c.prev[e]
                                       [] OTHER -> @[x]]]

PushLRUHead(c, e) ==
  IF c.head = e THEN c
  ELSE LET r == RemoveFromLRU(c, e)
       IN  [r EXCEPT !.next[e] = r.head,
                     !.head = e,
                     !.prev = [x \in Elements(c) |->
                                 IF x = r.head THEN e ELSE @[x]],
                     !.tail = IF @ = Nil THEN e ELSE @]

\* Evict() of an element in use.
Evict(c, e) ==
  LET erased ==
        [c EXCEPT !.table = Restrict(@, DOMAIN @ \ {KeyOf(c, e)})]
  IN  PushFreeList(RemoveFromLRU(erased, e), e)

Erase(c, k) == IF HasKey(c, k) THEN Evict(c, c.table[k]) ELSE c

\* The element Insert(k) is about to use is the head of the free list.
NextFreeElement(c) ==
  LET new == IF c.free = Nil THEN AddBlock(c) ELSE c
  IN  IF new.free = Nil THEN Evict(new, new.tail) ELSE new

Insert(c, k) ==
  LET r == NextFreeElement(Erase(c, k))
      e == r.free
      p == PopFreeList(r)
  IN  PushLRUHead([p EXCEPT !.table = [x \in DOMAIN @ \cup {k} |->
                                         IF x = k THEN e ELSE @[x]]], e)

\* MutableLookup(): a hit moves the element to the head.
Lookup(c, k) == IF HasKey(c, k) THEN PushLRUHead(c, c.table[k]) ELSE c

-----------------------------------------------------------------------------

RangeOf(f) == {f[x] : x \in DOMAIN f}

(***************************************************************************)
(* The links hold together: the list from the head visits exactly the      *)
(* elements of the table and ends in the tail, prev undoes next along it,  *)
(* and every other allocated element is in the free list.                  *)
(***************************************************************************)
Linked(c) ==
  LET list == Order(c)
  IN  /\ RangeOf(list) = RangeOf(c.table)
      /\ Len(list) = Size(c)
      /\ c.tail = IF list = << >> THEN Nil ELSE list[Len(list)]
      /\ \A i \in 1 .. Len(list) :
           c.prev[list[i]] = IF i = 1 THEN Nil ELSE list[i - 1]
      /\ list # << >> => c.next[c.tail] = Nil
      /\ RangeOf(Walk(c, c.free)) =
           IF c.block THEN Elements(c) \ RangeOf(list) ELSE {}
      /\ \A e \in Elements(c) \ RangeOf(list) : c.prev[e] = Nil
=============================================================================
