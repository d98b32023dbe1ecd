-------------------------- MODULE MCSessionHandler --------------------------
(***************************************************************************)
(* Two sessions at most, for three ids; the table of the handler is shown  *)
(* to implement SessionTable.  What needs more elements than that is       *)
(* checked of the operators of the cache themselves.                       *)
(***************************************************************************)
EXTENDS SessionHandler, TLC

Symmetry == Permutations(Ids)

\* All that five calls may make of a cache of three elements.
Calls(c) ==
  UNION {{Insert(c, k), Lookup(c, k), Erase(c, k)} : k \in 1 .. 4}

AfterCalls ==
  LET caches[n \in 0 .. 5] ==
        IF n = 0 THEN {NewCache(3)}
        ELSE caches[n - 1] \cup UNION {Calls(c) : c \in caches[n - 1]}
  IN  caches[5]

(***************************************************************************)
(* The calls of lru_cache.h keep every cache linked and do to the order of *)
(* recency what their comments say: Insert puts the key at the head and    *)
(* drops the tail of a full cache, MutableLookup moves it to the head,     *)
(* Erase leaves the others where they were.                                *)
(***************************************************************************)
ASSUME CacheKeepsOrder ==
  \A c \in AfterCalls, k \in 1 .. 4 :
    LET order == OrderOfKeys(c)
        others == SelectSeq(order, LAMBDA x : x # k)
    IN  /\ Linked(c)
        /\ OrderOfKeys(Insert(c, k)) =
             <<k>> \o (IF Len(others) = 3 THEN Front(others) ELSE others)
        /\ OrderOfKeys(Lookup(c, k)) =
             IF HasKey(c, k) THEN <<k>> \o others ELSE order
        /\ OrderOfKeys(Erase(c, k)) = others
=============================================================================
