---------------------------- MODULE SessionTable ----------------------------
(***************************************************************************)
(* What SessionHandler promises of its sessions: at most MaxSessions of    *)
(* them, a new one in place of the one that was used least recently.       *)
(***************************************************************************)
EXTENDS Naturals, Sequences, SequencesExt

CONSTANTS Ids, MaxSessions

VARIABLE order  \* the ids of the sessions, the most recently used first

Init == order = << >>

Without(s, ids) ==
  LET kept[i \in 0 .. Len(s)] ==
        IF i = 0 THEN << >>
        ELSE IF s[i] \in ids THEN kept[i - 1] ELSE Append(kept[i - 1], s[i])
  IN  kept[Len(s)]

\* The id of the session that goes may be drawn again.
Create(id) ==
  LET kept == IF Len(order) = MaxSessions THEN Front(order) ELSE order
  IN  /\ id \notin ToSet(kept)
      /\ order' = <<id>> \o kept

Use(id) ==
  /\ id \in ToSet(order)
  /\ order' = <<id>> \o Without(order, {id})

Drop == order' = Without(order, ToSet(order) \ ToSet(order'))

Next ==
  \/ \E id \in Ids : Create(id) \/ Use(id)
  \/ Drop

Spec == Init /\ [][Next]_order
=============================================================================
