----------------------------- MODULE Relationship -----------------------------
(***************************************************************************)
(* What the relation service promises two people, each operation in one    *)
(* step: one asks, the other accepts or declines, either ends it, and the  *)
(* two directions are accepted and ended together. Once a relation is      *)
(* disturbed (two operations on it overlapped, or one was cut short)       *)
(* nothing more is promised of it; every other relation keeps its promise. *)
(***************************************************************************)
EXTENDS RelationStore

VARIABLE bond    \* the status of each direction, "none" before the first request

BondStatuses == Statuses \cup {"none", "unspecified"}

Init == bond = [e \in Edges |-> "none"]

Ask(e) ==
  /\ e.from # e.to
  /\ bond[e] \notin {"confirmed", "unspecified"}
  /\ bond' = [bond EXCEPT ![e] = "pending"]

Accept(e) ==
  /\ bond[e] = "pending"
  /\ bond' = [d \in Edges |-> IF d \in Both(e) THEN "confirmed" ELSE bond[d]]

Decline(e) ==
  /\ bond[e] = "pending"
  /\ bond' = [bond EXCEPT ![e] = "rejected"]

End(e) ==
  /\ bond[e] \notin {"none", "unspecified"}
  /\ bond' = [d \in Edges |-> IF d \in Both(e) /\ bond[d] # "none" THEN "revoked" ELSE bond[d]]

Disturb(e) ==
  bond' = [d \in Edges |-> IF d \in Both(e) THEN "unspecified" ELSE bond[d]]

Next == \E e \in Edges : Ask(e) \/ Accept(e) \/ Decline(e) \/ End(e) \/ Disturb(e)

Spec == Init /\ [][Next]_bond

-----------------------------------------------------------------------------
BondTypeOK == bond \in [Edges -> BondStatuses]

\* The directions of a relation are confirmed together, and disturbed together.
Mutual ==
  \A e \in Edges : \A s \in {"confirmed", "unspecified"} : bond[e] = s <=> bond[Rev(e)] = s
=============================================================================
