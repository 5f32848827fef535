------------------------------- MODULE MC_Posts -------------------------------
(* Instances of Posts for TLC. *)
EXTENDS Posts, TLC

Swaps == Permutations(Users) \cup Permutations(Handlers)
=============================================================================
