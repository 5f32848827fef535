----------------------------- MODULE MC_Sessions -----------------------------
(* Instances of Sessions for TLC. *)
EXTENDS Sessions, TLC

Swaps == Permutations(Tokens) \cup Permutations(Handlers) \cup Permutations(Devices)
=============================================================================
