------------------------------ MODULE MC_PassApi ------------------------------
(* Instances of PassApi for TLC. *)
EXTENDS PassApi, TLC

Swaps == Permutations(Tokens) \cup Permutations(Handlers) \cup Permutations(Calls)
=============================================================================
