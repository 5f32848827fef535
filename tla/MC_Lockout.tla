------------------------------ MODULE MC_Lockout ------------------------------
(* Instances of Lockout for TLC. *)
EXTENDS Lockout, TLC

Swaps == Permutations(Handlers)
=============================================================================
