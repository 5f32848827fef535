-------------------------------- MODULE MC_Chat --------------------------------
(* Instances of Chat for TLC. *)
EXTENDS Chat, TLC

Swaps == Permutations(Handlers)
================================================================================
