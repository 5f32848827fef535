---------------------------- MODULE MC_GraphQuery ------------------------------
(* Instances of GraphQuery for TLC. *)
EXTENDS GraphQuery, TLC

Swaps == Permutations(Users)
================================================================================
