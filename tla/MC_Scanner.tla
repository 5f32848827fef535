------------------------------ MODULE MC_Scanner ------------------------------
(* Instances of Scanner for TLC. *)
EXTENDS Scanner
================================================================================
