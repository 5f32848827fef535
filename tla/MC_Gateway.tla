------------------------------ MODULE MC_Gateway -------------------------------
(* Instances of Gateway for TLC. *)
EXTENDS Gateway
================================================================================
