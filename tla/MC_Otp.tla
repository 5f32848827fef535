-------------------------------- MODULE MC_Otp --------------------------------
(* Instances of Otp for TLC. *)
EXTENDS Otp, TLC

Register       == {"register"}
RegisterOrReset == {"register", "reset_pin"}

Swaps == Permutations(Targets) \cup Permutations(Phones) \cup Permutations(Handlers)
=============================================================================
