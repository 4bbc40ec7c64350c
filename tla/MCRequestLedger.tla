---------------------------- MODULE MCRequestLedger ----------------------------
(* Instances of RequestLedger for TLC. *)
EXTENDS RequestLedger, TLC

Symmetry == Permutations(Call) \cup Permutations(Runtime)
=============================================================================
