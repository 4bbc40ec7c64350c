----------------------------- MODULE MCStateStore -----------------------------
(* Instances of StateStore for TLC. *)
EXTENDS StateStore, TLC
=============================================================================
