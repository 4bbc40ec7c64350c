----------------------------- MODULE MCStateLock -----------------------------
(* Instances of StateLock for TLC. *)
EXTENDS StateLock, TLC
=============================================================================
