-------------------------- MODULE MCMissionLifecycle --------------------------
(* Instances of MissionLifecycle for TLC. *)
EXTENDS MissionLifecycle, TLC

Symmetry == Permutations(Call)
=============================================================================
