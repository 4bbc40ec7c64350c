-------------------------- MODULE MCMissionExecution --------------------------
(* Instances of MissionExecution for TLC: a mission with two siblings in its  *)
(* first wave and a third task in its second, and a mission of one task that  *)
(* wants the resource of each sibling.                                        *)
EXTENDS MissionExecution, TLC

CONSTANTS m1, m2, t1, t2, t3, u1

Owners == [t \in {t1, t2, t3, u1} |-> IF t = u1 THEN m2 ELSE m1]
Waves == [t \in {t1, t2, t3, u1} |-> IF t = t3 THEN 2 ELSE 1]
\* The second mission only has runtime workers.
Modes == [m \in {m1, m2} |-> IF m = m2 THEN {TRUE} ELSE BOOLEAN]
Rivals == {{t1, u1}, {t2, u1}}

Symmetry == Permutations({t1, t2})
=============================================================================
