----------------------------- MODULE Integration -----------------------------
(***************************************************************************)
(* What the execution of missions promises about the results of their      *)
(* tasks: a task is integrated once, in the wave the mission is at; a wave *)
(* is left when all its tasks are integrated, execution when all tasks     *)
(* are; after a mission is cancelled nothing of it is integrated.          *)
(***************************************************************************)
EXTENDS Naturals

CONSTANTS Mission, Task, MissionOf, WaveOf

VARIABLES
  integrated,   \* the tasks whose result is integrated and recorded
  at,           \* the wave each mission is at
  finished,     \* the missions that have left the execution phase
  stopped       \* the cancelled missions

results == <<integrated, at, finished, stopped>>

Init ==
  /\ integrated = {} /\ finished = {} /\ stopped = {}
  /\ at = [m \in Mission |-> 1]

Integrate(t) ==
  /\ t \notin integrated /\ MissionOf[t] \notin finished \cup stopped
  /\ WaveOf[t] = at[MissionOf[t]]
  /\ integrated' = integrated \cup {t}
  /\ UNCHANGED <<at, finished, stopped>>

Advance(m) ==
  /\ m \notin stopped
  /\ \A t \in Task : MissionOf[t] = m /\ WaveOf[t] = at[m] => t \in integrated
  /\ at' = [at EXCEPT ![m] = @ + 1]
  /\ UNCHANGED <<integrated, finished, stopped>>

Complete(m) ==
  /\ m \notin finished \cup stopped
  /\ \A t \in Task : MissionOf[t] = m => t \in integrated
  /\ finished' = finished \cup {m}
  /\ UNCHANGED <<integrated, at, stopped>>

Stop(m) ==
  /\ stopped' = stopped \cup {m}
  /\ UNCHANGED <<integrated, at, finished>>

Next ==
  \/ \E t \in Task : Integrate(t)
  \/ \E m \in Mission : Advance(m) \/ Complete(m) \/ Stop(m)

Spec == Init /\ [][Next]_results

=============================================================================
