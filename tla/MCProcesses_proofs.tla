-------------------------- MODULE MCProcesses_proofs -------------------------
(***************************************************************************)
(* Proofs about the services of MCProcesses: an inductive invariant of the *)
(* remote host (HostInv), of the processes of machine actions (MachineInv),*)
(* of the live sessions (LiveInv) and of the final validation (PlanInv);   *)
(* that of the workers (WorkerInv) is in WorkerService_proofs.  The        *)
(* behaviours of the composition are behaviours of each service, so that   *)
(* the theorems at the end are about ProcessesSpec.  None needs fairness.  *)
(***************************************************************************)
EXTENDS MCProcesses, WorkerService_proofs, FiniteSetTheorems

-----------------------------------------------------------------------------
(* The remote host *)

\* What is asked of the constants.
HostConstants == Operators \in Nat

LEMMA People ==
  ASSUME HostConstants
  PROVE  /\ Host!Operator \subseteq Host!Supervisor /\ 0 \in Host!Supervisor
         /\ Host!NoSupervisor \notin Host!Supervisor
BY DEF HostConstants, Host!Operator, Host!Supervisor, Host!NoSupervisor

-----------------------------------------------------------------------------
(* Types *)

\* TypeOK with names for the sets of phases.
HostPlace == {"absent", "open", "write", "probe", "remove", "snapshot", "loop", "spawned", "wait",
          "exited", "pausing", "closing", "clean", "clean pid", "clean lock", "lingering", "gone"}
OperatorStep == {"idle", "save", "write", "look", "act", "remove", "restore", "register", "done"}
HostState == {"none", "alive", "exited"}
HostWish == {"running", "paused", "stopped"}
Someone == Host!Supervisor \cup {Host!NoSupervisor}

LEMMA HostNames ==
  /\ "absent" \in HostPlace /\ "open" \in HostPlace /\ "write" \in HostPlace
  /\ "probe" \in HostPlace /\ "remove" \in HostPlace /\ "snapshot" \in HostPlace
  /\ "loop" \in HostPlace /\ "spawned" \in HostPlace /\ "wait" \in HostPlace
  /\ "exited" \in HostPlace /\ "pausing" \in HostPlace /\ "closing" \in HostPlace
  /\ "clean" \in HostPlace /\ "clean pid" \in HostPlace /\ "clean lock" \in HostPlace
  /\ "lingering" \in HostPlace /\ "gone" \in HostPlace
  /\ "idle" \in OperatorStep /\ "save" \in OperatorStep /\ "write" \in OperatorStep
       /\ "look" \in OperatorStep
  /\ "act" \in OperatorStep /\ "remove" \in OperatorStep /\ "restore" \in OperatorStep
  /\ "register" \in OperatorStep /\ "done" \in OperatorStep
  /\ "none" \in HostState /\ "alive" \in HostState /\ "exited" \in HostState
  /\ "running" \in HostWish /\ "paused" \in HostWish /\ "stopped" \in HostWish
BY DEF HostPlace, OperatorStep, HostState, HostWish

HostFiles ==
  /\ installed \in BOOLEAN /\ control \in HostWish \cup {"missing"}
  /\ hostLock \in [owner : Someone, written : BOOLEAN] /\ snapshot \in Someone
HostProcesses ==
  /\ hostPc \in [Host!Supervisor -> HostPlace]
  /\ attempt \in [Host!Supervisor -> 1..2]
  /\ seen \in [Host!Supervisor -> [owner : Someone, written : BOOLEAN]]
  /\ aborted \subseteq Host!Supervisor /\ mute \subseteq Host!Supervisor
  /\ host \in [Host!Supervisor -> HostState]
HostOperators ==
  /\ step \in [Host!Operator -> OperatorStep]
  /\ command \in [Host!Operator -> Host!Command]
  /\ looked \in [Host!Operator -> Someone]
  /\ saved \in [Host!Operator -> HostWish]
  /\ left \in [Host!Operator -> SUBSET Host!Files]
HostHistory ==
  hostFaults \in Nat /\ killed \subseteq Host!Supervisor /\ raced \in BOOLEAN
    /\ missed \in BOOLEAN

HostTyped == HostFiles /\ HostProcesses /\ HostOperators /\ HostHistory

LEMMA HostTypedIsTypeOK == HostTyped <=> Host!TypeOK
BY DEF HostTyped, HostFiles, HostProcesses, HostOperators, HostHistory, Host!TypeOK, HostPlace,
       OperatorStep, HostState, HostWish, Someone, Host!Lock

LEMMA NoLockIsLock == Host!NoLock \in [owner : Someone, written : BOOLEAN]
BY DEF Host!NoLock, Someone

LEMMA HostTypeInit == ASSUME HostConstants, Host!Init PROVE HostTyped
<1>1. HostFiles
  BY HostNames DEF Host!Init, HostFiles, Host!NoLock, Someone
<1>2. HostProcesses
  <2>1. hostPc \in [Host!Supervisor -> HostPlace]
    BY HostNames DEF Host!Init
  <2>2. host \in [Host!Supervisor -> HostState]
    BY HostNames DEF Host!Init
  <2>3. Host!NoLock \in [owner : Someone, written : BOOLEAN]
    BY DEF Host!NoLock, Someone
  <2> QED
    BY <2>1, <2>2, <2>3 DEF Host!Init, HostProcesses
<1>3. HostOperators
  BY HostNames DEF Host!Init, HostOperators, Someone
<1>4. HostHistory
  BY DEF Host!Init, HostHistory
<1> QED
  BY <1>1, <1>2, <1>3, <1>4 DEF HostTyped

LEMMA HostTypeStep == ASSUME HostConstants, HostTyped, [Host!Next]_(Host!hostVars)
  PROVE HostTyped'
<1>t. HostFiles /\ HostProcesses /\ HostOperators /\ HostHistory
  BY DEF HostTyped
<1> USE DEF Host!Goto, Host!To, Host!Fault, Host!NoFault, Host!LogFails, Host!LogWorks,
      Host!history, Host!operators, Host!processes
<1>0. CASE UNCHANGED Host!hostVars
  BY <1>0, <1>t DEF Host!hostVars, HostTyped, HostFiles, HostProcesses, HostOperators, HostHistory
<1>1. ASSUME NEW s \in Host!Supervisor, Host!Open(s) PROVE HostTyped'
  <2>1. HostFiles'
    <3>1. hostLock' \in {hostLock, [owner |-> s, written |-> FALSE]}
      BY <1>1 DEF Host!Open
    <3>2. [owner |-> s, written |-> FALSE] \in [owner : Someone, written : BOOLEAN]
      BY DEF Someone
    <3>3. UNCHANGED <<installed, control, snapshot>>
      BY <1>1 DEF Host!Open
    <3> QED
      BY <3>1, <3>2, <3>3, <1>t DEF HostFiles
  <2>2. HostProcesses'
    BY <1>1, <1>t, HostNames, NoLockIsLock DEF Host!Open, HostProcesses
  <2>3. HostOperators'
    BY <1>1, <1>t, HostNames DEF Host!Open, HostOperators, Someone
  <2>4. HostHistory'
    BY <1>1, <1>t DEF Host!Open, HostHistory
  <2> QED
    BY <2>1, <2>2, <2>3, <2>4 DEF HostTyped
<1>2. ASSUME NEW s \in Host!Supervisor, Host!WriteLock(s) PROVE HostTyped'
  <2>1. HostFiles'
    BY <1>2, <1>t, NoLockIsLock DEF Host!WriteLock, HostFiles, Someone
  <2>2. HostProcesses'
    <3>1. hostPc' \in [Host!Supervisor -> HostPlace]
      BY <1>2, <1>t, HostNames DEF Host!WriteLock, HostProcesses
    <3>2. host' \in [Host!Supervisor -> HostState]
      BY <1>2, <1>t, HostNames DEF Host!WriteLock, HostProcesses
    <3>3. mute' \subseteq Host!Supervisor /\ UNCHANGED <<attempt, seen, aborted>>
      BY <1>2, <1>t DEF Host!WriteLock, HostProcesses
    <3> QED
      BY <3>1, <3>2, <3>3, <1>t DEF HostProcesses
  <2>3. HostOperators'
    BY <1>2, <1>t, HostNames DEF Host!WriteLock, HostOperators, Someone
  <2>4. HostHistory'
    BY <1>2, <1>t DEF Host!WriteLock, HostHistory
  <2> QED
    BY <2>1, <2>2, <2>3, <2>4 DEF HostTyped
<1>3. ASSUME NEW s \in Host!Supervisor, Host!Probe(s) PROVE HostTyped'
  <2>1. HostFiles'
    BY <1>3, <1>t, NoLockIsLock DEF Host!Probe, Host!Alive, HostFiles, Someone
  <2>2. HostProcesses'
    BY <1>3, <1>t, HostNames, NoLockIsLock DEF Host!Probe, Host!Alive, HostProcesses, HostFiles
  <2>3. HostOperators'
    BY <1>3, <1>t, HostNames DEF Host!Probe, Host!Alive, HostOperators, Someone
  <2>4. HostHistory'
    BY <1>3, <1>t DEF Host!Probe, Host!Alive, HostHistory
  <2> QED
    BY <2>1, <2>2, <2>3, <2>4 DEF HostTyped
<1>4. ASSUME NEW s \in Host!Supervisor, Host!RemoveLock(s) PROVE HostTyped'
  <2>1. HostFiles'
    BY <1>4, <1>t, NoLockIsLock DEF Host!RemoveLock, HostFiles, Someone
  <2>2. HostProcesses'
    <3>1. \E p \in HostPlace : hostPc' = [hostPc EXCEPT ![s] = p]
      BY <1>4, HostNames DEF Host!RemoveLock, Host!Goto
    <3>2. attempt' \in {attempt, [attempt EXCEPT ![s] = 2]}
            /\ seen' = [seen EXCEPT ![s] = Host!NoLock]
      BY <1>4 DEF Host!RemoveLock
    <3>3. UNCHANGED <<aborted, mute, host>>
      BY <1>4 DEF Host!RemoveLock
    <3> QED
      BY <3>1, <3>2, <3>3, <1>t, NoLockIsLock DEF HostProcesses
  <2>3. HostOperators'
    BY <1>4, <1>t, HostNames DEF Host!RemoveLock, HostOperators, Someone
  <2>4. HostHistory'
    BY <1>4, <1>t DEF Host!RemoveLock, HostHistory
  <2> QED
    BY <2>1, <2>2, <2>3, <2>4 DEF HostTyped
<1>5. ASSUME NEW s \in Host!Supervisor, Host!WriteSnapshot(s) PROVE HostTyped'
  <2>1. HostFiles'
    BY <1>5, <1>t DEF Host!WriteSnapshot, Host!Snapshot, HostFiles, Someone
  <2>2. HostProcesses'
    <3>1. hostPc' \in [Host!Supervisor -> HostPlace]
      BY <1>5, <1>t, HostNames DEF Host!WriteSnapshot, Host!Snapshot, HostProcesses
    <3>2. host' \in [Host!Supervisor -> HostState]
      BY <1>5, <1>t, HostNames DEF Host!WriteSnapshot, Host!Snapshot, HostProcesses
    <3>3. mute' \subseteq Host!Supervisor /\ UNCHANGED <<attempt, seen, aborted>>
      BY <1>5, <1>t DEF Host!WriteSnapshot, Host!Snapshot, HostProcesses
    <3> QED
      BY <3>1, <3>2, <3>3, <1>t DEF HostProcesses
  <2>3. HostOperators'
    BY <1>5, <1>t, HostNames DEF Host!WriteSnapshot, Host!Snapshot, HostOperators, Someone
  <2>4. HostHistory'
    BY <1>5, <1>t DEF Host!WriteSnapshot, Host!Snapshot, HostHistory
  <2> QED
    BY <2>1, <2>2, <2>3, <2>4 DEF HostTyped
<1>6. ASSUME NEW s \in Host!Supervisor, Host!Leave(s) PROVE HostTyped'
  <2>1. HostFiles'
    BY <1>6, <1>t DEF Host!Leave, HostFiles, Someone
  <2>2. HostProcesses'
    BY <1>6, <1>t, HostNames DEF Host!Leave, HostProcesses
  <2>3. HostOperators'
    BY <1>6, <1>t, HostNames DEF Host!Leave, HostOperators, Someone
  <2>4. HostHistory'
    BY <1>6, <1>t DEF Host!Leave, HostHistory
  <2> QED
    BY <2>1, <2>2, <2>3, <2>4 DEF HostTyped
<1>7. ASSUME NEW s \in Host!Supervisor, Host!Pause(s) PROVE HostTyped'
  <2>1. HostFiles'
    BY <1>7, <1>t DEF Host!Pause, HostFiles, Someone
  <2>2. HostProcesses'
    <3>1. hostPc' \in [Host!Supervisor -> HostPlace]
      BY <1>7, <1>t, HostNames DEF Host!Pause, HostProcesses
    <3>2. host' \in [Host!Supervisor -> HostState]
      BY <1>7, <1>t, HostNames DEF Host!Pause, HostProcesses
    <3>3. mute' \subseteq Host!Supervisor /\ UNCHANGED <<attempt, seen, aborted>>
      BY <1>7, <1>t DEF Host!Pause, HostProcesses
    <3> QED
      BY <3>1, <3>2, <3>3, <1>t DEF HostProcesses
  <2>3. HostOperators'
    BY <1>7, <1>t, HostNames DEF Host!Pause, HostOperators, Someone
  <2>4. HostHistory'
    BY <1>7, <1>t DEF Host!Pause, HostHistory
  <2> QED
    BY <2>1, <2>2, <2>3, <2>4 DEF HostTyped
<1>8. ASSUME NEW s \in Host!Supervisor, Host!Serve(s) PROVE HostTyped'
  <2>1. HostFiles'
    BY <1>8, <1>t DEF Host!Serve, HostFiles, Someone
  <2>2. HostProcesses'
    <3>1. hostPc' \in [Host!Supervisor -> HostPlace]
      BY <1>8, <1>t, HostNames DEF Host!Serve, HostProcesses
    <3>2. host' \in [Host!Supervisor -> HostState]
      BY <1>8, <1>t, HostNames DEF Host!Serve, HostProcesses
    <3>3. mute' \subseteq Host!Supervisor /\ UNCHANGED <<attempt, seen, aborted>>
      BY <1>8, <1>t DEF Host!Serve, HostProcesses
    <3> QED
      BY <3>1, <3>2, <3>3, <1>t DEF HostProcesses
  <2>3. HostOperators'
    BY <1>8, <1>t, HostNames DEF Host!Serve, HostOperators, Someone
  <2>4. HostHistory'
    BY <1>8, <1>t DEF Host!Serve, HostHistory
  <2> QED
    BY <2>1, <2>2, <2>3, <2>4 DEF HostTyped
<1>9. ASSUME NEW s \in Host!Supervisor, Host!Wait(s) PROVE HostTyped'
  <2>1. HostFiles'
    BY <1>9, <1>t DEF Host!Wait, HostFiles, Someone
  <2>2. HostProcesses'
    BY <1>9, <1>t, HostNames DEF Host!Wait, HostProcesses
  <2>3. HostOperators'
    BY <1>9, <1>t, HostNames DEF Host!Wait, HostOperators, Someone
  <2>4. HostHistory'
    BY <1>9, <1>t DEF Host!Wait, HostHistory
  <2> QED
    BY <2>1, <2>2, <2>3, <2>4 DEF HostTyped
<1>10. ASSUME NEW s \in Host!Supervisor, Host!PauseHost(s) PROVE HostTyped'
  <2>1. HostFiles'
    BY <1>10, <1>t DEF Host!PauseHost, Host!StopHost, HostFiles, Someone
  <2>2. HostProcesses'
    <3>1. hostPc' \in [Host!Supervisor -> HostPlace]
      BY <1>10, <1>t, HostNames DEF Host!PauseHost, Host!StopHost, HostProcesses
    <3>2. host' \in [Host!Supervisor -> HostState]
      BY <1>10, <1>t, HostNames DEF Host!PauseHost, Host!StopHost, HostProcesses
    <3>3. mute' \subseteq Host!Supervisor /\ UNCHANGED <<attempt, seen, aborted>>
      BY <1>10, <1>t DEF Host!PauseHost, Host!StopHost, HostProcesses
    <3> QED
      BY <3>1, <3>2, <3>3, <1>t DEF HostProcesses
  <2>3. HostOperators'
    BY <1>10, <1>t, HostNames DEF Host!PauseHost, Host!StopHost, HostOperators, Someone
  <2>4. HostHistory'
    BY <1>10, <1>t DEF Host!PauseHost, Host!StopHost, HostHistory
  <2> QED
    BY <2>1, <2>2, <2>3, <2>4 DEF HostTyped
<1>11. ASSUME NEW s \in Host!Supervisor, Host!Close(s) PROVE HostTyped'
  <2>1. HostFiles'
    BY <1>11, <1>t DEF Host!Close, Host!StopHost, HostFiles, Someone
  <2>2. HostProcesses'
    <3>1. hostPc' \in [Host!Supervisor -> HostPlace]
      BY <1>11, <1>t, HostNames DEF Host!Close, Host!StopHost, HostProcesses
    <3>2. host' \in [Host!Supervisor -> HostState]
      BY <1>11, <1>t, HostNames DEF Host!Close, Host!StopHost, HostProcesses
    <3>3. mute' \subseteq Host!Supervisor /\ UNCHANGED <<attempt, seen, aborted>>
      BY <1>11, <1>t DEF Host!Close, Host!StopHost, HostProcesses
    <3> QED
      BY <3>1, <3>2, <3>3, <1>t DEF HostProcesses
  <2>3. HostOperators'
    BY <1>11, <1>t, HostNames DEF Host!Close, Host!StopHost, HostOperators, Someone
  <2>4. HostHistory'
    BY <1>11, <1>t DEF Host!Close, Host!StopHost, HostHistory
  <2> QED
    BY <2>1, <2>2, <2>3, <2>4 DEF HostTyped
<1>12. ASSUME NEW s \in Host!Supervisor, Host!Linger(s) PROVE HostTyped'
  <2>1. HostFiles'
    BY <1>12, <1>t DEF Host!Linger, HostFiles, Someone
  <2>2. HostProcesses'
    BY <1>12, <1>t, HostNames DEF Host!Linger, HostProcesses
  <2>3. HostOperators'
    BY <1>12, <1>t, HostNames DEF Host!Linger, HostOperators, Someone
  <2>4. HostHistory'
    BY <1>12, <1>t DEF Host!Linger, HostHistory
  <2> QED
    BY <2>1, <2>2, <2>3, <2>4 DEF HostTyped
<1>13. ASSUME NEW s \in Host!Supervisor, Host!Clean(s) PROVE HostTyped'
  <2>1. HostFiles'
    <3>1. snapshot' \in {snapshot, Host!NoSupervisor} /\ hostLock' \in {hostLock, Host!NoLock}
      BY <1>13 DEF Host!Clean
    <3>2. installed' = installed /\ control' = control
      BY <1>13 DEF Host!Clean
    <3> QED
      BY <3>1, <3>2, <1>t, NoLockIsLock DEF HostFiles, Someone
  <2>2. HostProcesses'
    <3>1. \E p \in HostPlace : hostPc' = [hostPc EXCEPT ![s] = p]
      BY <1>13, HostNames DEF Host!Clean, Host!Goto
    <3>2. UNCHANGED <<attempt, seen, aborted, mute, host>>
      BY <1>13 DEF Host!Clean
    <3> QED
      BY <3>1, <3>2, <1>t DEF HostProcesses
  <2>3. HostOperators'
    BY <1>13, <1>t, HostNames DEF Host!Clean, HostOperators, Someone
  <2>4. HostHistory'
    BY <1>13, <1>t DEF Host!Clean, HostHistory
  <2> QED
    BY <2>1, <2>2, <2>3, <2>4 DEF HostTyped
<1>14. ASSUME NEW s \in Host!Supervisor, Host!HostExits(s) PROVE HostTyped'
  <2>1. HostFiles'
    BY <1>14, <1>t DEF Host!HostExits, HostFiles, Someone
  <2>2. HostProcesses'
    BY <1>14, <1>t, HostNames DEF Host!HostExits, HostProcesses
  <2>3. HostOperators'
    BY <1>14, <1>t, HostNames DEF Host!HostExits, HostOperators, Someone
  <2>4. HostHistory'
    BY <1>14, <1>t DEF Host!HostExits, HostHistory
  <2> QED
    BY <2>1, <2>2, <2>3, <2>4 DEF HostTyped
<1>15. ASSUME NEW s \in Host!Supervisor, Host!Dies(s) PROVE HostTyped'
  <2>1. HostFiles'
    BY <1>15, <1>t DEF Host!Dies, Host!Alive, HostFiles, Someone
  <2>2. HostProcesses'
    BY <1>15, <1>t, HostNames DEF Host!Dies, Host!Alive, HostProcesses
  <2>3. HostOperators'
    BY <1>15, <1>t, HostNames DEF Host!Dies, Host!Alive, HostOperators, Someone
  <2>4. HostHistory'
    BY <1>15, <1>t DEF Host!Dies, Host!Alive, HostHistory
  <2> QED
    BY <2>1, <2>2, <2>3, <2>4 DEF HostTyped
<1>16. ASSUME NEW o \in Host!Operator, Host!Give(o) PROVE HostTyped'
  <2>1. HostFiles'
    BY <1>16, <1>t DEF Host!Give, HostFiles, Someone
  <2>2. HostProcesses'
    BY <1>16, <1>t, HostNames DEF Host!Give, HostProcesses
  <2>3. HostOperators'
    BY <1>16, <1>t, HostNames DEF Host!Give, HostOperators, Someone
  <2>4. HostHistory'
    BY <1>16, <1>t DEF Host!Give, HostHistory
  <2> QED
    BY <2>1, <2>2, <2>3, <2>4 DEF HostTyped
<1>17. ASSUME NEW o \in Host!Operator, Host!Save(o) PROVE HostTyped'
  <2>1. HostFiles'
    BY <1>17, <1>t, HostNames DEF Host!Save, HostFiles, Someone
  <2>2. HostProcesses'
    BY <1>17, <1>t, HostNames DEF Host!Save, HostProcesses
  <2>3. HostOperators'
    BY <1>17, <1>t, HostNames DEF Host!Save, HostOperators, HostFiles
  <2>4. HostHistory'
    BY <1>17, <1>t DEF Host!Save, HostHistory
  <2> QED
    BY <2>1, <2>2, <2>3, <2>4 DEF HostTyped
<1>18. ASSUME NEW o \in Host!Operator, Host!WriteControl(o) PROVE HostTyped'
  <2>1. HostFiles'
    BY <1>18, <1>t, HostNames DEF Host!WriteControl, Host!Desired, HostFiles, Someone
  <2>2. HostProcesses'
    BY <1>18, <1>t, HostNames DEF Host!WriteControl, Host!Desired, HostProcesses
  <2>3. HostOperators'
    BY <1>18, <1>t, HostNames DEF Host!WriteControl, Host!Desired, HostOperators, Someone
  <2>4. HostHistory'
    BY <1>18, <1>t DEF Host!WriteControl, Host!Desired, HostHistory
  <2> QED
    BY <2>1, <2>2, <2>3, <2>4 DEF HostTyped
<1>19. ASSUME NEW o \in Host!Operator, Host!Look(o) PROVE HostTyped'
  <2>1. HostFiles'
    BY <1>19, <1>t DEF Host!Look, HostFiles, Someone
  <2>2. HostProcesses'
    BY <1>19, <1>t, HostNames DEF Host!Look, HostProcesses
  <2>3. HostOperators'
    BY <1>19, <1>t, HostNames DEF Host!Look, HostOperators, HostFiles
  <2>4. HostHistory'
    BY <1>19, <1>t DEF Host!Look, HostHistory
  <2> QED
    BY <2>1, <2>2, <2>3, <2>4 DEF HostTyped
<1>20. ASSUME NEW o \in Host!Operator, Host!Act(o) PROVE HostTyped'
  <2>1. HostFiles'
    BY <1>20, <1>t DEF Host!Act, Host!TaskRun, HostFiles, Someone
  <2>2. HostProcesses'
    BY <1>20, <1>t, HostNames DEF Host!Act, Host!TaskRun, HostProcesses
  <2>3. HostOperators'
    BY <1>20, <1>t, HostNames DEF Host!Act, Host!TaskRun, HostOperators, Someone
  <2>4. HostHistory'
    BY <1>20, <1>t DEF Host!Act, Host!TaskRun, HostHistory
  <2> QED
    BY <2>1, <2>2, <2>3, <2>4 DEF HostTyped
<1>21. ASSUME NEW o \in Host!Operator, Host!SignalAndEnd(o) PROVE HostTyped'
  <2>1. HostFiles'
    BY <1>21, <1>t DEF Host!SignalAndEnd, Host!Alive, Host!Files, HostFiles, Someone
  <2>2. HostProcesses'
    BY <1>21, <1>t, HostNames DEF Host!SignalAndEnd, Host!Alive, Host!Files, HostProcesses
  <2>3. HostOperators'
    <3>1. step' \in {[step EXCEPT ![o] = "remove"], [step EXCEPT ![o] = "restore"]}
      BY <1>21 DEF Host!SignalAndEnd, Host!To
    <3>2. left' \in {left, [left EXCEPT ![o] = Host!Files]}
      BY <1>21 DEF Host!SignalAndEnd
    <3>3. looked' = [looked EXCEPT ![o] = Host!NoSupervisor] /\ command' = command
            /\ saved' = saved
      BY <1>21 DEF Host!SignalAndEnd
    <3> QED
      BY <3>1, <3>2, <3>3, <1>t, HostNames DEF HostOperators, Someone
  <2>4. HostHistory'
    BY <1>21, <1>t DEF Host!SignalAndEnd, Host!Alive, Host!Files, HostHistory
  <2> QED
    BY <2>1, <2>2, <2>3, <2>4 DEF HostTyped
<1>22. ASSUME NEW o \in Host!Operator, Host!RemoveFile(o) PROVE HostTyped'
  <2>1. HostFiles'
    BY <1>22, <1>t, NoLockIsLock DEF Host!RemoveFile, Host!Alive, HostFiles, Someone
  <2>2. HostProcesses'
    BY <1>22, <1>t, HostNames, NoLockIsLock DEF Host!RemoveFile, Host!Alive, HostProcesses
  <2>3. HostOperators'
    BY <1>22, <1>t, HostNames DEF Host!RemoveFile, Host!Alive, HostOperators, Someone
  <2>4. HostHistory'
    BY <1>22, <1>t DEF Host!RemoveFile, Host!Alive, HostHistory
  <2> QED
    BY <2>1, <2>2, <2>3, <2>4 DEF HostTyped
<1>23. ASSUME NEW o \in Host!Operator, Host!Restore(o) PROVE HostTyped'
  <2>1. HostFiles'
    BY <1>23, <1>t DEF Host!Restore, HostFiles, HostOperators, Someone
  <2>2. HostProcesses'
    BY <1>23, <1>t, HostNames DEF Host!Restore, HostProcesses
  <2>3. HostOperators'
    BY <1>23, <1>t, HostNames DEF Host!Restore, HostOperators, Someone
  <2>4. HostHistory'
    BY <1>23, <1>t DEF Host!Restore, HostHistory
  <2> QED
    BY <2>1, <2>2, <2>3, <2>4 DEF HostTyped
<1>24. ASSUME NEW o \in Host!Operator, Host!Register(o) PROVE HostTyped'
  <2>1. HostFiles'
    BY <1>24, <1>t DEF Host!Register, Host!TaskRun, HostFiles, Someone
  <2>2. HostProcesses'
    BY <1>24, <1>t, HostNames DEF Host!Register, Host!TaskRun, HostProcesses
  <2>3. HostOperators'
    BY <1>24, <1>t, HostNames DEF Host!Register, Host!TaskRun, HostOperators, Someone
  <2>4. HostHistory'
    <3>1. hostFaults' \in Nat
      BY <1>24, <1>t DEF Host!Register, Host!Fault, Host!NoFault, HostHistory
    <3>2. killed' = killed /\ raced' = raced
      BY <1>24 DEF Host!Register
    <3>3. missed' \in BOOLEAN
      <4>1. missed' = missed \/ Host!TaskRun(o)
        BY <1>24 DEF Host!Register
      <4> QED
        BY <4>1, <1>t DEF Host!TaskRun, HostHistory
    <3> QED
      BY <3>1, <3>2, <3>3, <1>t DEF HostHistory
  <2> QED
    BY <2>1, <2>2, <2>3, <2>4 DEF HostTyped
<1> QED
  BY <1>0, <1>1, <1>2, <1>3, <1>4, <1>5, <1>6, <1>7, <1>8, <1>9, <1>10, <1>11, <1>12, <1>13,
     <1>14, <1>15, <1>16, <1>17, <1>18, <1>19, <1>20, <1>21, <1>22, <1>23, <1>24
     DEF Host!Next, Host!Supervise, Host!Operate

-----------------------------------------------------------------------------
(* The invariant *)

Holding == {"write", "snapshot", "loop", "spawned", "wait", "exited", "pausing", "closing",
            "clean", "clean lock", "lingering"}
Unborn == {"absent", "open", "write", "probe", "remove", "snapshot"}
HostOver == {"clean", "clean pid", "clean lock", "gone"}

\* A supervisor is not there before the command that starts it has come to its end.
OperatorsFirst == \A o \in Host!Operator : step[o] # "done" => hostPc[o] = "absent"

\* There is no host before the first spawn and after the finally block.
HostsFit ==
  \A s \in Host!Supervisor : /\ hostPc[s] \in Unborn => host[s] = "none"
                             /\ hostPc[s] \in HostOver /\ s \notin killed => host[s] # "alive"

\* A written lock file has an owner, which has been there; a lock file with a pid
\* that was found stale is of a supervisor that is gone for good.
LockIsOwned ==
  /\ hostLock.written => hostLock.owner \in Host!Supervisor
  /\ hostLock.owner \in Host!Supervisor => hostPc[hostLock.owner] # "absent"
StaleIsGone ==
  \A s \in Host!Supervisor : hostPc[s] = "remove" /\ seen[s].written =>
    seen[s].owner \in Host!Supervisor /\ hostPc[seen[s].owner] = "gone"

\* Without a race the lock file is of the supervisor that holds it.
LockHasOwner == ~raced => \A s \in Host!Supervisor : hostPc[s] \in Holding => hostLock.owner = s

HostInv == HostTyped /\ OperatorsFirst /\ HostsFit /\ LockIsOwned /\ StaleIsGone /\ LockHasOwner

LEMMA HostInvInit == ASSUME HostConstants, Host!Init PROVE HostInv
<1>1. HostTyped
  BY HostTypeInit
<1>2. \A s \in Host!Supervisor : hostPc[s] \in {"open", "absent"} /\ host[s] = "none"
  BY DEF Host!Init
<1>3. \A o \in Host!Operator : hostPc[o] = "absent"
  BY DEF Host!Init, HostConstants, Host!Operator, Host!Supervisor
<1>4. hostLock.owner \notin Host!Supervisor /\ ~hostLock.written
  BY People DEF Host!Init, Host!NoLock
<1>5. OperatorsFirst
  BY <1>3 DEF OperatorsFirst
<1>6. HostsFit
  BY <1>2 DEF HostsFit
<1>7. LockIsOwned
  BY <1>4 DEF LockIsOwned
<1>8. StaleIsGone /\ LockHasOwner
  BY <1>2 DEF StaleIsGone, LockHasOwner, Holding
<1> QED
  BY <1>1, <1>5, <1>6, <1>7, <1>8 DEF HostInv

\* What an assignment to one supervisor does.
LEMMA Goes ==
  ASSUME HostTyped, NEW s \in Host!Supervisor, NEW p, Host!Goto(s, p)
  PROVE  hostPc'[s] = p /\ \A t \in Host!Supervisor \ {s} : hostPc'[t] = hostPc[t]
BY DEF Host!Goto, HostTyped, HostProcesses

OtherHosts(s) ==
  \A t \in Host!Supervisor \ {s} : hostPc'[t] = hostPc[t] /\ host'[t] = host[t]
    /\ seen'[t] = seen[t]

\* A step of supervisor s: it does not come back, and it finds a lock stale only
\* when the owner is gone.
HostMoves(s) ==
  /\ step' = step /\ killed \subseteq killed' /\ OtherHosts(s)
  /\ hostPc[s] \notin {"absent", "gone"} /\ hostPc'[s] # "absent"
  /\ hostPc'[s] \in Unborn => host'[s] = "none"
  /\ hostPc'[s] \in HostOver /\ s \notin killed' => host'[s] # "alive"
  /\ hostPc'[s] = "remove" /\ seen'[s].written =>
       seen'[s].owner \in Host!Supervisor /\ seen'[s].owner # s /\ hostPc[seen'[s].owner] = "gone"

LEMMA HostMoving ==
  ASSUME HostConstants, OperatorsFirst, HostsFit, StaleIsGone, NEW s \in Host!Supervisor,
           HostMoves(s)
  PROVE  OperatorsFirst' /\ HostsFit' /\ StaleIsGone'
<1>1. \A t \in Host!Supervisor : hostPc[t] = "gone" => hostPc'[t] = "gone"
  BY DEF HostMoves, OtherHosts
<1>2. \A t \in Host!Supervisor : hostPc[t] = "absent" => hostPc'[t] = "absent"
  BY DEF HostMoves, OtherHosts
<1>3. OperatorsFirst'
  BY <1>2, People DEF OperatorsFirst, HostMoves
<1>4. ASSUME NEW t \in Host!Supervisor
      PROVE  /\ hostPc'[t] \in Unborn => host'[t] = "none"
             /\ hostPc'[t] \in HostOver /\ t \notin killed' => host'[t] # "alive"
  <2>1. CASE t = s
    BY <2>1 DEF HostMoves
  <2>2. CASE t # s
    BY <2>2 DEF HostMoves, OtherHosts, HostsFit
  <2> QED
    BY <2>1, <2>2
<1>5. HostsFit'
  BY <1>4 DEF HostsFit
<1>6. ASSUME NEW t \in Host!Supervisor, hostPc'[t] = "remove", seen'[t].written
      PROVE  seen'[t].owner \in Host!Supervisor /\ hostPc'[seen'[t].owner] = "gone"
  <2>1. CASE t = s
    BY <1>1, <1>6, <2>1 DEF HostMoves
  <2>2. CASE t # s
    BY <1>1, <1>6, <2>2 DEF HostMoves, OtherHosts, StaleIsGone
  <2> QED
    BY <2>1, <2>2
<1>7. StaleIsGone'
  BY <1>6 DEF StaleIsGone
<1> QED
  BY <1>3, <1>5, <1>7

\* Whoever leaves the lock file alone comes to hold it in no other way.
LEMMA LockKept ==
  ASSUME LockIsOwned, LockHasOwner, NEW s \in Host!Supervisor, HostMoves(s),
           hostLock' = hostLock, raced' = raced,
         hostPc'[s] \in Holding => hostPc[s] \in Holding
  PROVE  LockIsOwned' /\ LockHasOwner'
<1>1. LockIsOwned'
  BY DEF LockIsOwned, HostMoves, OtherHosts
<1>2. \A t \in Host!Supervisor : hostPc'[t] \in Holding => hostPc[t] \in Holding
  BY DEF HostMoves, OtherHosts
<1>3. LockHasOwner'
  BY <1>2 DEF LockHasOwner
<1> QED
  BY <1>1, <1>3

\* A step of a command: at its end it may start its supervisor.
CommandStep(o) ==
  /\ step[o] # "done" /\ \A x \in Host!Operator \ {o} : step'[x] = step[x]
  /\ \/ hostPc' = hostPc
     \/ /\ step'[o] = "done" /\ hostPc'[o] \in {"open", "gone"}
        /\ \A t \in Host!Supervisor \ {o} : hostPc'[t] = hostPc[t]
  /\ UNCHANGED <<host, seen, killed>>

LEMMA CommandSteps ==
  ASSUME HostConstants, OperatorsFirst, HostsFit, StaleIsGone, NEW o \in Host!Operator,
           CommandStep(o)
  PROVE  /\ OperatorsFirst' /\ HostsFit' /\ StaleIsGone'
         /\ \A t \in Host!Supervisor : /\ hostPc'[t] \in Holding => hostPc[t] \in Holding
                                       /\ hostPc[t] # "absent" => hostPc'[t] # "absent"
<1>1. o \in Host!Supervisor /\ hostPc[o] = "absent" /\ host[o] = "none"
  BY People DEF CommandStep, OperatorsFirst, HostsFit, Unborn
<1>2. CASE hostPc' = hostPc
  BY <1>1, <1>2 DEF CommandStep, OperatorsFirst, HostsFit, StaleIsGone
<1>3. CASE /\ step'[o] = "done" /\ hostPc'[o] \in {"open", "gone"}
           /\ \A t \in Host!Supervisor \ {o} : hostPc'[t] = hostPc[t]
  <2>1. OperatorsFirst'
    BY <1>1, <1>3, People DEF CommandStep, OperatorsFirst
  <2>2. HostsFit'
    BY <1>1, <1>3 DEF CommandStep, HostsFit
  <2>3. StaleIsGone'
    BY <1>1, <1>3 DEF CommandStep, StaleIsGone
  <2> QED
    BY <1>1, <1>3, <2>1, <2>2, <2>3 DEF Holding
<1> QED
  BY <1>2, <1>3 DEF CommandStep

LEMMA CommandKeepsLock ==
  ASSUME HostConstants, OperatorsFirst, HostsFit, StaleIsGone, LockIsOwned, LockHasOwner,
           NEW o \in Host!Operator, CommandStep(o),
         hostLock' = hostLock, raced' = raced
  PROVE  OperatorsFirst' /\ HostsFit' /\ StaleIsGone' /\ LockIsOwned' /\ LockHasOwner'
<1>1. LockIsOwned'
  BY CommandSteps DEF LockIsOwned
<1>2. LockHasOwner'
  BY CommandSteps DEF LockHasOwner
<1> QED
  BY <1>1, <1>2, CommandSteps


\* The actions of a supervisor that leave the lock file alone.
LEMMA QuietStep ==
  ASSUME HostConstants, HostInv, NEW s \in Host!Supervisor,
         \/ Host!WriteSnapshot(s) \/ Host!Leave(s) \/ Host!Pause(s) \/ Host!Serve(s)
              \/ Host!Wait(s) \/ Host!PauseHost(s)
         \/ Host!Close(s) \/ Host!Linger(s) \/ Host!Dies(s)
  PROVE  HostMoves(s) /\ hostLock' = hostLock /\ raced' = raced
           /\ (hostPc'[s] \in Holding => hostPc[s] \in Holding)
<1>t. HostTyped /\ OperatorsFirst /\ HostsFit
  BY DEF HostInv
<1>g. \A p : Host!Goto(s, p) => hostPc'[s] = p
        /\ \A t \in Host!Supervisor \ {s} : hostPc'[t] = hostPc[t]
  BY <1>t, Goes
<1>h. host \in [Host!Supervisor -> HostState] /\ HostState = {"none", "alive", "exited"}
  BY <1>t DEF HostTyped, HostProcesses, HostState
<1>n. hostPc[s] \in Unborn => host[s] = "none"
  BY <1>t DEF HostsFit
<1>1. CASE Host!WriteSnapshot(s)
  <2>1. ASSUME NEW from, NEW next, NEW bad, NEW broken, Host!Snapshot(s, from, next, bad, broken)
        PROVE  /\ step' = step /\ killed' = killed /\ host' = host /\ seen' = seen
               /\ hostLock' = hostLock /\ raced' = raced /\ hostPc[s] = from
               /\ hostPc'[s] \in {next, bad, broken}
               /\ \A t \in Host!Supervisor \ {s} : hostPc'[t] = hostPc[t]
    BY <2>1, <1>g DEF Host!Snapshot, Host!operators, Host!history
  <2>2. \/ hostPc[s] = "snapshot" /\ hostPc'[s] \in {"loop", "gone"}
        \/ hostPc[s] = "spawned" /\ hostPc'[s] \in {"wait", "loop", "closing"}
        \/ hostPc[s] = "exited" /\ hostPc'[s] \in {"loop", "closing"}
    BY <1>1, <2>1 DEF Host!WriteSnapshot
  <2>3. /\ step' = step /\ killed' = killed /\ host' = host /\ seen' = seen
        /\ hostLock' = hostLock /\ raced' = raced
        /\ \A t \in Host!Supervisor \ {s} : hostPc'[t] = hostPc[t]
    BY <1>1, <2>1 DEF Host!WriteSnapshot
  <2> QED
    BY <2>2, <2>3, <1>n DEF HostMoves, OtherHosts, Unborn, HostOver, Holding
<1>2. CASE Host!Leave(s)
  <2>1. hostPc[s] = "loop" /\ hostPc'[s] = "closing"
          /\ \A t \in Host!Supervisor \ {s} : hostPc'[t] = hostPc[t]
    BY <1>2, <1>g DEF Host!Leave
  <2>2. UNCHANGED <<step, killed, host, seen, hostLock, raced>>
    BY <1>2 DEF Host!Leave, Host!operators, Host!history
  <2> QED
    BY <2>1, <2>2 DEF HostMoves, OtherHosts, Unborn, HostOver, Holding
<1>3. CASE Host!Pause(s)
  <2>1. hostPc[s] = "loop" /\ hostPc'[s] \in {"pausing", "closing"}
          /\ \A t \in Host!Supervisor \ {s} : hostPc'[t] = hostPc[t]
    BY <1>3, <1>g DEF Host!Pause
  <2>2. UNCHANGED <<step, killed, host, seen, hostLock, raced>>
    BY <1>3 DEF Host!Pause, Host!operators, Host!history
  <2> QED
    BY <2>1, <2>2 DEF HostMoves, OtherHosts, Unborn, HostOver, Holding
<1>4. CASE Host!Serve(s)
  <2>1. /\ hostPc[s] = "loop" /\ hostPc'[s] \in {"loop", "spawned", "wait", "gone"}
        /\ hostPc'[s] = "gone" => host[s] = "none" /\ host' = host
        /\ \A t \in Host!Supervisor \ {s} : hostPc'[t] = hostPc[t]
    BY <1>4, <1>g DEF Host!Serve
  <2>2. /\ UNCHANGED <<step, killed, seen, hostLock, raced>>
        /\ host' \in {host, [host EXCEPT ![s] = "alive"]}
    BY <1>4 DEF Host!Serve, Host!operators, Host!history
  <2> QED
    BY <2>1, <2>2, <1>h DEF HostMoves, OtherHosts, Unborn, HostOver, Holding
<1>5. CASE Host!Wait(s)
  <2>1. hostPc[s] = "wait" /\ hostPc'[s] \in {"loop", "exited"}
          /\ \A t \in Host!Supervisor \ {s} : hostPc'[t] = hostPc[t]
    BY <1>5, <1>g DEF Host!Wait
  <2>2. UNCHANGED <<step, killed, seen, hostLock, raced>>
                    /\ host' \in {host, [host EXCEPT ![s] = "none"]}
    BY <1>5 DEF Host!Wait, Host!operators, Host!history
  <2> QED
    BY <2>1, <2>2, <1>h DEF HostMoves, OtherHosts, Unborn, HostOver, Holding
<1>6. CASE Host!PauseHost(s)
  <2>1. hostPc[s] = "pausing" /\ hostPc'[s] \in {"exited", "closing"}
          /\ \A t \in Host!Supervisor \ {s} : hostPc'[t] = hostPc[t]
    BY <1>6, <1>g DEF Host!PauseHost
  <2>2. UNCHANGED <<step, killed, seen, hostLock, raced>>
                    /\ host' \in {host, [host EXCEPT ![s] = "none"]}
    BY <1>6 DEF Host!PauseHost, Host!StopHost, Host!operators, Host!history
  <2> QED
    BY <2>1, <2>2, <1>h DEF HostMoves, OtherHosts, Unborn, HostOver, Holding
<1>7. CASE Host!Close(s)
  <2>1. hostPc[s] = "closing" /\ hostPc'[s] \in {"clean", "lingering"}
          /\ \A t \in Host!Supervisor \ {s} : hostPc'[t] = hostPc[t]
    BY <1>7, <1>g DEF Host!Close
  <2>2. /\ UNCHANGED <<step, killed, seen, hostLock, raced>>
        /\ host' \in {host, [host EXCEPT ![s] = "none"]}
        /\ hostPc'[s] = "clean" => host' = [host EXCEPT ![s] = "none"]
    BY <1>7, <1>g DEF Host!Close, Host!StopHost, Host!operators, Host!history
  <2> QED
    BY <2>1, <2>2, <1>h DEF HostMoves, OtherHosts, Unborn, HostOver, Holding
<1>8. CASE Host!Linger(s)
  <2>1. hostPc[s] = "lingering" /\ hostPc'[s] = "gone"
          /\ \A t \in Host!Supervisor \ {s} : hostPc'[t] = hostPc[t]
    BY <1>8, <1>g DEF Host!Linger
  <2>2. UNCHANGED <<step, killed, host, seen, hostLock, raced>> /\ host[s] # "alive"
    BY <1>8 DEF Host!Linger, Host!operators, Host!history
  <2> QED
    BY <2>1, <2>2 DEF HostMoves, OtherHosts, Unborn, HostOver, Holding
<1>9. CASE Host!Dies(s)
  <2>1. hostPc[s] \notin {"absent", "gone"} /\ hostPc'[s] = "gone"
          /\ \A t \in Host!Supervisor \ {s} : hostPc'[t] = hostPc[t]
    BY <1>9, <1>g DEF Host!Dies, Host!Alive
  <2>2. UNCHANGED <<step, host, seen, hostLock, raced>> /\ killed' = killed \cup {s}
    BY <1>9 DEF Host!Dies, Host!operators, Host!history
  <2> QED
    BY <2>1, <2>2 DEF HostMoves, OtherHosts, Unborn, HostOver, Holding
<1> QED
  BY <1>1, <1>2, <1>3, <1>4, <1>5, <1>6, <1>7, <1>8, <1>9

\* The actions of a supervisor on the lock file.
LEMMA LockFileStep ==
  ASSUME HostConstants, HostInv, NEW s \in Host!Supervisor,
         Host!Open(s) \/ Host!WriteLock(s) \/ Host!Probe(s) \/ Host!RemoveLock(s) \/ Host!Clean(s)
  PROVE  HostMoves(s) /\ LockIsOwned' /\ LockHasOwner'
<1>t. HostTyped /\ HostsFit /\ LockIsOwned /\ StaleIsGone /\ LockHasOwner
  BY DEF HostInv
<1>g. \A p : Host!Goto(s, p) => hostPc'[s] = p
        /\ \A t \in Host!Supervisor \ {s} : hostPc'[t] = hostPc[t]
  BY <1>t, Goes
<1>n. hostPc[s] \in Unborn => host[s] = "none"
  BY <1>t DEF HostsFit
<1>l. hostLock \in [owner : Someone, written : BOOLEAN]
  BY <1>t DEF HostTyped, HostFiles
<1>e. Host!NoLock.owner \notin Host!Supervisor /\ Host!NoLock.written = FALSE
  BY People DEF Host!NoLock
<1>1. CASE Host!Open(s)
  <2>1. /\ hostPc[s] = "open" /\ \A t \in Host!Supervisor \ {s} : hostPc'[t] = hostPc[t]
        /\ \/ hostLock = Host!NoLock /\ hostLock' = [owner |-> s, written |-> FALSE]
                /\ hostPc'[s] = "write"
           \/ hostLock' = hostLock /\ hostPc'[s] = "probe"
    BY <1>1, <1>g DEF Host!Open
  <2>2. UNCHANGED <<step, killed, host, seen, raced>>
    BY <1>1 DEF Host!Open, Host!operators, Host!history
  <2>3. HostMoves(s)
    BY <2>1, <2>2, <1>n DEF HostMoves, OtherHosts, Unborn, HostOver
  <2>4. CASE hostLock' = hostLock /\ hostPc'[s] = "probe"
    BY <2>1, <2>2, <2>3, <2>4, <1>t, LockKept DEF Holding
  <2>5. CASE hostLock = Host!NoLock /\ hostLock' = [owner |-> s, written |-> FALSE]
               /\ hostPc'[s] = "write"
    <3>1. hostLock'.owner = s /\ hostLock'.written = FALSE
      BY <2>5
    <3>2. ~raced => \A t \in Host!Supervisor : hostPc[t] \notin Holding
      BY <2>5, <1>t, <1>e DEF LockHasOwner
    <3>3. LockIsOwned'
      BY <3>1, <2>5 DEF LockIsOwned
    <3>4. LockHasOwner'
      BY <3>1, <3>2, <2>1, <2>2 DEF LockHasOwner
    <3> QED
      BY <2>3, <3>3, <3>4
  <2> QED
    BY <2>1, <2>4, <2>5
<1>2. CASE Host!WriteLock(s)
  <2>1. /\ hostPc[s] = "write" /\ hostPc'[s] \in {"snapshot", "gone"}
        /\ \A t \in Host!Supervisor \ {s} : hostPc'[t] = hostPc[t]
    BY <1>2, <1>g DEF Host!WriteLock
  <2>2. UNCHANGED <<step, killed, host, seen, raced>>
    BY <1>2 DEF Host!WriteLock, Host!operators, Host!history
  <2>3. \/ hostLock' = hostLock
        \/ hostLock' = [hostLock EXCEPT !.written = hostLock.written \/ hostLock.owner = s]
    BY <1>2 DEF Host!WriteLock
  <2>4. /\ hostLock'.owner = hostLock.owner
        /\ hostLock'.written => hostLock.written \/ hostLock.owner = s
    BY <2>3, <1>l
  <2>5. HostMoves(s)
    BY <2>1, <2>2, <1>n DEF HostMoves, OtherHosts, Unborn, HostOver
  <2>6. LockIsOwned'
    BY <2>4, <2>5, <1>t DEF LockIsOwned, HostMoves, OtherHosts
  <2>7. \A t \in Host!Supervisor : hostPc'[t] \in Holding => hostPc[t] \in Holding
    BY <2>1 DEF Holding
  <2>8. LockHasOwner'
    BY <2>2, <2>4, <2>7, <1>t DEF LockHasOwner
  <2> QED
    BY <2>5, <2>6, <2>8
<1>3. CASE Host!Probe(s)
  <2>1. /\ hostPc[s] = "probe" /\ \A t \in Host!Supervisor \ {s} : hostPc'[t] = hostPc[t]
        /\ hostPc'[s] \in {"gone", "remove"}
        /\ hostPc'[s] = "remove" => ~(hostLock.written /\ Host!Alive(hostLock.owner))
    BY <1>3, <1>g DEF Host!Probe
  <2>2. UNCHANGED <<step, killed, host, hostLock, raced>> /\ seen' = [seen EXCEPT ![s] = hostLock]
    BY <1>3 DEF Host!Probe, Host!operators
  <2>3. seen'[s] = hostLock /\ \A t \in Host!Supervisor \ {s} : seen'[t] = seen[t]
    BY <2>2, <1>t DEF HostTyped, HostProcesses
  <2>4. ASSUME hostPc'[s] = "remove", hostLock.written
        PROVE  hostLock.owner \in Host!Supervisor /\ hostLock.owner # s
                 /\ hostPc[hostLock.owner] = "gone"
    BY <2>1, <2>4, <1>t DEF LockIsOwned, Host!Alive
  <2>5. HostMoves(s)
    BY <2>1, <2>2, <2>3, <2>4, <1>n DEF HostMoves, OtherHosts, Unborn, HostOver
  <2> QED
    BY <2>1, <2>2, <2>5, <1>t, LockKept DEF Holding
<1>4. CASE Host!RemoveLock(s)
  <2>1. /\ hostPc[s] = "remove" /\ \A t \in Host!Supervisor \ {s} : hostPc'[t] = hostPc[t]
        /\ hostPc'[s] \in {"open", "gone"}
    BY <1>4, <1>g DEF Host!RemoveLock
  <2>2. UNCHANGED <<step, killed, host>> /\ seen' = [seen EXCEPT ![s] = Host!NoLock]
                    /\ hostLock' = Host!NoLock
    BY <1>4 DEF Host!RemoveLock, Host!operators
  <2>3. raced' = (raced \/ (hostLock # Host!NoLock /\ (hostLock # seen[s] \/ ~hostLock.written)))
    BY <1>4 DEF Host!RemoveLock
  <2>4. \A t \in Host!Supervisor \ {s} : seen'[t] = seen[t]
    BY <2>2, <1>t DEF HostTyped, HostProcesses
  <2>5. HostMoves(s)
    BY <2>1, <2>2, <2>4, <1>n DEF HostMoves, OtherHosts, Unborn, HostOver
  <2>6. LockIsOwned'
    BY <2>2, <1>e DEF LockIsOwned
  <2>7. ASSUME ~raced', NEW t \in Host!Supervisor, hostPc'[t] \in Holding PROVE FALSE
    <3>1. t # s /\ hostPc[t] \in Holding
      BY <2>1, <2>7 DEF Holding
    <3>2. hostLock.owner = t
      BY <2>3, <2>7, <3>1, <1>t DEF LockHasOwner
    <3>3. hostLock = seen[s] /\ hostLock.written
      BY <2>3, <2>7, <3>2, <1>e
    <3>4. hostPc[t] = "gone"
      BY <2>1, <3>2, <3>3, <1>t DEF StaleIsGone
    <3> QED
      BY <3>1, <3>4 DEF Holding
  <2>8. LockHasOwner'
    BY <2>7 DEF LockHasOwner
  <2> QED
    BY <2>5, <2>6, <2>8
<1>5. CASE Host!Clean(s)
  <2>1. /\ \A t \in Host!Supervisor \ {s} : hostPc'[t] = hostPc[t]
        /\ \/ hostPc[s] = "clean" /\ hostPc'[s] = "clean lock" /\ hostLock' = hostLock
           \/ hostPc[s] = "clean" /\ hostPc'[s] = "clean pid" /\ hostLock' = Host!NoLock
           \/ hostPc[s] = "clean lock" /\ hostPc'[s] = "gone" /\ hostLock' = Host!NoLock
           \/ hostPc[s] = "clean pid" /\ hostPc'[s] = "gone" /\ hostLock' = hostLock
    BY <1>5, <1>g DEF Host!Clean
  <2>2. UNCHANGED <<step, killed, host, seen, raced>>
    BY <1>5 DEF Host!Clean, Host!operators, Host!history
  <2>3. hostPc[s] \in HostOver /\ s \notin killed => host[s] # "alive"
    BY <1>t DEF HostsFit
  <2>4. HostMoves(s)
    BY <2>1, <2>2, <2>3 DEF HostMoves, OtherHosts, Unborn, HostOver
  <2>5. CASE hostLock' = hostLock
    BY <2>1, <2>2, <2>4, <2>5, <1>t, LockKept DEF Holding
  <2>6. CASE hostLock' = Host!NoLock /\ hostPc[s] \in Holding /\ hostPc'[s] \notin Holding
    <3>1. LockIsOwned'
      BY <2>6, <1>e DEF LockIsOwned
    <3>2. LockHasOwner'
      BY <2>1, <2>2, <2>6, <1>t DEF LockHasOwner
    <3> QED
      BY <2>4, <3>1, <3>2
  <2> QED
    BY <2>1, <2>5, <2>6 DEF Holding
<1> QED
  BY <1>1, <1>2, <1>3, <1>4, <1>5

LEMMA HostExitsStep ==
  ASSUME HostInv, NEW s \in Host!Supervisor, Host!HostExits(s)
  PROVE  OperatorsFirst' /\ HostsFit' /\ StaleIsGone' /\ LockIsOwned' /\ LockHasOwner'
<1>1. UNCHANGED <<hostPc, step, hostLock, seen, raced, killed>>
  BY DEF Host!HostExits, Host!operators, Host!history
<1>2. host' = [host EXCEPT ![s] = "exited"] /\ host[s] = "alive"
  BY DEF Host!HostExits
<1>3. \A t \in Host!Supervisor : host'[t] = host[t] \/ (host[t] = "alive" /\ host'[t] = "exited")
  BY <1>2 DEF HostInv, HostTyped, HostProcesses
<1>4. HostsFit'
  BY <1>1, <1>3 DEF HostInv, HostsFit
<1>5. OperatorsFirst' /\ StaleIsGone' /\ LockIsOwned' /\ LockHasOwner'
  BY <1>1 DEF HostInv, OperatorsFirst, StaleIsGone, LockIsOwned, LockHasOwner
<1> QED
  BY <1>4, <1>5

\* schtasks /Run, as the last thing of a command.
LEMMA HostRuns ==
  ASSUME HostTyped, NEW o \in Host!Supervisor, Host!TaskRun(o)
  PROVE  \/ hostPc' = hostPc
         \/ hostPc'[o] \in {"open", "gone"}
              /\ \A t \in Host!Supervisor \ {o} : hostPc'[t] = hostPc[t]
<1>1. CASE Host!Goto(o, "open")
  BY <1>1, Goes
<1>2. CASE Host!Goto(o, "gone")
  BY <1>2, Goes
<1> QED
  BY <1>1, <1>2 DEF Host!TaskRun

\* What the next place of a command is.
LEMMA HostTurns ==
  ASSUME HostTyped, NEW o \in Host!Operator, NEW p, Host!To(o, p)
  PROVE  step'[o] = p /\ \A x \in Host!Operator \ {o} : step'[x] = step[x]
BY DEF Host!To, HostTyped, HostOperators

\* The commands that leave the lock file alone.
LEMMA PoliteStep ==
  ASSUME HostConstants, HostTyped, NEW o \in Host!Operator,
         \/ Host!Give(o) \/ Host!Save(o) \/ Host!WriteControl(o) \/ Host!Look(o) \/ Host!Act(o)
              \/ Host!Restore(o)
         \/ Host!Register(o)
  PROVE  CommandStep(o) /\ hostLock' = hostLock /\ raced' = raced
<1>s. o \in Host!Supervisor
  BY People
<1>t. ASSUME NEW p, Host!To(o, p)
      PROVE  step'[o] = p /\ \A x \in Host!Operator \ {o} : step'[x] = step[x]
  BY <1>t, HostTurns
<1>1. CASE Host!Give(o)
  <2>1. step[o] # "done" /\ UNCHANGED <<hostPc, host, seen, killed, hostLock, raced>>
    BY <1>1 DEF Host!Give, Host!processes, Host!history
  <2>2. \A x \in Host!Operator \ {o} : step'[x] = step[x]
    BY <1>1, <1>t DEF Host!Give
  <2> QED
    BY <2>1, <2>2 DEF CommandStep
<1>2. CASE Host!Save(o)
  <2>1. step[o] # "done" /\ UNCHANGED <<hostPc, host, seen, killed, hostLock, raced>>
    BY <1>2 DEF Host!Save, Host!processes, Host!history
  <2>2. \A x \in Host!Operator \ {o} : step'[x] = step[x]
    BY <1>2, <1>t DEF Host!Save
  <2> QED
    BY <2>1, <2>2 DEF CommandStep
<1>3. CASE Host!WriteControl(o)
  <2>1. step[o] # "done" /\ UNCHANGED <<hostPc, host, seen, killed, hostLock, raced>>
    BY <1>3 DEF Host!WriteControl, Host!processes, Host!history
  <2>2. \A x \in Host!Operator \ {o} : step'[x] = step[x]
    BY <1>3, <1>t DEF Host!WriteControl
  <2> QED
    BY <2>1, <2>2 DEF CommandStep
<1>4. CASE Host!Look(o)
  <2>1. step[o] # "done" /\ UNCHANGED <<hostPc, host, seen, killed, hostLock, raced>>
    BY <1>4 DEF Host!Look, Host!processes, Host!history
  <2>2. \A x \in Host!Operator \ {o} : step'[x] = step[x]
    BY <1>4, <1>t DEF Host!Look
  <2> QED
    BY <2>1, <2>2 DEF CommandStep
<1>5. CASE Host!Act(o)
  <2>1. step[o] # "done" /\ UNCHANGED <<host, seen, killed, hostLock, raced>>
    BY <1>5 DEF Host!Act
  <2>2. step'[o] = "done" /\ \A x \in Host!Operator \ {o} : step'[x] = step[x]
    BY <1>5, <1>t DEF Host!Act
  <2>3. hostPc' = hostPc \/ Host!TaskRun(o)
    BY <1>5 DEF Host!Act
  <2> QED
    BY <2>1, <2>2, <2>3, <1>s, HostRuns DEF CommandStep
<1>6. CASE Host!Restore(o)
  <2>1. step[o] # "done" /\ UNCHANGED <<hostPc, host, seen, killed, hostLock, raced>>
    BY <1>6 DEF Host!Restore, Host!processes, Host!history
  <2>2. \A x \in Host!Operator \ {o} : step'[x] = step[x]
    BY <1>6, <1>t DEF Host!Restore
  <2> QED
    BY <2>1, <2>2 DEF CommandStep
<1>7. CASE Host!Register(o)
  <2>1. step[o] # "done" /\ UNCHANGED <<host, seen, killed, hostLock, raced>>
    BY <1>7 DEF Host!Register
  <2>2. step'[o] = "done" /\ \A x \in Host!Operator \ {o} : step'[x] = step[x]
    BY <1>7, <1>t DEF Host!Register
  <2>3. hostPc' = hostPc \/ Host!TaskRun(o)
    BY <1>7 DEF Host!Register
  <2> QED
    BY <2>1, <2>2, <2>3, <1>s, HostRuns DEF CommandStep
<1> QED
  BY <1>1, <1>2, <1>3, <1>4, <1>5, <1>6, <1>7

\* schtasks /End ends supervisors that live.
LEMMA EndStep ==
  ASSUME HostConstants, HostInv, NEW o \in Host!Operator, Host!SignalAndEnd(o)
  PROVE  OperatorsFirst' /\ HostsFit' /\ StaleIsGone' /\ LockIsOwned' /\ LockHasOwner'
<1>t. HostTyped /\ OperatorsFirst /\ HostsFit /\ StaleIsGone /\ LockIsOwned /\ LockHasOwner
  BY DEF HostInv
<1>1. UNCHANGED <<hostLock, seen, host, raced>>
  BY DEF Host!SignalAndEnd
<1>2. PICK struck \in SUBSET {s \in Host!Supervisor : Host!Alive(s)} :
        /\ hostPc' = [s \in Host!Supervisor |-> IF s \in struck THEN "gone" ELSE hostPc[s]]
        /\ killed' = killed \cup struck
  BY DEF Host!SignalAndEnd
<1>3. step[o] = "act" /\ \A x \in Host!Operator \ {o} : step'[x] = step[x]
  BY <1>t, HostTurns DEF Host!SignalAndEnd
<1>4. \A s \in Host!Supervisor : /\ hostPc'[s] = hostPc[s]
                                      \/ (hostPc'[s] = "gone" /\ s \in killed')
                                 /\ hostPc[s] \in {"absent", "gone"} => hostPc'[s] = hostPc[s]
  BY <1>2 DEF Host!Alive
<1>5. \A s \in Host!Supervisor : hostPc'[s] = "absent" => hostPc[s] = "absent"
  BY <1>4
<1>6. OperatorsFirst'
  BY <1>3, <1>4, <1>t, People DEF OperatorsFirst
<1>7. HostsFit'
  BY <1>1, <1>2, <1>4, <1>t DEF HostsFit, Unborn
<1>8. StaleIsGone'
  BY <1>1, <1>4, <1>t DEF StaleIsGone
<1>9. LockIsOwned'
  BY <1>1, <1>5, <1>t DEF LockIsOwned
<1>10. LockHasOwner'
  BY <1>1, <1>4, <1>t DEF LockHasOwner, Holding
<1> QED
  BY <1>6, <1>7, <1>8, <1>9, <1>10

\* An uninstallation that removes the lock file of a supervisor that lives is a race.
LEMMA RemoveFileStep ==
  ASSUME HostConstants, HostInv, NEW o \in Host!Operator, Host!RemoveFile(o)
  PROVE  OperatorsFirst' /\ HostsFit' /\ StaleIsGone' /\ LockIsOwned' /\ LockHasOwner'
<1>t. HostTyped /\ OperatorsFirst /\ HostsFit /\ StaleIsGone /\ LockIsOwned /\ LockHasOwner
  BY DEF HostInv
<1>e. Host!NoLock.owner \notin Host!Supervisor /\ Host!NoLock.written = FALSE
  BY People DEF Host!NoLock
<1>1. step[o] # "done" /\ UNCHANGED <<hostPc, host, seen, killed>>
  BY DEF Host!RemoveFile, Host!processes
<1>2. \A x \in Host!Operator \ {o} : step'[x] = step[x]
  BY <1>t, HostTurns DEF Host!RemoveFile
<1>3. CommandStep(o)
  BY <1>1, <1>2 DEF CommandStep
<1>4. \/ hostLock' = hostLock /\ raced' = raced
      \/ hostLock' = Host!NoLock /\ raced' = (raced \/ Host!Alive(hostLock.owner))
  BY <1>t DEF Host!RemoveFile, HostTyped, HostHistory
<1>5. CASE hostLock' = hostLock /\ raced' = raced
  BY <1>3, <1>5, <1>t, CommandKeepsLock
<1>6. CASE hostLock' = Host!NoLock /\ raced' = (raced \/ Host!Alive(hostLock.owner))
  <2>1. LockIsOwned'
    BY <1>6, <1>e DEF LockIsOwned
  <2>2. ASSUME ~raced', NEW t \in Host!Supervisor, hostPc'[t] \in Holding PROVE FALSE
    <3>1. hostPc[t] \in Holding /\ hostLock.owner = t
      BY <1>1, <1>6, <2>2, <1>t DEF LockHasOwner
    <3>2. Host!Alive(t)
      BY <3>1 DEF Host!Alive, Holding
    <3> QED
      BY <1>6, <2>2, <3>1, <3>2
  <2>3. LockHasOwner'
    BY <2>2 DEF LockHasOwner
  <2> QED
    BY <2>1, <2>3, <1>3, <1>t, CommandSteps
<1> QED
  BY <1>4, <1>5, <1>6

LEMMA HostInvStep == ASSUME HostConstants, HostInv, [Host!Next]_(Host!hostVars) PROVE HostInv'
<1>t. HostTyped /\ HostTyped'
  BY HostTypeStep DEF HostInv
<1>a. OperatorsFirst /\ HostsFit /\ LockIsOwned /\ StaleIsGone /\ LockHasOwner
  BY DEF HostInv
<1> SUFFICES OperatorsFirst' /\ HostsFit' /\ LockIsOwned' /\ StaleIsGone' /\ LockHasOwner'
  BY <1>t DEF HostInv
<1>1. CASE UNCHANGED Host!hostVars
  BY <1>1, <1>a
     DEF Host!hostVars, Host!processes, Host!operators, Host!history, OperatorsFirst, HostsFit,
         LockIsOwned, StaleIsGone, LockHasOwner
<1>2. ASSUME NEW s \in Host!Supervisor,
             \/ Host!WriteSnapshot(s) \/ Host!Leave(s) \/ Host!Pause(s) \/ Host!Serve(s)
                  \/ Host!Wait(s) \/ Host!PauseHost(s)
             \/ Host!Close(s) \/ Host!Linger(s) \/ Host!Dies(s)
      PROVE  OperatorsFirst' /\ HostsFit' /\ LockIsOwned' /\ StaleIsGone' /\ LockHasOwner'
  BY <1>2, <1>a, QuietStep, HostMoving, LockKept
<1>3. ASSUME NEW s \in Host!Supervisor,
             Host!Open(s) \/ Host!WriteLock(s) \/ Host!Probe(s) \/ Host!RemoveLock(s)
               \/ Host!Clean(s)
      PROVE  OperatorsFirst' /\ HostsFit' /\ LockIsOwned' /\ StaleIsGone' /\ LockHasOwner'
  BY <1>3, <1>a, LockFileStep, HostMoving
<1>4. ASSUME NEW s \in Host!Supervisor, Host!HostExits(s)
      PROVE  OperatorsFirst' /\ HostsFit' /\ LockIsOwned' /\ StaleIsGone' /\ LockHasOwner'
  BY <1>4, HostExitsStep
<1>5. ASSUME NEW o \in Host!Operator,
             \/ Host!Give(o) \/ Host!Save(o) \/ Host!WriteControl(o) \/ Host!Look(o)
                  \/ Host!Act(o) \/ Host!Restore(o)
             \/ Host!Register(o)
      PROVE  OperatorsFirst' /\ HostsFit' /\ LockIsOwned' /\ StaleIsGone' /\ LockHasOwner'
  BY <1>5, <1>t, <1>a, PoliteStep, CommandKeepsLock
<1>6. ASSUME NEW o \in Host!Operator, Host!SignalAndEnd(o) \/ Host!RemoveFile(o)
      PROVE  OperatorsFirst' /\ HostsFit' /\ LockIsOwned' /\ StaleIsGone' /\ LockHasOwner'
  BY <1>6, EndStep, RemoveFileStep
<1> QED
  BY <1>1, <1>2, <1>3, <1>4, <1>5, <1>6 DEF Host!Next, Host!Supervise, Host!Operate

-----------------------------------------------------------------------------
(* The processes of machine actions *)

-----------------------------------------------------------------------------
(* Types *)

\* Signals and time only end processes.
OnlyEnds ==
  \A c \in Launch :
    /\ machineLeader'[c] = machineLeader[c]
         \/ (machineLeader[c] = "alive" /\ machineLeader'[c] = "exited")
    /\ machineRest'[c] = machineRest[c] \/ machineRest'[c] = "none"

LEMMA MachineEnding ==
  ASSUME Machine!TypeOK, NEW C \in SUBSET Launch, Machine!Wane(C) \/ Machine!Kill(C)
  PROVE  /\ machineLeader' \in [Launch -> {"none", "alive", "exited"}]
         /\ machineRest' \in [Launch -> {"none", "quiet", "open"}]
         /\ machineEscaped' = machineEscaped
         /\ OnlyEnds
BY DEF Machine!Wane, Machine!Kill, Machine!TypeOK, OnlyEnds

LEMMA MachineKilling ==
  ASSUME Machine!TypeOK, NEW C \in SUBSET Launch, Machine!Kill(C), NEW c \in C
  PROVE  machineLeader'[c] # "alive" /\ machineRest'[c] = "none"
BY DEF Machine!Kill, Machine!TypeOK

LEMMA MachineTypeStep == Machine!TypeOK /\ [Machine!Next]_(Machine!machineVars) => Machine!TypeOK'
<1> SUFFICES ASSUME Machine!TypeOK, [Machine!Next]_(Machine!machineVars) PROVE Machine!TypeOK'
  OBVIOUS
<1> USE DEF Machine!TypeOK, Machine!shutdownVars, Machine!process, Machine!GoTo
<1>1. CASE UNCHANGED Machine!machineVars
  BY <1>1 DEF Machine!machineVars
<1>2. ASSUME NEW c \in Launch, Machine!Prune(c) PROVE Machine!TypeOK'
  BY <1>2 DEF Machine!Prune
<1>3. ASSUME NEW c \in Launch, Machine!Spawn(c) PROVE Machine!TypeOK'
  BY <1>3 DEF Machine!Spawn
<1>4. ASSUME NEW c \in Launch, Machine!Keep(c) PROVE Machine!TypeOK'
  BY <1>4 DEF Machine!Keep
<1>5. ASSUME NEW c \in Launch, Machine!Closed(c) PROVE Machine!TypeOK'
  BY <1>5 DEF Machine!Closed
<1>6. ASSUME NEW c \in Launch, Machine!Timeout(c) PROVE Machine!TypeOK'
  BY <1>6, MachineEnding DEF Machine!Timeout
<1>7. ASSUME NEW c \in Launch, Machine!Live(c) PROVE Machine!TypeOK'
  <2>1. CASE Machine!Wane({c})
    BY <1>7, <2>1, MachineEnding DEF Machine!Live
  <2>2. CASE machineEscaped' = machineEscaped \ {c} /\ UNCHANGED <<machineLeader, machineRest>>
    BY <1>7, <2>2 DEF Machine!Live
  <2> QED
    BY <1>7, <2>1, <2>2 DEF Machine!Live
<1>8. ASSUME NEW c \in Launch, Machine!Stop(c) PROVE Machine!TypeOK'
  BY <1>8, MachineEnding DEF Machine!Stop
<1>9. CASE Machine!Shutdown
  <2>1. stopping' \in SUBSET Launch /\ Machine!Wane(stopping')
    BY <1>9 DEF Machine!Shutdown
  <2>2. ASSUME NEW C \in SUBSET Launch, Machine!Wane(C)
        PROVE  /\ machineLeader' \in [Launch -> {"none", "alive", "exited"}]
               /\ machineRest' \in [Launch -> {"none", "quiet", "open"}]
                    /\ machineEscaped' = machineEscaped
    BY <2>2, MachineEnding
  <2>3. /\ machineLeader' \in [Launch -> {"none", "alive", "exited"}]
        /\ machineRest' \in [Launch -> {"none", "quiet", "open"}]
             /\ machineEscaped' = machineEscaped
    BY <2>1, <2>2
  <2> QED
    BY <1>9, <2>1, <2>3 DEF Machine!Shutdown
<1>10. CASE Machine!GraceEnds
  BY <1>10, MachineEnding DEF Machine!GraceEnds
<1>11. CASE Machine!ForceEnds
  BY <1>11 DEF Machine!ForceEnds
<1> QED
  BY <1>1, <1>2, <1>3, <1>4, <1>5, <1>6, <1>7, <1>8, <1>9, <1>10, <1>11
     DEF Machine!Next, Machine!Proceed, Machine!ShutDown

-----------------------------------------------------------------------------
(* The invariant *)

ProcessGone(c) == machineLeader[c] # "alive" /\ machineRest[c] = "none"

\* Before its registration a call has nothing; what is closed is not busy; a
\* session is of a call that has registered it and is in the map while it is busy.
MachinePlaces ==
  \A c \in Launch :
    /\ at[c] \in {"idle", "checked", "refused"} =>
         machineLeader[c] = "none" /\ machineRest[c] = "none"
    /\ at[c] \in {"idle", "checked", "refused", "spawned"} =>
         c \notin ended /\ c \notin machineSessions /\ c \notin timeLimit
    /\ c \in ended => ~Machine!Busy(c)
    /\ c \in machineSessions => at[c] = "kept"
    /\ at[c] = "kept" /\ Machine!Busy(c) => c \in machineSessions

\* What a shutdown has found is registered, and gone after its SIGKILL.
MachineShuts ==
  /\ \A c \in stopping : at[c] = "kept"
  /\ shutdown = "idle" => stopping = {}
  /\ shutdown \in {"idle", "grace"} => stopped = {}
  /\ stopped \subseteq stopping
  /\ shutdown \in {"forced", "done"} => \A c \in stopping : ProcessGone(c)

MachineInv == Machine!TypeOK /\ MachinePlaces /\ Machine!EveryoneIsLimited /\ MachineShuts

\* Steps in which processes only end, and only closed sessions, or those that the
\* shutdown takes over, lose their time limits.
LEMMA EndsOnly ==
  ASSUME Machine!TypeOK, MachinePlaces, Machine!TypeOK',
           UNCHANGED <<at, ended, machineSessions>>, timeLimit' \subseteq timeLimit,
         OnlyEnds
  PROVE  /\ MachinePlaces'
         /\ \A c \in Launch : (Machine!Busy(c)' => Machine!Busy(c))
              /\ (ProcessGone(c) => ProcessGone(c)')
<1>1. ASSUME NEW c \in Launch PROVE (Machine!Busy(c)' => Machine!Busy(c))
               /\ (ProcessGone(c) => ProcessGone(c)')
  BY DEF Machine!Busy, ProcessGone, Machine!TypeOK, OnlyEnds
<1>2. ASSUME NEW c \in Launch, machineLeader[c] = "none", machineRest[c] = "none"
      PROVE  machineLeader'[c] = "none" /\ machineRest'[c] = "none"
  BY <1>2 DEF OnlyEnds
<1>3. MachinePlaces'
  BY <1>1, <1>2 DEF MachinePlaces
<1> QED
  BY <1>1, <1>3

LEMMA MachineInvStep == MachineInv /\ [Machine!Next]_(Machine!machineVars) => MachineInv'
<1> SUFFICES ASSUME MachineInv, [Machine!Next]_(Machine!machineVars) PROVE MachineInv'
  OBVIOUS
<1>t. Machine!TypeOK /\ Machine!TypeOK'
  BY MachineTypeStep DEF MachineInv
<1>a. MachinePlaces /\ Machine!EveryoneIsLimited /\ MachineShuts
  BY DEF MachineInv
<1>i. SUFFICES MachinePlaces' /\ Machine!EveryoneIsLimited' /\ MachineShuts'
  BY <1>t DEF MachineInv
<1>1. CASE UNCHANGED Machine!machineVars
  BY <1>1, <1>a
     DEF Machine!machineVars, Machine!process, Machine!shutdownVars, MachinePlaces,
         Machine!EveryoneIsLimited, MachineShuts, Machine!Busy, ProcessGone
<1>2. ASSUME NEW c \in Launch, Machine!Prune(c)
      PROVE MachinePlaces' /\ Machine!EveryoneIsLimited' /\ MachineShuts'
  <2>1. PICK room \in SUBSET (machineSessions \cap ended) :
          machineSessions' = machineSessions \ room /\ timeLimit' = timeLimit \ room
    BY <1>2 DEF Machine!Prune
  <2>2. at[c] = "idle" /\ at' \in {[at EXCEPT ![c] = "checked"], [at EXCEPT ![c] = "refused"]}
    BY <1>2 DEF Machine!Prune, Machine!GoTo
  <2>3. UNCHANGED <<persistent, ended, Machine!process, Machine!shutdownVars>>
    BY <1>2 DEF Machine!Prune
  <2>4. \A x \in Launch : x = c \/ at'[x] = at[x]
    BY <2>2, <1>t DEF Machine!TypeOK
  <2>5. at'[c] \in {"checked", "refused"}
    BY <2>2, <1>t DEF Machine!TypeOK
  <2>6. MachinePlaces'
    BY <2>1, <2>2, <2>3, <2>4, <2>5, <1>a DEF MachinePlaces, Machine!process, Machine!Busy
  <2>7. Machine!EveryoneIsLimited'
    BY <2>1, <2>2, <2>3, <2>4, <2>5, <1>a
       DEF MachinePlaces, Machine!process, Machine!shutdownVars, Machine!Busy,
           Machine!EveryoneIsLimited
  <2>8. MachineShuts'
    BY <2>2, <2>3, <2>4, <1>a, <1>t
       DEF MachineShuts, Machine!shutdownVars, Machine!process, ProcessGone, Machine!TypeOK
  <2> QED
    BY <2>6, <2>7, <2>8
<1>3. ASSUME NEW c \in Launch, Machine!Spawn(c)
      PROVE MachinePlaces' /\ Machine!EveryoneIsLimited' /\ MachineShuts'
  <2>1. /\ at[c] = "checked"
        /\ UNCHANGED <<persistent, machineSessions, ended, timeLimit, Machine!shutdownVars>>
        /\ at'[c] \in {"refused", "spawned"}
        /\ \A x \in Launch : x # c => /\ at'[x] = at[x] /\ machineLeader'[x] = machineLeader[x]
                                       /\ machineRest'[x] = machineRest[x]
        /\ at'[c] = "refused" => machineLeader' = machineLeader /\ machineRest' = machineRest
    BY <1>3, <1>t DEF Machine!Spawn, Machine!GoTo, Machine!TypeOK, Machine!process
  <2>2. MachinePlaces'
    BY <2>1, <1>a DEF MachinePlaces, Machine!Busy
  <2>3. Machine!EveryoneIsLimited'
    BY <2>1, <1>a DEF Machine!EveryoneIsLimited, Machine!Busy, Machine!shutdownVars
  <2>4. MachineShuts'
    BY <2>1, <1>a, <1>t DEF MachineShuts, ProcessGone, Machine!shutdownVars, Machine!TypeOK
  <2> QED
    BY <2>2, <2>3, <2>4
<1>4. ASSUME NEW c \in Launch, Machine!Keep(c)
      PROVE MachinePlaces' /\ Machine!EveryoneIsLimited' /\ MachineShuts'
  <2>1. /\ at[c] = "spawned" /\ timeLimit' = timeLimit \cup {c}
        /\ UNCHANGED <<persistent, ended, Machine!process, Machine!shutdownVars>>
        /\ \A x \in Launch : x # c => at'[x] = at[x]
        /\ \/ at'[c] = "kept" /\ machineSessions' = machineSessions \cup {c}
           \/ at'[c] = "waiting" /\ machineSessions' = machineSessions
    BY <1>4, <1>t DEF Machine!Keep, Machine!GoTo, Machine!TypeOK
  <2>2. MachinePlaces'
    BY <2>1, <1>a DEF MachinePlaces, Machine!Busy, Machine!process
  <2>3. Machine!EveryoneIsLimited'
    BY <2>1, <1>a
       DEF Machine!EveryoneIsLimited, Machine!Busy, Machine!shutdownVars, Machine!process
  <2>4. MachineShuts'
    BY <2>1, <1>a, <1>t
       DEF MachineShuts, ProcessGone, Machine!shutdownVars, Machine!process, Machine!TypeOK
  <2> QED
    BY <2>2, <2>3, <2>4
<1>5. ASSUME NEW c \in Launch, Machine!Closed(c)
      PROVE MachinePlaces' /\ Machine!EveryoneIsLimited' /\ MachineShuts'
  <2>1. /\ at[c] \in {"kept", "waiting"} /\ machineLeader[c] = "exited" /\ machineRest[c] # "open"
        /\ ended' = ended \cup {c} /\ timeLimit' = timeLimit \ {c}
        /\ UNCHANGED <<persistent, machineSessions, Machine!process, Machine!shutdownVars>>
        /\ \A x \in Launch : x # c => at'[x] = at[x]
        /\ at'[c] \in {"kept", "done"} /\ (at[c] = "kept" => at'[c] = "kept")
    BY <1>5, <1>t DEF Machine!Closed, Machine!GoTo, Machine!TypeOK
  <2>2. MachinePlaces'
    BY <2>1, <1>a DEF MachinePlaces, Machine!Busy, Machine!process
  <2>3. Machine!EveryoneIsLimited'
    BY <2>1, <1>a
       DEF Machine!EveryoneIsLimited, Machine!Busy, Machine!shutdownVars, Machine!process
  <2>4. MachineShuts'
    BY <2>1, <1>a, <1>t
       DEF MachineShuts, ProcessGone, Machine!shutdownVars, Machine!process, Machine!TypeOK
  <2> QED
    BY <2>2, <2>3, <2>4
<1>6. ASSUME NEW c \in Launch, Machine!Timeout(c)
      PROVE MachinePlaces' /\ Machine!EveryoneIsLimited' /\ MachineShuts'
  <2>1. Machine!Kill({c}) /\ timeLimit' = timeLimit \ {c}
          /\ UNCHANGED <<persistent, at, machineSessions, ended, Machine!shutdownVars>>
    BY <1>6 DEF Machine!Timeout
  <2>2. ~Machine!Busy(c)'
    BY <2>1, <1>t, MachineKilling DEF Machine!Busy
  <2>3. MachinePlaces' /\ \A x \in Launch : (Machine!Busy(x)' => Machine!Busy(x))
          /\ (ProcessGone(x) => ProcessGone(x)')
    BY <2>1, <1>t, <1>a, MachineEnding, EndsOnly
  <2>4. Machine!EveryoneIsLimited'
    BY <2>1, <2>2, <2>3, <1>a DEF Machine!EveryoneIsLimited, Machine!shutdownVars
  <2>5. MachineShuts'
    BY <2>1, <2>3, <1>a, <1>t DEF MachineShuts, Machine!shutdownVars, Machine!TypeOK
  <2> QED
    BY <2>3, <2>4, <2>5
<1>7. ASSUME NEW c \in Launch, Machine!Live(c) \/ Machine!Stop(c)
      PROVE MachinePlaces' /\ Machine!EveryoneIsLimited' /\ MachineShuts'
  <2>1. UNCHANGED <<persistent, at, machineSessions, ended, timeLimit, Machine!shutdownVars>>
    BY <1>7 DEF Machine!Live, Machine!Stop
  <2>2. OnlyEnds
    <3>1. CASE Machine!Wane({c}) \/ Machine!Kill({c})
      BY <3>1, <1>t, MachineEnding
    <3>2. CASE UNCHANGED <<machineLeader, machineRest>>
      BY <3>2 DEF OnlyEnds
    <3> QED
      BY <3>1, <3>2, <1>7 DEF Machine!Live, Machine!Stop
  <2>3. MachinePlaces' /\ \A x \in Launch : (Machine!Busy(x)' => Machine!Busy(x))
          /\ (ProcessGone(x) => ProcessGone(x)')
    BY <2>1, <2>2, <1>t, <1>a, EndsOnly
  <2>4. Machine!EveryoneIsLimited'
    BY <2>1, <2>3, <1>a DEF Machine!EveryoneIsLimited, Machine!shutdownVars
  <2>5. MachineShuts'
    BY <2>1, <2>3, <1>a, <1>t DEF MachineShuts, Machine!shutdownVars, Machine!TypeOK
  <2> QED
    BY <2>3, <2>4, <2>5
<1>9. CASE Machine!Shutdown
  <2>1. /\ shutdown = "idle" /\ stopping' = {c \in Launch : Machine!Running(c)}
        /\ shutdown' = IF stopping' = {} THEN "done" ELSE "grace"
        /\ timeLimit' = timeLimit \ stopping' /\ Machine!Wane(stopping')
        /\ UNCHANGED <<persistent, at, machineSessions, ended, stopped>>
    BY <1>9 DEF Machine!Shutdown
  <2>w. ASSUME NEW C \in SUBSET Launch, Machine!Wane(C)
        PROVE  OnlyEnds
    BY <2>w, <1>t, MachineEnding
  <2>2. OnlyEnds
    BY <2>1, <2>w
  <2>3. MachinePlaces' /\ \A x \in Launch : (Machine!Busy(x)' => Machine!Busy(x))
          /\ (ProcessGone(x) => ProcessGone(x)')
    BY <2>1, <2>2, <1>t, <1>a, EndsOnly
  <2>4. Machine!EveryoneIsLimited'
    BY <2>1, <2>3, <1>a DEF Machine!EveryoneIsLimited
  <2>5. MachineShuts'
    BY <2>1, <1>a DEF MachineShuts, Machine!Running, MachinePlaces
  <2> QED
    BY <2>3, <2>4, <2>5
<1>10. CASE Machine!GraceEnds
  <2>1. PICK found \in SUBSET stopping :
          /\ \A c \in found : Machine!Verified(c)
          /\ stopped' = found /\ Machine!Kill(stopping \ found)
          /\ shutdown' = IF found = stopping THEN "done" ELSE "forced"
    BY <1>10 DEF Machine!GraceEnds
  <2>2. shutdown = "grace" /\ UNCHANGED <<persistent, at, machineSessions, ended, timeLimit,
          stopping>>
    BY <1>10 DEF Machine!GraceEnds
  <2>3. stopping \ found \in SUBSET Launch
    BY <1>t DEF Machine!TypeOK
  <2>4. MachinePlaces' /\ \A x \in Launch : (Machine!Busy(x)' => Machine!Busy(x))
          /\ (ProcessGone(x) => ProcessGone(x)')
    <3>1. OnlyEnds
      BY <2>1, <2>3, <1>t, MachineEnding
    <3> QED
      BY <3>1, <2>2, <1>t, <1>a, EndsOnly
  <2>5. \A c \in stopping : ProcessGone(c)'
    <3>1. ASSUME NEW c \in stopping \ found PROVE ProcessGone(c)'
      BY <2>1, <2>3, <1>t, MachineKilling DEF ProcessGone
    <3>2. ASSUME NEW c \in found PROVE ProcessGone(c)'
      BY <2>1, <2>4, <1>t DEF ProcessGone, Machine!Verified, Machine!TypeOK
    <3> QED
      BY <3>1, <3>2
  <2>6. Machine!EveryoneIsLimited'
    BY <2>2, <2>4, <2>5, <1>a DEF Machine!EveryoneIsLimited, ProcessGone, Machine!Busy
  <2>7. MachineShuts'
    BY <2>1, <2>2, <2>5, <1>a DEF MachineShuts
  <2> QED
    BY <2>4, <2>6, <2>7
<1>11. CASE Machine!ForceEnds
  <2>1. /\ shutdown = "forced" /\ shutdown' = "done"
        /\ stopped' \subseteq stopping
        /\ UNCHANGED <<persistent, at, machineSessions, ended, timeLimit, Machine!process,
             stopping>>
    BY <1>11, <1>a DEF Machine!ForceEnds, MachineShuts
  <2>2. MachinePlaces'
    BY <2>1, <1>a DEF MachinePlaces, Machine!process, Machine!Busy
  <2>3. Machine!EveryoneIsLimited'
    BY <2>1, <1>a DEF Machine!EveryoneIsLimited, Machine!process, Machine!Busy
  <2>4. MachineShuts'
    BY <2>1, <1>a DEF MachineShuts, Machine!process, ProcessGone
  <2> QED
    BY <2>2, <2>3, <2>4
<1> QED
  BY <1>1, <1>2, <1>3, <1>4, <1>5, <1>6, <1>7, <1>9, <1>10, <1>11
     DEF Machine!Next, Machine!Proceed, Machine!ShutDown

-----------------------------------------------------------------------------
(* The live sessions *)

\* What is asked of the constants: observations, releases and the timers of
\* sessions are threads of their own, and none of them is Nobody.
LiveConstants ==
  /\ Observation \cap Releaser = {}
  /\ Nobody \notin Live!Thread
  /\ \A s \in Live!Session : Live!Timer(s) \notin Observation \cup Releaser

-----------------------------------------------------------------------------
(* Types *)

ObservationPlace ==
  {"idle", "begin", "reserve", "create", "undo", "started", "start fails", "ready", "using",
   "want", "release", "remove", "lease", "restart", "restart remove", "restart lease", "done"}
ReleaserPlace ==
  {"idle", "settle", "targets", "want", "release", "remove", "lease", "abort", "done"}
TimerPlace == {"idle", "want", "release", "remove", "lease"}

MaybeSession == Live!Session \cup {Nobody}

\* The configuration, which never changes.
LiveConfig ==
  /\ home \in [Observation \cup Releaser -> Runtime]
  /\ key \in [Observation -> Key]
  /\ endpoint \in [Key -> Endpoint]
  /\ scope \in [Releaser -> SUBSET Key]

\* What is shared between runtimes.
LiveShared ==
  /\ living \subseteq Runtime
  /\ leases \in [Key -> MaybeSession] /\ endpoints \in [Endpoint -> MaybeSession]
  /\ trees \subseteq Key
  /\ reclaimed \subseteq Observation /\ leaked \subseteq Live!Session

\* The managers.
LiveManagers ==
  /\ sessions \in [Runtime -> [Key -> MaybeSession]]
  /\ starting \subseteq Observation
  /\ releasing \in [Runtime -> SUBSET Key]
  /\ releaseLock \in [Runtime -> Releaser \cup {Nobody}]
  /\ lock \in [Runtime -> [Key -> Live!Thread \cup {Nobody}]]
  /\ up \subseteq Live!Session /\ timer \subseteq Live!Session

\* The threads.
LiveThreads ==
  /\ pc \in [Live!Thread -> ObservationPlace \cup ReleaserPlace]
  /\ target \in [Live!Thread -> MaybeSession]
  /\ using \in [Observation -> MaybeSession]
  /\ waiting \in [Releaser -> SUBSET Live!Session]
LivePlaces ==
  /\ \A o \in Observation : pc[o] \in ObservationPlace
  /\ \A x \in Releaser : pc[x] \in ReleaserPlace
  /\ \A s \in Live!Session : pc[Live!Timer(s)] \in TimerPlace

LiveTyped == LiveConfig /\ LiveShared /\ LiveManagers /\ LiveThreads /\ LivePlaces

-----------------------------------------------------------------------------
(* The invariant *)

\* Where a thread holds the lock of its key, and where it has a session to release.
LiveHeld ==
  {"begin", "reserve", "create", "undo", "started", "start fails", "ready", "restart",
   "restart remove", "restart lease", "release", "remove", "lease"}
LiveReleases ==
  {"want", "release", "remove", "lease", "restart", "restart remove", "restart lease"}

KeyOf(t) == IF t \in Observation THEN key[t] ELSE key[target[t]]

\* Some thread can come upon session s.
Referred(s) ==
  \/ Live!InMap(s) \/ s \in timer
  \/ \E t \in Live!Thread : target[t] = s
  \/ \E o \in Observation : using[o] = s
  \/ \E x \in Releaser : pc[x] # "settle" /\ s \in waiting[x]

\* The session of an observation is not there yet.
Unmade(o) ==
  \/ pc[o] \in {"idle", "restart", "restart remove", "restart lease", "begin", "reserve",
                "create", "undo"}
  \/ pc[o] = "ready" /\ using[o] # o

\* A lease of s is in use, or will be given back, or could not be.
HasItsSession(s) ==
  \/ Live!InMap(s) \/ pc[s] \in {"create", "undo"} \/ s \in leaked
  \/ \E t \in Live!Thread : target[t] = s /\ pc[t] \in {"lease", "restart lease"}

\* A session is where its runtime and its key say, and so is what it has leased;
\* a service that runs has its session in the map.
MapFits ==
  /\ \A r \in Runtime, k \in Key : sessions[r][k] # Nobody =>
       home[sessions[r][k]] = r /\ key[sessions[r][k]] = k
  /\ \A s \in up : Live!InMap(s)
LeasesFit ==
  /\ \A k \in Key, s \in Live!Session : leases[k] = s =>
       key[s] = k /\ (home[s] \in living => HasItsSession(s))
  /\ \A e \in Endpoint, s \in Live!Session : endpoints[e] = s =>
       endpoint[key[s]] = e /\ leases[key[s]] = s

\* The lease lasts from the reservation to the removal.
LiveLeased ==
  \A s \in Live!Session : home[s] \in living /\ (Live!InMap(s) \/ pc[s] = "create") =>
    /\ leases[key[s]] = s /\ endpoints[endpoint[key[s]]] = s
    /\ Live!InMap(s) => key[s] \in trees

\* A thread works on a key under its lock, and on a session of its own runtime.
ThreadFits(t) ==
  /\ pc[t] \in LiveReleases => target[t] # Nobody
  /\ target[t] # Nobody =>
       home[target[t]] = Live!RuntimeOf(t) /\ (t \in Observation => key[target[t]] = key[t])
  /\ pc[t] \in LiveHeld => lock[Live!RuntimeOf(t)][KeyOf(t)] = t
  /\ pc[t] \in {"remove", "restart remove"} => Live!InMap(target[t]) /\ target[t] \notin up
  /\ pc[t] \in {"lease", "restart lease"} => ~Live!InMap(target[t])

ObservationFits(o) ==
  /\ pc[o] \in {"reserve", "create", "undo", "started", "start fails"} => o \in starting
  /\ pc[o] = "started" => using[o] = o
  /\ pc[o] \in {"ready", "using"} => using[o] # Nobody
  /\ using[o] # Nobody => home[using[o]] = home[o] /\ key[using[o]] = key[o]
  /\ Unmade(o) => ~Referred(o)

\* A release holds the release lock of its runtime and lets nothing start in its
\* scope; the sessions of its scope are those it is going to release.
ReleaserFits(x) ==
  /\ pc[x] \in {"settle", "targets", "want", "release", "remove", "lease", "abort"} =>
       releaseLock[home[x]] = x /\ releasing[home[x]] = scope[x]
  /\ pc[x] = "settle" =>
       \A o \in starting : home[o] = home[x] /\ key[o] \in scope[x] => o \in waiting[x]
  /\ pc[x] # "settle" => \A s \in waiting[x] : home[s] = home[x]
  /\ pc[x] \in {"targets", "want", "release", "remove", "lease"} =>
       /\ \A o \in starting : home[o] = home[x] => key[o] \notin scope[x]
       /\ \A k \in scope[x] :
            \/ sessions[home[x]][k] = Nobody \/ sessions[home[x]][k] \in waiting[x]
            \/ sessions[home[x]][k] = target[x] /\ pc[x] \in {"want", "release", "remove"}

LiveInv ==
  /\ LiveTyped /\ MapFits /\ LeasesFit /\ LiveLeased
  /\ \A t \in Live!Thread : ThreadFits(t)
  /\ \A o \in Observation : ObservationFits(o)
  /\ \A x \in Releaser : ReleaserFits(x)

-----------------------------------------------------------------------------
(* Threads and places *)

LEMMA LiveNames ==
  /\ ObservationPlace \subseteq ObservationPlace \cup ReleaserPlace
  /\ ReleaserPlace \subseteq ObservationPlace \cup ReleaserPlace
  /\ TimerPlace \subseteq ObservationPlace /\ TimerPlace \subseteq ReleaserPlace
  /\ "idle" \in TimerPlace /\ "want" \in TimerPlace /\ "release" \in TimerPlace
  /\ "remove" \in TimerPlace /\ "lease" \in TimerPlace
  /\ "begin" \in ObservationPlace /\ "reserve" \in ObservationPlace
  /\ "create" \in ObservationPlace /\ "undo" \in ObservationPlace
  /\ "started" \in ObservationPlace /\ "start fails" \in ObservationPlace
  /\ "ready" \in ObservationPlace /\ "using" \in ObservationPlace
  /\ "restart" \in ObservationPlace /\ "restart remove" \in ObservationPlace
  /\ "restart lease" \in ObservationPlace /\ "done" \in ObservationPlace
  /\ "settle" \in ReleaserPlace /\ "targets" \in ReleaserPlace /\ "abort" \in ReleaserPlace
  /\ "done" \in ReleaserPlace
  BY DEF ObservationPlace, ReleaserPlace, TimerPlace

\* Threads are of three kinds.
LEMMA ThreadKinds ==
  ASSUME LiveConstants
  PROVE  /\ \A o \in Observation : o \in Live!Thread /\ o \notin Releaser /\ o # Nobody
                                   /\ Live!RuntimeOf(o) = home[o] /\ KeyOf(o) = key[o]
         /\ \A x \in Releaser : x \in Live!Thread /\ x \notin Observation /\ x # Nobody
                                /\ Live!RuntimeOf(x) = home[x] /\ KeyOf(x) = key[target[x]]
         /\ \A s \in Live!Session :
              /\ Live!Timer(s) \in Live!Thread /\ Live!Timer(s) # Nobody
              /\ Live!Timer(s) \notin Observation /\ Live!Timer(s) \notin Releaser
              /\ Live!RuntimeOf(Live!Timer(s)) = home[s]
              /\ KeyOf(Live!Timer(s)) = key[target[Live!Timer(s)]]
         /\ \A t \in Live!Thread :
              t \in Observation \/ t \in Releaser \/ \E s \in Live!Session : t = Live!Timer(s)
         /\ Live!Session = Observation
  BY DEF LiveConstants, Live!Thread, Live!Timer, Live!Session, Live!RuntimeOf, KeyOf

LEMMA ThreadTypes ==
  ASSUME LiveConstants, LiveInv, NEW t \in Live!Thread
  PROVE  /\ Live!RuntimeOf(t) \in Runtime
         /\ pc[t] \in LiveHeld => KeyOf(t) \in Key /\ lock[Live!RuntimeOf(t)][KeyOf(t)] = t
         /\ pc[t] \in LiveReleases =>
              target[t] \in Live!Session /\ home[target[t]] = Live!RuntimeOf(t)
                                  /\ key[target[t]] = KeyOf(t)
<1>1. ThreadFits(t) /\ LiveConfig /\ target[t] \in MaybeSession /\ LivePlaces
  BY DEF LiveInv, LiveTyped, LiveThreads
<1>2. Live!RuntimeOf(t) \in Runtime
  BY <1>1, ThreadKinds DEF LiveConfig
<1>3. pc[t] \in LiveReleases => target[t] \in Live!Session /\ home[target[t]] = Live!RuntimeOf(t)
                            /\ key[target[t]] = KeyOf(t)
  BY <1>1, ThreadKinds DEF ThreadFits, MaybeSession, KeyOf
<1>4. CASE t \in Observation
  <2>1. KeyOf(t) = key[t] /\ key[t] \in Key
    BY <1>1, <1>4, ThreadKinds DEF LiveConfig
  <2>2. pc[t] \in LiveHeld => lock[Live!RuntimeOf(t)][KeyOf(t)] = t
    BY <1>1 DEF ThreadFits
  <2> QED
    BY <1>2, <1>3, <2>1, <2>2
<1>5. CASE t \notin Observation
  <2>1. pc[t] \in ReleaserPlace
    BY <1>1, <1>5, ThreadKinds, LiveNames DEF LivePlaces
  <2>2. pc[t] \in LiveHeld => pc[t] \in LiveReleases
    BY <2>1 DEF LiveHeld, LiveReleases, ReleaserPlace
  <2>3. target[t] \in Live!Session => key[target[t]] \in Key
    BY <1>1, ThreadKinds DEF LiveConfig
  <2> QED
    BY <1>1, <1>2, <1>3, <1>5, <2>2, <2>3 DEF ThreadFits
<1> QED
  BY <1>4, <1>5

LEMMA LiveInit == ASSUME LiveConstants, Live!Init PROVE LiveInv
<1> USE ThreadKinds
<1>1. LiveConfig
  BY DEF Live!Init, LiveConfig
<1>2. /\ living = Runtime
      /\ leases = [k \in Key |-> Nobody] /\ endpoints = [e \in Endpoint |-> Nobody]
      /\ trees = {} /\ reclaimed = {} /\ leaked = {}
      /\ sessions = [r \in Runtime |-> [k \in Key |-> Nobody]]
      /\ starting = {} /\ releasing = [r \in Runtime |-> {}]
      /\ releaseLock = [r \in Runtime |-> Nobody]
      /\ lock = [r \in Runtime |-> [k \in Key |-> Nobody]]
      /\ up = {} /\ timer = {}
      /\ pc = [t \in Live!Thread |-> "idle"]
      /\ target = [t \in Live!Thread |-> Nobody]
      /\ using = [o \in Observation |-> Nobody]
      /\ waiting = [x \in Releaser |-> {}]
  BY DEF Live!Init
<1> USE <1>2
<1>3. LiveShared
  BY DEF LiveShared, MaybeSession
<1>4. LiveManagers
  BY DEF LiveManagers, MaybeSession
<1>5. \A t \in Live!Thread : pc[t] = "idle" /\ target[t] = Nobody
  OBVIOUS
<1>6. LiveThreads /\ LivePlaces
  BY LiveNames DEF LiveThreads, LivePlaces, MaybeSession
<1>7. \A s \in Live!Session : ~Live!InMap(s) /\ ~Referred(s)
  BY <1>1 DEF Live!InMap, Referred, LiveConfig
<1>8. MapFits /\ LeasesFit /\ LiveLeased
  BY <1>1, <1>5, <1>7 DEF MapFits, LeasesFit, LiveLeased, LiveConfig
<1>9. \A t \in Live!Thread : ThreadFits(t)
  BY <1>5 DEF ThreadFits, LiveReleases, LiveHeld
<1>10. \A o \in Observation : ObservationFits(o)
  BY <1>5, <1>7 DEF ObservationFits
<1>11. \A x \in Releaser : ReleaserFits(x)
  BY <1>5 DEF ReleaserFits
<1> QED
  BY <1>1, <1>3, <1>4, <1>6, <1>8, <1>9, <1>10, <1>11 DEF LiveInv, LiveTyped

-----------------------------------------------------------------------------
(* What a step of a thread leaves alone *)

\* Other threads stay where they are and keep their locks; the map changes only
\* where a session is made or removed, and nothing else makes a service run.
ThreadMoves(t) ==
  /\ UNCHANGED <<home, key, endpoint, scope, living>>
  /\ \A u \in Live!Thread \ {t} : pc'[u] = pc[u] /\ target'[u] = target[u]
  /\ \A o \in Observation \ {t} : using'[o] = using[o]
  /\ \A x \in Releaser \ {t} : waiting'[x] = waiting[x]
  /\ \A r \in Runtime, k \in Key :
       lock[r][k] # Nobody /\ lock[r][k] # t => lock'[r][k] = lock[r][k]
  /\ starting \ {t} \subseteq starting'

ThreadMakes(t) ==
  /\ \A r \in Runtime, k \in Key :
       \/ sessions'[r][k] = sessions[r][k]
       \/ /\ r = Live!RuntimeOf(t) /\ k = KeyOf(t)
          /\ \/ pc[t] = "create" /\ t \in Observation /\ sessions'[r][k] = t
             \/ pc[t] \in {"remove", "restart remove"} /\ sessions'[r][k] = Nobody
  /\ \A s \in up' : s \in up \/ (s = t /\ t \in Observation /\ pc[t] = "create")

\* A thread comes upon no session that no thread can come upon, but the one it makes.
ThreadFinds(t) ==
  \A s \in Live!Session : Referred(s)' => Referred(s) \/ (s = t /\ pc[t] = "create")

LEMMA OtherThreads ==
  ASSUME LiveConstants, LiveInv, NEW t \in Live!Thread, ThreadMoves(t), ThreadMakes(t),
         NEW u \in Live!Thread, u # t
  PROVE  ThreadFits(u)'
<1>1. /\ pc'[u] = pc[u] /\ target'[u] = target[u] /\ Live!RuntimeOf(u)' = Live!RuntimeOf(u)
      /\ KeyOf(u)' = KeyOf(u) /\ UNCHANGED <<home, key>>
  BY DEF ThreadMoves, Live!RuntimeOf, KeyOf
<1>2. ThreadFits(u) /\ target[u] \in MaybeSession
  BY DEF LiveInv, LiveTyped, LiveThreads
<1>3. pc[u] \in LiveHeld => lock'[Live!RuntimeOf(u)][KeyOf(u)] = u
  <2>1. u # Nobody
    BY DEF LiveConstants
  <2> QED
    BY <2>1, ThreadTypes DEF ThreadMoves
<1>4. ASSUME pc[u] \in LiveReleases, NEW s, s = target[u]
      PROVE  s \in Live!Session /\ home[s] \in Runtime /\ key[s] \in Key /\ s # Nobody
             /\ Live!RuntimeOf(u) = home[s] /\ KeyOf(u) = key[s]
             /\ ~(s = t /\ t \in Observation /\ pc[t] = "create")
  <2>1. s \in Live!Session /\ Live!RuntimeOf(u) = home[s] /\ KeyOf(u) = key[s]
    BY <1>4, ThreadTypes
  <2>2. home[s] \in Runtime /\ key[s] \in Key /\ s # Nobody
    BY <2>1, ThreadKinds DEF LiveInv, LiveTyped, LiveConfig
  <2>3. Referred(s)
    BY <1>4 DEF Referred
  <2>4. ASSUME t \in Observation, pc[t] = "create" PROVE ~Referred(t)
    BY <2>4 DEF LiveInv, ObservationFits, Unmade
  <2> QED
    BY <2>1, <2>2, <2>3, <2>4
<1>5. ASSUME pc[u] \in {"remove", "restart remove"}
      PROVE  Live!InMap(target[u])' /\ target[u] \notin up'
  <2>1. pc[u] \in LiveReleases /\ pc[u] \in LiveHeld
    BY <1>5 DEF LiveReleases, LiveHeld
  <2> DEFINE s == target[u]
  <2>2. Live!InMap(s) /\ s \notin up
    BY <1>2, <1>5 DEF ThreadFits
  <2>3. lock[home[s]][key[s]] = u
    BY <1>4, <2>1, ThreadTypes
  <2>4. pc[t] \in {"create", "remove", "restart remove"} => lock[Live!RuntimeOf(t)][KeyOf(t)] = t
    BY ThreadTypes DEF LiveHeld
  <2>5. sessions'[home[s]][key[s]] = s
    BY <1>4, <2>1, <2>2, <2>3, <2>4 DEF ThreadMakes, Live!InMap
  <2>6. s \notin up'
    BY <1>4, <2>1, <2>2 DEF ThreadMakes
  <2> QED
    BY <1>1, <2>5, <2>6 DEF Live!InMap
<1>6. ASSUME pc[u] \in {"lease", "restart lease"}
      PROVE  ~Live!InMap(target[u])'
  <2>1. pc[u] \in LiveReleases
    BY <1>6 DEF LiveReleases
  <2> DEFINE s == target[u]
  <2>2. ~Live!InMap(s)
    BY <1>2, <1>6 DEF ThreadFits
  <2>3. sessions'[home[s]][key[s]] # s
    BY <1>4, <2>1, <2>2 DEF ThreadMakes, Live!InMap
  <2> QED
    BY <1>1, <2>3 DEF Live!InMap
<1> QED
  BY <1>1, <1>2, <1>3, <1>5, <1>6 DEF ThreadFits

LEMMA OtherObservations ==
  ASSUME LiveConstants, LiveInv, NEW t \in Live!Thread, ThreadMoves(t), ThreadFinds(t),
         NEW o \in Observation, o # t
  PROVE  ObservationFits(o)'
<1>1. pc'[o] = pc[o] /\ using'[o] = using[o] /\ UNCHANGED <<home, key>>
      /\ (o \in starting => o \in starting')
  BY ThreadKinds DEF ThreadMoves
<1>2. Unmade(o)' => Unmade(o)
  BY <1>1 DEF Unmade
<1>3. ObservationFits(o)
  BY DEF LiveInv
<1>4. Unmade(o)' => ~Referred(o)'
  BY <1>2, <1>3, ThreadKinds DEF ObservationFits, ThreadFinds
<1> QED
  BY <1>1, <1>3, <1>4 DEF ObservationFits

\* A release keeps what it has, whatever other threads do: only it takes the scope
\* away, nothing starts in the scope, and only what starts is made.
LEMMA OtherReleasers ==
  ASSUME LiveConstants, LiveInv, NEW t \in Live!Thread, ThreadMoves(t), ThreadMakes(t),
           NEW x \in Releaser, x # t,
         releaseLock[home[x]] = x => releaseLock'[home[x]] = x
                                     /\ releasing'[home[x]] = releasing[home[x]],
         \A o \in starting' : o \in starting \/ key[o] \notin releasing[home[o]]
  PROVE  ReleaserFits(x)'
<1>1. pc'[x] = pc[x] /\ target'[x] = target[x] /\ waiting'[x] = waiting[x]
      /\ UNCHANGED <<home, key, scope>>
  BY ThreadKinds DEF ThreadMoves
<1>2. ReleaserFits(x) /\ home[x] \in Runtime /\ scope[x] \subseteq Key
  BY DEF LiveInv, LiveTyped, LiveConfig
<1>3. CASE pc[x] \notin {"settle", "targets", "want", "release", "remove", "lease", "abort"}
  BY <1>1, <1>2, <1>3 DEF ReleaserFits
<1>4. CASE pc[x] \in {"settle", "targets", "want", "release", "remove", "lease", "abort"}
  <2>1. releaseLock'[home[x]] = x /\ releasing'[home[x]] = scope[x]
          /\ releasing[home[x]] = scope[x]
    BY <1>2, <1>4 DEF ReleaserFits
  <2>2. \A o \in starting' : home[o] = home[x] /\ key[o] \in scope[x] => o \in starting
    BY <2>1
  <2>3. ASSUME pc[x] \in {"targets", "want", "release", "remove", "lease"}, NEW k \in scope[x]
        PROVE  \/ sessions'[home[x]][k] = sessions[home[x]][k]
               \/ sessions'[home[x]][k] = Nobody
    <3>1. ASSUME pc[t] = "create", t \in Observation PROVE t \in starting
      BY <3>1 DEF LiveInv, ObservationFits
    <3>2. ASSUME pc[t] = "create", t \in Observation, Live!RuntimeOf(t) = home[x], KeyOf(t) = k
          PROVE  FALSE
      BY <1>2, <2>3, <3>1, <3>2, ThreadKinds DEF ReleaserFits
    <3> QED
      BY <1>2, <2>3, <3>2 DEF ThreadMakes
  <2> QED
    BY <1>1, <1>2, <1>4, <2>1, <2>2, <2>3 DEF ReleaserFits
<1> QED
  BY <1>3, <1>4

\* The leases fit in a step that changes none of them and neither makes nor removes
\* a session.
LEMMA LeasesStay ==
  ASSUME LiveConstants, LiveInv, NEW t \in Live!Thread, ThreadMoves(t),
         UNCHANGED <<leases, endpoints, trees, sessions, leaked>>,
         pc[t] \notin {"create", "undo", "lease", "restart lease"}, pc'[t] # "create"
  PROVE  LeasesFit' /\ LiveLeased'
<1>1. UNCHANGED <<home, key, endpoint, living>>
                  /\ (\A s \in Live!Session : Live!InMap(s)' <=> Live!InMap(s))
  BY DEF ThreadMoves, Live!InMap
<1>2. \A s \in Live!Session : /\ pc'[s] = "create" => pc[s] = "create"
                              /\ pc[s] \in {"create", "undo"} => pc'[s] = pc[s]
  BY ThreadKinds DEF ThreadMoves
<1>3. ASSUME NEW u \in Live!Thread, pc[u] \in {"lease", "restart lease"}
      PROVE  pc'[u] = pc[u] /\ target'[u] = target[u]
  BY <1>3 DEF ThreadMoves
<1>4. \A s \in Live!Session : HasItsSession(s) => HasItsSession(s)'
  BY <1>1, <1>2, <1>3 DEF HasItsSession
<1>5. LeasesFit'
  BY <1>1, <1>4 DEF LiveInv, LeasesFit
<1>6. LiveLeased'
  BY <1>1, <1>2 DEF LiveInv, LiveLeased
<1> QED
  BY <1>5, <1>6

-----------------------------------------------------------------------------
(* What the steps are made of *)

LEMMA ThreadGoes ==
  ASSUME LiveConstants, LiveTyped, NEW t \in Live!Thread, NEW p, Live!Goto(t, p),
         UNCHANGED <<home, key, endpoint, scope>>,
         t \in Observation => p \in ObservationPlace,
         t \in Releaser => p \in ReleaserPlace,
         \A s \in Live!Session : t = Live!Timer(s) => p \in TimerPlace
  PROVE  /\ pc' \in [Live!Thread -> ObservationPlace \cup ReleaserPlace] /\ LivePlaces'
         /\ pc'[t] = p /\ \A u \in Live!Thread \ {t} : pc'[u] = pc[u]
         /\ LiveConfig'
<1>1. pc' = [pc EXCEPT ![t] = p] /\ pc \in [Live!Thread -> ObservationPlace \cup ReleaserPlace]
  BY DEF Live!Goto, LiveTyped, LiveThreads
<1>2. p \in ObservationPlace \cup ReleaserPlace
  BY ThreadKinds, LiveNames
<1>3. pc' \in [Live!Thread -> ObservationPlace \cup ReleaserPlace]
  BY <1>1, <1>2
<1>4. pc'[t] = p /\ \A u \in Live!Thread \ {t} : pc'[u] = pc[u]
  BY <1>1
<1>5. LivePlaces'
  BY <1>4, ThreadKinds DEF LiveTyped, LivePlaces
<1> QED
  BY <1>3, <1>4, <1>5 DEF LiveTyped, LiveConfig

LEMMA ObservationGoes ==
  ASSUME LiveConstants, LiveTyped, NEW o \in Observation, NEW p \in ObservationPlace,
           Live!Goto(o, p),
         UNCHANGED <<home, key, endpoint, scope>>
  PROVE  /\ pc' \in [Live!Thread -> ObservationPlace \cup ReleaserPlace] /\ LivePlaces'
         /\ pc'[o] = p /\ \A u \in Live!Thread \ {o} : pc'[u] = pc[u]
         /\ LiveConfig'
BY ThreadGoes, ThreadKinds

LEMMA LockTaking ==
  ASSUME LiveTyped, NEW t \in Live!Thread, Live!RuntimeOf(t) \in Runtime, NEW k \in Key,
           Live!TakeLock(t, k)
  PROVE  /\ lock' \in [Runtime -> [Key -> Live!Thread \cup {Nobody}]]
         /\ lock'[Live!RuntimeOf(t)][k] = t
         /\ \A r \in Runtime, q \in Key :
              lock[r][q] # Nobody /\ lock[r][q] # t => lock'[r][q] = lock[r][q]
BY DEF Live!TakeLock, LiveTyped, LiveManagers

LEMMA LockFreeing ==
  ASSUME LiveTyped, NEW t \in Live!Thread, Live!RuntimeOf(t) \in Runtime, Live!FreeLock(t)
  PROVE  /\ lock' \in [Runtime -> [Key -> Live!Thread \cup {Nobody}]]
         /\ \A r \in Runtime, q \in Key :
              lock[r][q] # Nobody /\ lock[r][q] # t => lock'[r][q] = lock[r][q]
BY DEF Live!FreeLock, LiveTyped, LiveManagers

LEMMA ThreadFinding ==
  ASSUME LiveConstants, LiveInv, NEW t \in Live!Thread, ThreadMoves(t),
         \A u \in Live!Thread \ {t} : pc'[u] = pc[u],
         \A s \in Live!Session : Live!InMap(s)' => Live!InMap(s) \/ (s = t /\ pc[t] = "create"),
         \A s \in timer' : Referred(s),
         target'[t] # Nobody => Referred(target'[t]),
         t \in Observation => using'[t] = Nobody \/ Referred(using'[t])
                              \/ (using'[t] = t /\ pc[t] = "create"),
         t \in Releaser /\ pc'[t] # "settle" => \A s \in waiting'[t] : Referred(s)
  PROVE  ThreadFinds(t)
<1>1. ASSUME NEW s \in Live!Session, Referred(s)' PROVE Referred(s) \/ (s = t /\ pc[t] = "create")
  <2>0. s # Nobody
    BY ThreadKinds
  <2>1. CASE Live!InMap(s)' \/ s \in timer'
    BY <2>1 DEF Referred
  <2>2. ASSUME NEW u \in Live!Thread, target'[u] = s PROVE Referred(s)
    BY <2>0, <2>2 DEF ThreadMoves, Referred
  <2>3. ASSUME NEW o \in Observation, using'[o] = s
        PROVE  Referred(s) \/ (s = t /\ pc[t] = "create")
    BY <2>0, <2>3 DEF ThreadMoves, Referred
  <2>4. ASSUME NEW x \in Releaser, pc'[x] # "settle", s \in waiting'[x] PROVE Referred(s)
    <3>1. CASE x = t
      BY <2>4, <3>1
    <3>2. CASE x # t
      BY <2>4, <3>2, ThreadKinds DEF ThreadMoves, Referred
    <3> QED
      BY <3>1, <3>2
  <2> QED
    BY <1>1, <2>1, <2>2, <2>3, <2>4 DEF Referred
<1> QED
  BY <1>1 DEF ThreadFinds

\* The map fits in a step that changes neither it nor makes a service run.
LEMMA MapStays ==
  ASSUME LiveInv, UNCHANGED <<home, key, sessions>>, up' \subseteq up
  PROVE  MapFits' /\ \A s \in Live!Session : Live!InMap(s)' <=> Live!InMap(s)
BY DEF LiveInv, MapFits, Live!InMap

\* An observation that has not made its session, and does not now, has not made it.
LEMMA StillUnmade ==
  ASSUME LiveInv, NEW o \in Observation, ThreadFinds(o), Unmade(o), pc[o] # "create"
  PROVE  ~Referred(o)'
BY DEF LiveInv, ObservationFits, ThreadFinds, Live!Session

LEMMA LiveStepFits ==
  ASSUME LiveConstants, LiveInv, NEW t \in Live!Thread, LiveTyped', ThreadMoves(t),
           ThreadMakes(t), ThreadFinds(t),
         ThreadFits(t)', t \in Observation => ObservationFits(t)',
         t \in Releaser => ReleaserFits(t)', MapFits',
         LeasesFit' /\ LiveLeased',
         \A x \in Releaser \ {t} : releaseLock[home[x]] = x =>
           releaseLock'[home[x]] = x /\ releasing'[home[x]] = releasing[home[x]],
         \A o \in starting' : o \in starting \/ key[o] \notin releasing[home[o]]
  PROVE  LiveInv'
<1>1. \A u \in Live!Thread : ThreadFits(u)'
  BY OtherThreads
<1>2. \A o \in Observation : ObservationFits(o)'
  BY OtherObservations
<1>3. \A x \in Releaser : ReleaserFits(x)'
  BY OtherReleasers
<1> QED
  BY <1>1, <1>2, <1>3 DEF LiveInv

-----------------------------------------------------------------------------
(* Observations *)

\* An observation that acts.
LEMMA ThreadActing ==
  ASSUME LiveConstants, LiveInv, NEW t \in Live!Thread
  PROVE  /\ LiveTyped /\ LiveConfig /\ LiveShared /\ LiveManagers /\ LiveThreads /\ LivePlaces
         /\ ThreadFits(t) /\ Live!RuntimeOf(t) \in Runtime
         /\ target[t] \in MaybeSession /\ target \in [Live!Thread -> MaybeSession]
         /\ t \in Observation => /\ ObservationFits(t) /\ home[t] \in Runtime /\ key[t] \in Key
                                 /\ using[t] \in MaybeSession
         /\ t \in Releaser => ReleaserFits(t) /\ home[t] \in Runtime /\ scope[t] \subseteq Key
BY ThreadTypes DEF LiveInv, LiveTyped, LiveConfig, LiveThreads

LEMMA AcquireStep == ASSUME LiveConstants, LiveInv, NEW o \in Observation, Live!Acquire(o)
  PROVE LiveInv'
<1> DEFINE s == sessions[home[o]][key[o]]
<1> USE ThreadKinds
<1>0. o \in Live!Thread /\ pc[o] = "idle" /\ Live!TakeLock(o, key[o])
      /\ UNCHANGED <<home, key, endpoint, scope, living, leases, endpoints, trees, sessions,
                     starting, releasing, releaseLock, up, waiting, reclaimed, leaked, faults>>
  BY DEF Live!Acquire, Live!At, Live!config, Live!shared
<1>1. /\ LiveTyped /\ LiveShared /\ LiveManagers /\ LiveThreads /\ ThreadFits(o)
      /\ ObservationFits(o) /\ home[o] \in Runtime /\ key[o] \in Key
  BY <1>0, ThreadActing
<1>2. s \in MaybeSession /\ (s # Nobody => Live!InMap(s) /\ home[s] = home[o] /\ key[s] = key[o])
  BY <1>1 DEF LiveManagers, LiveInv, MapFits, Live!InMap
<1>3. PICK p \in {"begin", "restart", "ready"} :
        /\ Live!Goto(o, p)
        /\ p = "begin" => target' = target /\ using' = using
        /\ p = "restart" => s # Nobody /\ target' = [target EXCEPT ![o] = s] /\ using' = using
        /\ p = "ready" => s \in up /\ target' = target /\ using' = [using EXCEPT ![o] = s]
  BY DEF Live!Acquire
<1>4. p \in ObservationPlace
  BY LiveNames
<1>5. /\ pc' \in [Live!Thread -> ObservationPlace \cup ReleaserPlace] /\ LivePlaces'
           /\ LiveConfig'
      /\ pc'[o] = p /\ \A u \in Live!Thread \ {o} : pc'[u] = pc[u]
  BY <1>0, <1>1, <1>3, <1>4, ObservationGoes
<1>6. /\ lock' \in [Runtime -> [Key -> Live!Thread \cup {Nobody}]]
      /\ lock'[home[o]][key[o]] = o
      /\ \A r \in Runtime, q \in Key :
           lock[r][q] # Nobody /\ lock[r][q] # o => lock'[r][q] = lock[r][q]
  BY <1>0, <1>1, LockTaking
<1>7. timer' = timer \ {s}
  BY DEF Live!Acquire
<1>8. s # Nobody => s \in Live!Session /\ Referred(s)
  BY <1>2 DEF Referred, MaybeSession
<1>9. s \in up => s # Nobody
  BY <1>1 DEF LiveManagers
<1>10. target' \in [Live!Thread -> MaybeSession] /\ using' \in [Observation -> MaybeSession]
  BY <1>1, <1>2, <1>3 DEF LiveThreads
<1>11. LiveTyped'
  BY <1>0, <1>1, <1>5, <1>6, <1>7, <1>10 DEF LiveTyped, LiveShared, LiveManagers, LiveThreads
<1>12. ThreadMoves(o)
  BY <1>0, <1>1, <1>3, <1>5, <1>6 DEF ThreadMoves, LiveThreads
<1>13. ThreadMakes(o)
  BY <1>0 DEF ThreadMakes
<1>14. target'[o] \in {target[o], s} /\ using'[o] \in {using[o], s}
  BY <1>0, <1>1, <1>3 DEF LiveThreads
<1>15. \A q \in timer : Referred(q)
  BY DEF Referred
<1>16. /\ target[o] # Nobody => Referred(target[o])
       /\ using[o] # Nobody => Referred(using[o])
  BY <1>0 DEF Referred
<1>17. \A q \in Live!Session : Live!InMap(q)' <=> Live!InMap(q)
  BY <1>0, MapStays
<1>18. ThreadFinds(o)
  BY <1>0, <1>5, <1>7, <1>8, <1>12, <1>14, <1>15, <1>16, <1>17, ThreadFinding
<1>19. ThreadFits(o)'
  <2>1. Live!RuntimeOf(o)' = home[o] /\ KeyOf(o)' = key[o]
    BY <1>0 DEF Live!RuntimeOf, KeyOf
  <2>2. p \in LiveReleases => target'[o] = s /\ s # Nobody
    BY <1>1, <1>3, <1>0 DEF LiveReleases, LiveThreads
  <2> QED
    BY <1>0, <1>1, <1>2, <1>5, <1>6, <1>14, <2>1, <2>2 DEF ThreadFits
<1>20. ObservationFits(o)'
  <2>1. Unmade(o)
    BY <1>0 DEF Unmade
  <2>2. ~Referred(o)'
    BY <1>0, <1>18, <2>1, StillUnmade
  <2>3. p = "ready" => using'[o] # Nobody
    BY <1>1, <1>3, <1>9 DEF LiveThreads
  <2> QED
    BY <1>0, <1>1, <1>2, <1>5, <1>14, <2>2, <2>3 DEF ObservationFits
<1>21. MapFits' /\ LeasesFit' /\ LiveLeased'
  BY <1>0, <1>5, <1>12, MapStays, LeasesStay
<1> QED
  BY <1>0, <1>11, <1>12, <1>13, <1>18, <1>19, <1>20, <1>21, LiveStepFits

LEMMA BeginStep == ASSUME LiveConstants, LiveInv, NEW o \in Observation, Live!Begin(o)
  PROVE LiveInv'
<1> USE ThreadKinds
<1>0. o \in Live!Thread /\ pc[o] = "begin"
      /\ UNCHANGED <<home, key, endpoint, scope, living, leases, endpoints, trees, sessions,
                     releasing, releaseLock, up, timer, target, using, waiting, reclaimed, leaked,
                     faults>>
  BY DEF Live!Begin, Live!At, Live!config, Live!shared
<1>1. /\ LiveTyped /\ LiveShared /\ LiveManagers /\ LiveThreads /\ ThreadFits(o)
      /\ ObservationFits(o) /\ home[o] \in Runtime /\ key[o] \in Key
           /\ Live!RuntimeOf(o) \in Runtime
  BY <1>0, ThreadActing
<1>2. PICK p \in {"done", "reserve"} :
        /\ Live!Goto(o, p)
        /\ p = "done" => Live!FreeLock(o) /\ starting' = starting
        /\ p = "reserve" => lock' = lock /\ starting' = starting \cup {o}
                            /\ key[o] \notin releasing[home[o]]
  BY DEF Live!Begin
<1>3. p \in ObservationPlace
  BY LiveNames
<1>4. /\ pc' \in [Live!Thread -> ObservationPlace \cup ReleaserPlace] /\ LivePlaces'
           /\ LiveConfig'
      /\ pc'[o] = p /\ \A u \in Live!Thread \ {o} : pc'[u] = pc[u]
  BY <1>0, <1>1, <1>2, <1>3, ObservationGoes
<1>5. /\ lock' \in [Runtime -> [Key -> Live!Thread \cup {Nobody}]]
      /\ \A r \in Runtime, q \in Key :
           lock[r][q] # Nobody /\ lock[r][q] # o => lock'[r][q] = lock[r][q]
  BY <1>0, <1>1, <1>2, LockFreeing DEF LiveManagers
<1>6. LiveTyped'
  BY <1>0, <1>1, <1>2, <1>4, <1>5 DEF LiveTyped, LiveShared, LiveManagers, LiveThreads
<1>7. ThreadMoves(o)
  BY <1>0, <1>2, <1>4, <1>5 DEF ThreadMoves
<1>8. ThreadMakes(o)
  BY <1>0 DEF ThreadMakes
<1>9. \A s \in Live!Session : Live!InMap(s)' <=> Live!InMap(s)
  BY <1>0, MapStays
<1>10. ThreadFinds(o)
  BY <1>0, <1>4, <1>7, <1>9, ThreadFinding DEF Referred
<1>11. ThreadFits(o)'
  <2>1. Live!RuntimeOf(o)' = Live!RuntimeOf(o) /\ KeyOf(o)' = KeyOf(o) /\ target'[o] = target[o]
    BY <1>0 DEF Live!RuntimeOf, KeyOf
  <2>2. p = "reserve" => lock'[Live!RuntimeOf(o)][KeyOf(o)] = o
    BY <1>0, <1>1, <1>2 DEF ThreadFits, LiveHeld
  <2> QED
    BY <1>0, <1>1, <1>2, <1>4, <2>1, <2>2 DEF ThreadFits, LiveReleases, LiveHeld
<1>12. ObservationFits(o)'
  <2>1. Unmade(o)
    BY <1>0 DEF Unmade
  <2>2. ~Referred(o)'
    BY <1>0, <1>10, <2>1, StillUnmade
  <2> QED
    BY <1>0, <1>1, <1>2, <1>4, <2>2 DEF ObservationFits
<1>13. MapFits' /\ LeasesFit' /\ LiveLeased'
  BY <1>0, <1>2, <1>4, <1>7, MapStays, LeasesStay
<1>14. \A q \in starting' : q \in starting \/ key[q] \notin releasing[home[q]]
  BY <1>2
<1> QED
  BY <1>0, <1>6, <1>7, <1>8, <1>10, <1>11, <1>12, <1>13, <1>14, LiveStepFits

LEMMA ReserveStep == ASSUME LiveConstants, LiveInv, NEW o \in Observation, Live!Reserve(o)
  PROVE LiveInv'
<1> DEFINE k == key[o]
           kept == [q \in Key |-> IF q \in Live!Reaped(o) THEN Nobody ELSE leases[q]]
           free == [e \in Endpoint |->
                      IF endpoints[e] # Nobody /\ kept[key[endpoints[e]]] = endpoints[e]
                      THEN endpoints[e] ELSE Nobody]
<1> USE ThreadKinds
<1>0. o \in Live!Thread /\ pc[o] = "reserve" /\ home[o] \in living
      /\ UNCHANGED <<home, key, endpoint, scope, living, trees, sessions, starting, releasing,
                     releaseLock, lock, up, timer, target, using, waiting>>
  BY DEF Live!Reserve, Live!At, Live!config, Live!manager
<1>1. /\ LiveTyped /\ LiveConfig /\ LiveShared /\ LiveManagers /\ LiveThreads /\ ThreadFits(o)
      /\ ObservationFits(o) /\ home[o] \in Runtime /\ key[o] \in Key
           /\ endpoint[key[o]] \in Endpoint
      /\ o # Nobody
  BY <1>0, ThreadActing DEF LiveConfig
<1>2. PICK p \in {"start fails", "create"} :
        /\ Live!Goto(o, p)
        /\ \/ p = "start fails" /\ UNCHANGED <<leases, endpoints, reclaimed, leaked>>
           \/ /\ kept[k] = Nobody /\ free[endpoint[k]] = Nobody
              /\ leases' = [kept EXCEPT ![k] = o]
              /\ endpoints' = [free EXCEPT ![endpoint[k]] = o]
              /\ reclaimed' \in {reclaimed, reclaimed \cup {o}}
              /\ leaked' = IF p = "create" THEN leaked ELSE leaked \cup {o}
  BY DEF Live!Reserve, Live!shared
<1> HIDE DEF kept, free
<1>3. p \in ObservationPlace
  BY LiveNames
<1>4. /\ pc' \in [Live!Thread -> ObservationPlace \cup ReleaserPlace] /\ LivePlaces'
           /\ LiveConfig'
      /\ pc'[o] = p /\ \A u \in Live!Thread \ {o} : pc'[u] = pc[u]
  BY <1>0, <1>1, <1>2, <1>3, ObservationGoes
<1>5. /\ kept \in [Key -> MaybeSession] /\ free \in [Endpoint -> MaybeSession]
      /\ \A q \in Key : kept[q] \in {leases[q], Nobody}
                        /\ (home[leases[q]] \in living => kept[q] = leases[q])
      /\ \A e \in Endpoint : endpoints[e] = Nobody \/ kept[key[endpoints[e]]] # endpoints[e]
                             => free[e] = Nobody
      /\ \A e \in Endpoint : endpoints[e] # Nobody /\ kept[key[endpoints[e]]] = endpoints[e]
                             => free[e] = endpoints[e]
  BY <1>1 DEF LiveShared, MaybeSession, Live!Reaped, Live!Dead, kept, free
<1>6. LiveShared'
  <2>1. leases' \in [Key -> MaybeSession] /\ endpoints' \in [Endpoint -> MaybeSession]
    <3>1. o \in MaybeSession
      BY DEF MaybeSession
    <3>2. leases' \in [Key -> MaybeSession]
      <4>1. CASE leases' = leases
        BY <1>1, <4>1 DEF LiveShared
      <4>2. CASE leases' = [kept EXCEPT ![k] = o]
        BY <1>5, <3>1, <4>2
      <4> QED
        BY <1>2, <4>1, <4>2
    <3>3. endpoints' \in [Endpoint -> MaybeSession]
      <4>1. CASE endpoints' = endpoints
        BY <1>1, <4>1 DEF LiveShared
      <4>2. CASE endpoints' = [free EXCEPT ![endpoint[k]] = o]
        BY <1>5, <3>1, <4>2
      <4> QED
        BY <1>2, <4>1, <4>2
    <3> QED
      BY <3>2, <3>3
  <2>2. reclaimed' \subseteq Observation /\ leaked' \subseteq Live!Session
    BY <1>1, <1>2 DEF LiveShared
  <2> QED
    BY <1>0, <1>1, <2>1, <2>2 DEF LiveShared
<1>7. LiveTyped'
  BY <1>0, <1>1, <1>4, <1>6 DEF LiveTyped, LiveManagers, LiveThreads
<1>8. ThreadMoves(o)
  BY <1>0, <1>4 DEF ThreadMoves
<1>9. ThreadMakes(o)
  BY <1>0 DEF ThreadMakes
<1>10. \A s \in Live!Session : Live!InMap(s)' <=> Live!InMap(s)
  BY <1>0, MapStays
<1>11. ThreadFinds(o)
  BY <1>0, <1>4, <1>8, <1>10, ThreadFinding DEF Referred
<1>12. ThreadFits(o)'
  <2>1. Live!RuntimeOf(o)' = Live!RuntimeOf(o) /\ KeyOf(o)' = KeyOf(o) /\ target'[o] = target[o]
    BY <1>0 DEF Live!RuntimeOf, KeyOf
  <2> QED
    BY <1>0, <1>1, <1>2, <1>4, <2>1 DEF ThreadFits, LiveReleases, LiveHeld
<1>13. Unmade(o) /\ ~Referred(o)'
  <2>1. Unmade(o)
    BY <1>0 DEF Unmade
  <2> QED
    BY <1>0, <1>11, <2>1, StillUnmade
<1>14. ObservationFits(o)'
  BY <1>0, <1>1, <1>2, <1>4, <1>13 DEF ObservationFits
<1>15. LeasesFit' /\ LiveLeased'
  <2>1. CASE UNCHANGED <<leases, endpoints, leaked>> /\ p = "start fails"
    BY <1>0, <1>4, <1>8, <2>1, LeasesStay
  <2>2. CASE /\ kept[k] = Nobody /\ free[endpoint[k]] = Nobody
             /\ leases' = [kept EXCEPT ![k] = o]
             /\ endpoints' = [free EXCEPT ![endpoint[k]] = o]
             /\ leaked' = IF p = "create" THEN leaked ELSE leaked \cup {o}
    <3>1. /\ leases'[k] = o /\ endpoints'[endpoint[k]] = o
          /\ \A q \in Key \ {k} : leases'[q] = kept[q]
          /\ \A e \in Endpoint \ {endpoint[k]} : endpoints'[e] = free[e]
      BY <1>1, <1>5, <2>2
    <3>2. LeasesFit
      BY DEF LiveInv
    <3>3. ASSUME NEW q \in Key, NEW s \in Live!Session, leases'[q] = s
          PROVE  key[s] = q /\ (home[s] \in living => HasItsSession(s)')
      <4>1. CASE q = k
        <5>1. s = o /\ (p = "create" \/ o \in leaked')
          BY <1>2, <2>2, <3>1, <3>3, <4>1
        <5> QED
          BY <1>4, <4>1, <5>1 DEF HasItsSession
      <4>2. CASE q # k
        <5>1. leases[q] = s
          BY <1>1, <1>5, <3>1, <3>3, <4>2
        <5>2. key[s] = q /\ (home[s] \in living => HasItsSession(s)) /\ s # o
          BY <3>2, <4>2, <5>1 DEF LeasesFit
        <5>3. ASSUME NEW u \in Live!Thread, pc[u] \in {"lease", "restart lease"}
              PROVE  pc'[u] = pc[u] /\ target'[u] = target[u]
          BY <1>0, <1>4, <5>3
        <5>4. pc'[s] = pc[s] /\ (Live!InMap(s)' <=> Live!InMap(s))
                /\ (s \in leaked => s \in leaked')
          BY <1>4, <1>10, <2>2, <5>2
        <5> QED
          BY <5>2, <5>3, <5>4 DEF HasItsSession
      <4> QED
        BY <4>1, <4>2
    <3>4. ASSUME NEW e \in Endpoint, NEW s \in Live!Session, endpoints'[e] = s
          PROVE  endpoint[key[s]] = e /\ leases'[key[s]] = s
      <4>1. CASE e = endpoint[k]
        BY <1>1, <3>1, <3>4, <4>1
      <4>2. CASE e # endpoint[k]
        <5>1. free[e] = s /\ s # Nobody
          BY <3>1, <3>4, <4>2
        <5>2. endpoints[e] = s /\ kept[key[s]] = s
          BY <1>5, <5>1
        <5>3. endpoint[key[s]] = e /\ key[s] \in Key /\ key[s] # k
          BY <1>1, <2>2, <3>2, <5>1, <5>2 DEF LeasesFit, LiveConfig
        <5> QED
          BY <3>1, <5>2, <5>3
      <4> QED
        BY <4>1, <4>2
    <3>7. LeasesFit'
      BY <1>0, <3>3, <3>4 DEF LeasesFit
    <3>8. ASSUME NEW s \in Live!Session, home[s] \in living, Live!InMap(s)' \/ pc'[s] = "create"
          PROVE  /\ leases'[key[s]] = s /\ endpoints'[endpoint[key[s]]] = s
                 /\ Live!InMap(s)' => key[s] \in trees
      <4>1. CASE s = o
        <5>1. ~Live!InMap(o)'
          BY <1>13 DEF Referred
        <5> QED
          BY <3>1, <4>1, <5>1
      <4>2. CASE s # o
        <5>1. /\ leases[key[s]] = s /\ endpoints[endpoint[key[s]]] = s
              /\ Live!InMap(s) => key[s] \in trees
          BY <1>4, <1>10, <3>8, <4>2 DEF LiveInv, LiveLeased
        <5>2. s # Nobody /\ key[s] \in Key /\ endpoint[key[s]] \in Endpoint
          BY <1>1 DEF LiveConfig
        <5>3. kept[key[s]] = s /\ free[endpoint[key[s]]] = s
          <6>1. kept[key[s]] = s
            BY <1>5, <3>8, <5>1, <5>2
          <6> QED
            BY <1>5, <5>1, <5>2, <6>1
        <5>4. key[s] # k /\ endpoint[key[s]] # endpoint[k]
          BY <2>2, <5>2, <5>3
        <5> QED
          BY <1>10, <3>1, <5>1, <5>2, <5>3, <5>4
      <4> QED
        BY <4>1, <4>2
    <3>9. LiveLeased'
      BY <1>0, <3>8 DEF LiveLeased
    <3> QED
      BY <3>7, <3>9
  <2> QED
    BY <1>2, <2>1, <2>2
<1>16. MapFits'
  BY <1>0, MapStays
<1> QED
  BY <1>0, <1>7, <1>8, <1>9, <1>11, <1>12, <1>14, <1>15, <1>16, LiveStepFits

\* No session is in the map where one is about to be made: it would have the lease.
LEMMA LeasedOnce ==
  ASSUME LiveInv, NEW o \in Observation, pc[o] = "create", home[o] \in living,
         NEW s \in Live!Session, s # o, Live!InMap(s), home[s] = home[o]
  PROVE  key[s] # key[o]
BY DEF LiveInv, LiveLeased, Live!Session

LEMMA CreateStep == ASSUME LiveConstants, LiveInv, NEW o \in Observation, Live!Create(o)
  PROVE LiveInv'
<1> USE ThreadKinds
<1>0. o \in Live!Thread /\ pc[o] = "create" /\ home[o] \in living
      /\ UNCHANGED <<home, key, endpoint, scope, living, leases, endpoints, starting, releasing,
                     releaseLock, lock, timer, target, waiting, reclaimed, leaked, faults>>
  BY DEF Live!Create, Live!At, Live!config, Live!shared
<1>1. /\ LiveTyped /\ LiveConfig /\ LiveShared /\ LiveManagers /\ LiveThreads /\ ThreadFits(o)
      /\ ObservationFits(o) /\ home[o] \in Runtime /\ key[o] \in Key
           /\ Live!RuntimeOf(o) = home[o]
      /\ KeyOf(o) = key[o] /\ o # Nobody
  BY <1>0, ThreadActing
<1>2. PICK p \in {"started", "undo"} :
        /\ Live!Goto(o, p)
        /\ p = "started" => /\ trees' = trees \cup {key[o]} /\ up' = up \cup {o}
                            /\ sessions' = [sessions EXCEPT ![home[o]][key[o]] = o]
                            /\ using' = [using EXCEPT ![o] = o]
        /\ p = "undo" => /\ trees' \in {trees, trees \ {key[o]}}
                         /\ key[o] \in trees => trees' = trees \/ o \in reclaimed
                         /\ up' = up /\ sessions' = sessions /\ using' = using
  BY DEF Live!Create
<1>3. p \in ObservationPlace
  BY LiveNames
<1>4. /\ pc' \in [Live!Thread -> ObservationPlace \cup ReleaserPlace] /\ LivePlaces'
           /\ LiveConfig'
      /\ pc'[o] = p /\ \A u \in Live!Thread \ {o} : pc'[u] = pc[u]
  BY <1>0, <1>1, <1>2, <1>3, ObservationGoes
<1>5. /\ lock[home[o]][key[o]] = o /\ o \in starting /\ ~Referred(o) /\ using[o] # o
      /\ o \notin up
  <2>1. ~Referred(o) /\ o \in starting
    BY <1>0, <1>1 DEF ObservationFits, Unmade
  <2>2. lock[home[o]][key[o]] = o
    BY <1>0, <1>1 DEF ThreadFits, LiveHeld
  <2> QED
    BY <2>1, <2>2 DEF Referred, LiveInv, MapFits
<1>6. /\ sessions' \in [Runtime -> [Key -> MaybeSession]]
      /\ \A r \in Runtime, q \in Key : r # home[o] \/ q # key[o] =>
           sessions'[r][q] = sessions[r][q]
      /\ sessions'[home[o]][key[o]] \in {sessions[home[o]][key[o]], o}
      /\ p = "started" => sessions'[home[o]][key[o]] = o
  <2>1. o \in MaybeSession
    BY DEF MaybeSession
  <2>2. CASE p = "started"
    <3>1. sessions' = [sessions EXCEPT ![home[o]][key[o]] = o]
      BY <1>2, <2>2
    <3> QED
      BY <1>1, <2>1, <3>1 DEF LiveManagers
  <2>3. CASE p = "undo"
    <3>1. sessions' = sessions
      BY <1>2, <2>3
    <3> QED
      BY <1>1, <2>3, <3>1 DEF LiveManagers
  <2> QED
    BY <1>2, <2>2, <2>3
<1>7. LiveTyped'
  <2>1. using' \in [Observation -> MaybeSession] /\ trees' \subseteq Key
          /\ up' \subseteq Live!Session
    <3>1. CASE p = "started"
      <4>1. using' = [using EXCEPT ![o] = o] /\ trees' = trees \cup {key[o]} /\ up' = up \cup {o}
        BY <1>2, <3>1
      <4> QED
        BY <1>1, <4>1 DEF LiveThreads, LiveShared, LiveManagers, MaybeSession
    <3>2. CASE p = "undo"
      <4>1. using' = using /\ trees' \subseteq trees /\ up' = up
        BY <1>2, <3>2
      <4> QED
        BY <1>1, <4>1 DEF LiveThreads, LiveShared, LiveManagers
    <3> QED
      BY <1>2, <3>1, <3>2
  <2>2. LiveShared'
    BY <1>0, <1>1, <2>1 DEF LiveShared
  <2> QED
    BY <1>0, <1>1, <1>4, <1>6, <2>1, <2>2 DEF LiveTyped, LiveManagers, LiveThreads
<1>8. ThreadMoves(o)
  <2>1. \A q \in Observation \ {o} : using'[q] = using[q]
    BY <1>1, <1>2 DEF LiveThreads
  <2> QED
    BY <1>0, <1>4, <2>1 DEF ThreadMoves
<1>9. ThreadMakes(o)
  <2>1. up' \subseteq up \cup {o}
    BY <1>2
  <2> QED
    BY <1>0, <1>1, <1>6, <2>1 DEF ThreadMakes
<1>10. ASSUME NEW s \in Live!Session
       PROVE  /\ s # o => (Live!InMap(s)' => Live!InMap(s))
              /\ Live!InMap(s) /\ (home[s] # home[o] \/ key[s] # key[o]) => Live!InMap(s)'
              /\ p = "undo" => (Live!InMap(s)' <=> Live!InMap(s))
  BY <1>0, <1>1, <1>2, <1>6 DEF Live!InMap, LiveConfig
<1>11. using'[o] \in {using[o], o} /\ (p = "started" => using'[o] = o)
  BY <1>1, <1>2 DEF LiveThreads
<1>12. /\ target[o] # Nobody => Referred(target[o])
       /\ using[o] # Nobody => Referred(using[o])
       /\ \A q \in timer : Referred(q)
  BY <1>0 DEF Referred
<1>13. ThreadFinds(o)
  BY <1>0, <1>4, <1>8, <1>10, <1>11, <1>12, ThreadFinding
<1>14. ThreadFits(o)'
  <2>1. Live!RuntimeOf(o)' = Live!RuntimeOf(o) /\ KeyOf(o)' = KeyOf(o) /\ target'[o] = target[o]
    BY <1>0 DEF Live!RuntimeOf, KeyOf
  <2> QED
    BY <1>0, <1>1, <1>2, <1>4, <1>5, <2>1 DEF ThreadFits, LiveReleases, LiveHeld
<1>15. ASSUME p = "undo" PROVE ~Referred(o)'
  <2>1. ~Live!InMap(o)'
    BY <1>5, <1>10, <1>15 DEF Referred
  <2>2. using' = using /\ \A x \in Releaser : pc'[x] = pc[x]
    BY <1>2, <1>4, <1>15
  <2> QED
    BY <1>0, <1>5, <2>1, <2>2 DEF Referred
<1>16. ObservationFits(o)'
  <2>1. CASE p = "started"
    BY <1>0, <1>1, <1>4, <1>5, <1>11, <2>1 DEF ObservationFits, Unmade
  <2>2. CASE p = "undo"
    <3>1. using'[o] = using[o]
      BY <1>2, <2>2
    <3> QED
      BY <1>0, <1>1, <1>4, <1>5, <1>15, <2>2, <3>1 DEF ObservationFits
  <2> QED
    BY <1>2, <2>1, <2>2
<1>17. MapFits'
  <2>1. ASSUME NEW r \in Runtime, NEW q \in Key, sessions'[r][q] # Nobody
        PROVE  home[sessions'[r][q]] = r /\ key[sessions'[r][q]] = q
    <3>1. CASE sessions'[r][q] = sessions[r][q]
      BY <2>1, <3>1 DEF LiveInv, MapFits
    <3>2. CASE sessions'[r][q] # sessions[r][q]
      BY <1>6, <3>2
    <3> QED
      BY <3>1, <3>2
  <2>2. ASSUME NEW s \in up' PROVE Live!InMap(s)'
    <3>1. CASE s = o
      <4>1. p = "started"
        BY <1>2, <1>5, <2>2, <3>1
      <4> QED
        BY <1>0, <1>6, <3>1, <4>1 DEF Live!InMap
    <3>2. CASE s # o
      <4>1. s \in up /\ s \in Live!Session
        BY <1>1, <1>2, <2>2, <3>2 DEF LiveManagers
      <4>2. Live!InMap(s)
        BY <4>1 DEF LiveInv, MapFits
      <4>3. CASE p = "undo"
        BY <1>10, <4>1, <4>2, <4>3
      <4>4. CASE p = "started" /\ home[s] = home[o] /\ key[s] = key[o]
        BY <1>0, <3>2, <4>1, <4>2, <4>4, LeasedOnce
      <4> QED
        BY <1>2, <1>10, <4>1, <4>2, <4>3, <4>4
    <3> QED
      BY <3>1, <3>2
  <2> QED
    BY <1>0, <2>1, <2>2 DEF MapFits
<1>18. LeasesFit' /\ LiveLeased'
  <2>1. leases[key[o]] = o /\ endpoints[endpoint[key[o]]] = o
    BY <1>0 DEF LiveInv, LiveLeased
  <2>2. ASSUME NEW s \in Live!Session, s # o, home[s] \in living, Live!InMap(s) \/ Live!InMap(s)'
        PROVE  Live!InMap(s) /\ Live!InMap(s)' /\ key[s] # key[o]
    <3>1. Live!InMap(s)
      BY <1>10, <2>2
    <3>2. leases[key[s]] = s
      BY <2>2, <3>1 DEF LiveInv, LiveLeased
    <3> QED
      BY <1>10, <2>1, <2>2, <3>1, <3>2
  <2>3. ASSUME NEW u \in Live!Thread, pc[u] \in {"lease", "restart lease"}
        PROVE  pc'[u] = pc[u] /\ target'[u] = target[u]
    BY <1>0, <1>4, <2>3
  <2>4. ASSUME NEW s \in Live!Session, home[s] \in living, HasItsSession(s)
        PROVE HasItsSession(s)'
    <3>1. CASE s = o
      <4>1. Live!InMap(o)' \/ p = "undo"
        BY <1>0, <1>2, <1>6 DEF Live!InMap
      <4> QED
        BY <1>4, <3>1, <4>1 DEF HasItsSession
    <3>2. CASE s # o
      <4>1. pc'[s] = pc[s]
        BY <1>4, <3>2
      <4>2. Live!InMap(s) => Live!InMap(s)'
        BY <2>2, <2>4, <3>2
      <4> QED
        BY <1>0, <2>3, <2>4, <4>1, <4>2 DEF HasItsSession
    <3> QED
      BY <3>1, <3>2
  <2>5. LeasesFit'
    BY <1>0, <2>4 DEF LiveInv, LeasesFit
  <2>6. ASSUME NEW s \in Live!Session, home[s] \in living, Live!InMap(s)' \/ pc'[s] = "create"
        PROVE  /\ leases[key[s]] = s /\ endpoints[endpoint[key[s]]] = s
               /\ Live!InMap(s)' => key[s] \in trees'
    <3>1. CASE s = o
      <4>1. ASSUME Live!InMap(o)' PROVE key[o] \in trees'
        <5>1. p = "started"
          BY <1>2, <1>5, <1>10, <4>1 DEF Referred
        <5> QED
          BY <1>2, <5>1
      <4> QED
        BY <2>1, <3>1, <4>1
    <3>2. CASE s # o
      <4>1. pc'[s] = pc[s]
        BY <1>4, <3>2
      <4>2. Live!InMap(s)' => Live!InMap(s) /\ key[s] # key[o]
        BY <2>2, <2>6, <3>2
      <4>3. /\ leases[key[s]] = s /\ endpoints[endpoint[key[s]]] = s
            /\ Live!InMap(s) => key[s] \in trees
        BY <2>6, <4>1, <4>2 DEF LiveInv, LiveLeased
      <4>4. trees \ {key[o]} \subseteq trees'
        BY <1>2
      <4> QED
        BY <4>2, <4>3, <4>4
    <3> QED
      BY <3>1, <3>2
  <2>7. LiveLeased'
    BY <1>0, <2>6 DEF LiveLeased
  <2> QED
    BY <2>5, <2>7
<1> QED
  BY <1>0, <1>7, <1>8, <1>9, <1>13, <1>14, <1>16, <1>17, <1>18, LiveStepFits

\* A session gives its leases back: what they are for goes for every other session.
LEMMA GivingBack ==
  ASSUME LiveTyped, NEW s \in Live!Session, Live!GivesBack(s)
  PROVE  leases' \in [Key -> MaybeSession] /\ endpoints' \in [Endpoint -> MaybeSession]
BY DEF Live!GivesBack, LiveTyped, LiveShared, MaybeSession

LEMMA LeasesGo ==
  ASSUME LiveConstants, LiveInv, NEW o \in Live!Session, Live!GivesBack(o),
         UNCHANGED <<home, key, endpoint, living, trees>>,
         \A s \in Live!Session \ {o} : HasItsSession(s) => HasItsSession(s)',
         \A s \in Live!Session : Live!InMap(s)' => Live!InMap(s) /\ s # o,
         \A s \in Live!Session : pc'[s] = "create" => pc[s] = "create" /\ s # o
  PROVE  LeasesFit' /\ LiveLeased'
<1> USE ThreadKinds
<1>1. /\ LiveConfig /\ LeasesFit /\ LiveLeased
      /\ leases \in [Key -> MaybeSession] /\ endpoints \in [Endpoint -> MaybeSession]
  BY DEF LiveInv, LiveTyped, LiveShared
<1>2. /\ \A k \in Key : leases'[k] = IF leases[k] = o THEN Nobody ELSE leases[k]
      /\ \A e \in Endpoint : endpoints'[e] = IF endpoints[e] = o THEN Nobody ELSE endpoints[e]
  BY DEF Live!GivesBack
<1>3. LeasesFit'
  <2>1. ASSUME NEW k \in Key, NEW s \in Live!Session, leases'[k] = s
        PROVE  key[s] = k /\ (home[s] \in living => HasItsSession(s)')
    BY <1>1, <1>2, <2>1 DEF LeasesFit
  <2>2. ASSUME NEW e \in Endpoint, NEW s \in Live!Session, endpoints'[e] = s
        PROVE  endpoint[key[s]] = e /\ leases'[key[s]] = s
    BY <1>1, <1>2, <2>2 DEF LeasesFit, LiveConfig
  <2> QED
    BY <2>1, <2>2 DEF LeasesFit
<1>4. LiveLeased'
  <2>1. ASSUME NEW s \in Live!Session, home[s] \in living, Live!InMap(s)' \/ pc'[s] = "create"
        PROVE  /\ leases'[key[s]] = s /\ endpoints'[endpoint[key[s]]] = s
               /\ Live!InMap(s)' => key[s] \in trees
    <3>1. s # o /\ leases[key[s]] = s /\ endpoints[endpoint[key[s]]] = s
          /\ (Live!InMap(s)' => key[s] \in trees)
      BY <1>1, <2>1 DEF LiveLeased
    <3> QED
      BY <1>1, <1>2, <3>1 DEF LiveConfig
  <2> QED
    BY <2>1 DEF LiveLeased
<1> QED
  BY <1>3, <1>4

LEMMA UndoStep == ASSUME LiveConstants, LiveInv, NEW o \in Observation, Live!Undo(o)
  PROVE LiveInv'
<1> USE ThreadKinds
<1>0. /\ o \in Live!Thread /\ pc[o] = "undo" /\ Live!Goto(o, "start fails")
      /\ UNCHANGED <<home, key, endpoint, scope, living, trees, sessions, starting, releasing,
                     releaseLock, lock, up, timer, target, using, waiting, reclaimed>>
  BY DEF Live!Undo, Live!At, Live!config, Live!manager
<1>1. /\ LiveTyped /\ LiveConfig /\ LiveShared /\ LiveManagers /\ LiveThreads /\ ThreadFits(o)
      /\ ObservationFits(o)
  BY <1>0, ThreadActing
<1>2. \/ Live!GivesBack(o) /\ leaked' = leaked
      \/ leaked' = leaked \cup {o} /\ UNCHANGED <<leases, endpoints>>
  BY DEF Live!Undo, Live!shared
<1>3. /\ pc' \in [Live!Thread -> ObservationPlace \cup ReleaserPlace] /\ LivePlaces'
           /\ LiveConfig'
      /\ pc'[o] = "start fails" /\ \A u \in Live!Thread \ {o} : pc'[u] = pc[u]
  BY <1>0, <1>1, LiveNames, ObservationGoes
<1>4. LiveTyped'
  <2>1. LiveShared'
    BY <1>0, <1>1, <1>2, GivingBack DEF LiveShared
  <2> QED
    BY <1>0, <1>1, <1>3, <2>1 DEF LiveTyped, LiveManagers, LiveThreads
<1>5. ThreadMoves(o)
  BY <1>0, <1>3 DEF ThreadMoves
<1>6. ThreadMakes(o)
  BY <1>0 DEF ThreadMakes
<1>7. \A s \in Live!Session : Live!InMap(s)' <=> Live!InMap(s)
  BY <1>0, MapStays
<1>8. ThreadFinds(o)
  BY <1>0, <1>3, <1>5, <1>7, ThreadFinding DEF Referred
<1>9. ThreadFits(o)'
  <2>1. Live!RuntimeOf(o)' = Live!RuntimeOf(o) /\ KeyOf(o)' = KeyOf(o) /\ target'[o] = target[o]
    BY <1>0 DEF Live!RuntimeOf, KeyOf
  <2> QED
    BY <1>0, <1>1, <1>3, <2>1 DEF ThreadFits, LiveReleases, LiveHeld
<1>10. Unmade(o) /\ ~Referred(o)'
  <2>1. Unmade(o)
    BY <1>0 DEF Unmade
  <2> QED
    BY <1>0, <1>8, <2>1, StillUnmade
<1>11. ObservationFits(o)'
  BY <1>0, <1>1, <1>3, <1>10 DEF ObservationFits
<1>12. ASSUME NEW s \in Live!Session, s # o PROVE HasItsSession(s) => HasItsSession(s)'
  <2>1. ASSUME NEW u \in Live!Thread, pc[u] \in {"lease", "restart lease"} PROVE pc'[u] = pc[u]
    BY <1>0, <1>3, <2>1
  <2>2. pc'[s] = pc[s] /\ leaked \subseteq leaked'
    BY <1>2, <1>3, <1>12
  <2> QED
    BY <1>0, <1>7, <2>1, <2>2 DEF HasItsSession
<1>13. LeasesFit' /\ LiveLeased'
  <2>1. \A s \in Live!Session \ {o} : pc'[s] = "create" => pc[s] = "create"
    BY <1>3
  <2>2. ~Live!InMap(o) /\ pc'[o] # "create" /\ pc[o] # "create"
    BY <1>0, <1>1, <1>3 DEF ObservationFits, Unmade, Referred
  <2>3. CASE Live!GivesBack(o)
    BY <1>0, <1>7, <1>12, <2>1, <2>2, <2>3, LeasesGo DEF ThreadMoves
  <2>4. CASE leaked' = leaked \cup {o} /\ UNCHANGED <<leases, endpoints>>
    <3>1. HasItsSession(o)'
      BY <2>4 DEF HasItsSession
    <3>2. LeasesFit'
      BY <1>0, <1>12, <2>4, <3>1 DEF LiveInv, LeasesFit
    <3>3. \A s \in Live!Session : Live!InMap(s)' \/ pc'[s] = "create" =>
            Live!InMap(s) \/ pc[s] = "create"
      BY <1>7, <2>1, <2>2
    <3>4. LiveLeased'
      BY <1>0, <1>7, <2>4, <3>3 DEF LiveInv, LiveLeased
    <3> QED
      BY <3>2, <3>4
  <2> QED
    BY <1>2, <2>3, <2>4
<1>14. MapFits'
  BY <1>0, MapStays
<1> QED
  BY <1>0, <1>4, <1>5, <1>6, <1>8, <1>9, <1>11, <1>13, <1>14, LiveStepFits

LEMMA FinishStartStep ==
  ASSUME LiveConstants, LiveInv, NEW o \in Observation, Live!FinishStart(o)
  PROVE  LiveInv'
<1> USE ThreadKinds
<1>0. /\ o \in Live!Thread /\ pc[o] \in {"started", "start fails"} /\ starting' = starting \ {o}
      /\ UNCHANGED <<home, key, endpoint, scope, living, leases, endpoints, trees, sessions,
                     releasing, releaseLock, up, timer, target, using, waiting, reclaimed, leaked,
                     faults>>
  BY DEF Live!FinishStart, Live!At, Live!config, Live!shared
<1>1. /\ LiveTyped /\ LiveShared /\ LiveManagers /\ LiveThreads /\ ThreadFits(o)
      /\ ObservationFits(o) /\ home[o] \in Runtime /\ key[o] \in Key
           /\ Live!RuntimeOf(o) \in Runtime
  BY <1>0, ThreadActing
<1>2. PICK p \in {"done", "ready"} :
        /\ Live!Goto(o, p)
        /\ p = "done" => Live!FreeLock(o)
        /\ p = "ready" => lock' = lock /\ pc[o] = "started"
  BY <1>0 DEF Live!FinishStart
<1>3. p \in ObservationPlace
  BY LiveNames
<1>4. /\ pc' \in [Live!Thread -> ObservationPlace \cup ReleaserPlace] /\ LivePlaces'
           /\ LiveConfig'
      /\ pc'[o] = p /\ \A u \in Live!Thread \ {o} : pc'[u] = pc[u]
  BY <1>0, <1>1, <1>2, <1>3, ObservationGoes
<1>5. /\ lock' \in [Runtime -> [Key -> Live!Thread \cup {Nobody}]]
      /\ \A r \in Runtime, q \in Key :
           lock[r][q] # Nobody /\ lock[r][q] # o => lock'[r][q] = lock[r][q]
  BY <1>0, <1>1, <1>2, LockFreeing DEF LiveManagers
<1>6. LiveTyped'
  BY <1>0, <1>1, <1>4, <1>5 DEF LiveTyped, LiveShared, LiveManagers, LiveThreads
<1>7. ThreadMoves(o)
  BY <1>0, <1>4, <1>5 DEF ThreadMoves
<1>8. ThreadMakes(o)
  BY <1>0 DEF ThreadMakes
<1>9. \A s \in Live!Session : Live!InMap(s)' <=> Live!InMap(s)
  BY <1>0, MapStays
<1>10. ThreadFinds(o)
  BY <1>0, <1>4, <1>7, <1>9, ThreadFinding DEF Referred
<1>11. ThreadFits(o)'
  <2>1. Live!RuntimeOf(o)' = Live!RuntimeOf(o) /\ KeyOf(o)' = KeyOf(o) /\ target'[o] = target[o]
    BY <1>0 DEF Live!RuntimeOf, KeyOf
  <2>2. p = "ready" => lock'[Live!RuntimeOf(o)][KeyOf(o)] = o
    BY <1>0, <1>1, <1>2 DEF ThreadFits, LiveHeld
  <2> QED
    BY <1>0, <1>1, <1>2, <1>4, <2>1, <2>2 DEF ThreadFits, LiveReleases, LiveHeld
<1>12. ObservationFits(o)'
  <2>1. p = "ready" => using[o] = o /\ o # Nobody
    BY <1>1, <1>2 DEF ObservationFits
  <2>2. ~Unmade(o)'
    BY <1>0, <1>4, <2>1 DEF Unmade
  <2> QED
    BY <1>0, <1>1, <1>2, <1>4, <2>1, <2>2 DEF ObservationFits
<1>13. MapFits' /\ LeasesFit' /\ LiveLeased'
  BY <1>0, <1>2, <1>4, <1>7, MapStays, LeasesStay
<1> QED
  BY <1>0, <1>6, <1>7, <1>8, <1>10, <1>11, <1>12, <1>13, LiveStepFits

LEMMA ReadyStep == ASSUME LiveConstants, LiveInv, NEW o \in Observation, Live!Ready(o)
  PROVE LiveInv'
<1> USE ThreadKinds
<1>0. /\ o \in Live!Thread /\ pc[o] = "ready"
      /\ UNCHANGED <<home, key, endpoint, scope, living, leases, endpoints, trees, sessions,
                     starting, releasing, releaseLock, up, timer, waiting, reclaimed, leaked,
                     faults>>
  BY DEF Live!Ready, Live!At, Live!config, Live!shared
<1>1. /\ LiveTyped /\ LiveShared /\ LiveManagers /\ LiveThreads /\ ThreadFits(o)
      /\ ObservationFits(o) /\ home[o] \in Runtime /\ key[o] \in Key
           /\ Live!RuntimeOf(o) = home[o]
      /\ KeyOf(o) = key[o]
  BY <1>0, ThreadActing
<1>2. PICK p \in {"using", "release", "restart"} :
        /\ Live!Goto(o, p)
        /\ p = "using" => Live!FreeLock(o) /\ target' = target /\ using' = using
        /\ p \in {"release", "restart"} =>
             lock' = lock /\ target' = [target EXCEPT ![o] = using[o]]
             /\ using' = [using EXCEPT ![o] = Nobody]
        /\ p = "restart" => using[o] # o
  BY DEF Live!Ready
<1>3. p \in ObservationPlace
  BY LiveNames
<1>4. /\ pc' \in [Live!Thread -> ObservationPlace \cup ReleaserPlace] /\ LivePlaces'
           /\ LiveConfig'
      /\ pc'[o] = p /\ \A u \in Live!Thread \ {o} : pc'[u] = pc[u]
  BY <1>0, <1>1, <1>2, <1>3, ObservationGoes
<1>5. /\ lock' \in [Runtime -> [Key -> Live!Thread \cup {Nobody}]]
      /\ \A r \in Runtime, q \in Key :
           lock[r][q] # Nobody /\ lock[r][q] # o => lock'[r][q] = lock[r][q]
  <2>1. CASE p = "using"
    BY <1>1, <1>2, <2>1, LockFreeing
  <2>2. CASE p # "using"
    BY <1>1, <1>2, <2>2 DEF LiveManagers
  <2> QED
    BY <2>1, <2>2
<1>6. using[o] \in Live!Session /\ home[using[o]] = home[o] /\ key[using[o]] = key[o]
      /\ using[o] # Nobody
  BY <1>0, <1>1 DEF ObservationFits, LiveThreads, MaybeSession
<1>7. /\ p = "using" => target'[o] = target[o] /\ using'[o] = using[o]
      /\ p # "using" => target'[o] = using[o] /\ using'[o] = Nobody
      /\ target' \in [Live!Thread -> MaybeSession] /\ using' \in [Observation -> MaybeSession]
      /\ \A u \in Live!Thread \ {o} : target'[u] = target[u]
      /\ \A u \in Observation \ {o} : using'[u] = using[u]
  <2>1. CASE p = "using"
    BY <1>1, <1>2, <2>1 DEF LiveThreads
  <2>2. CASE p # "using"
    <3>1. /\ target' = [target EXCEPT ![o] = using[o]] /\ using' = [using EXCEPT ![o] = Nobody]
      BY <1>2, <2>2
    <3> QED
      BY <1>0, <1>1, <2>2, <3>1 DEF LiveThreads, MaybeSession
  <2> QED
    BY <2>1, <2>2
<1>8. LiveTyped'
  BY <1>0, <1>1, <1>4, <1>5, <1>7 DEF LiveTyped, LiveShared, LiveManagers, LiveThreads
<1>9. ThreadMoves(o)
  BY <1>0, <1>4, <1>5, <1>7 DEF ThreadMoves
<1>10. ThreadMakes(o)
  BY <1>0 DEF ThreadMakes
<1>11. \A s \in Live!Session : Live!InMap(s)' <=> Live!InMap(s)
  BY <1>0, MapStays
<1>12. /\ target[o] # Nobody => Referred(target[o])
       /\ Referred(using[o]) /\ \A q \in timer : Referred(q)
  BY <1>0 DEF Referred
<1>13. ThreadFinds(o)
  BY <1>0, <1>4, <1>7, <1>9, <1>11, <1>12, ThreadFinding
<1>14. ThreadFits(o)'
  <2>1. Live!RuntimeOf(o)' = home[o] /\ KeyOf(o)' = key[o]
    BY <1>0 DEF Live!RuntimeOf, KeyOf
  <2>2. p # "using" => lock'[home[o]][key[o]] = o
    BY <1>0, <1>1, <1>2 DEF ThreadFits, LiveHeld
  <2> QED
    BY <1>0, <1>1, <1>2, <1>4, <1>6, <1>7, <2>1, <2>2 DEF ThreadFits, LiveReleases, LiveHeld
<1>15. ObservationFits(o)'
  <2>1. CASE p = "restart"
    <3>1. Unmade(o)
      BY <1>0, <1>2, <2>1 DEF Unmade
    <3>2. ~Referred(o)'
      BY <1>0, <1>13, <3>1, StillUnmade
    <3> QED
      BY <1>4, <1>7, <2>1, <3>2 DEF ObservationFits
  <2>2. CASE p # "restart"
    <3>1. ~Unmade(o)'
      BY <1>2, <1>4, <2>2 DEF Unmade
    <3> QED
      BY <1>0, <1>1, <1>2, <1>4, <1>6, <1>7, <2>2, <3>1 DEF ObservationFits
  <2> QED
    BY <2>1, <2>2
<1>16. MapFits' /\ LeasesFit' /\ LiveLeased'
  BY <1>0, <1>2, <1>4, <1>9, MapStays, LeasesStay
<1> QED
  BY <1>0, <1>8, <1>9, <1>10, <1>13, <1>14, <1>15, <1>16, LiveStepFits

LEMMA FinishStep == ASSUME LiveConstants, LiveInv, NEW o \in Observation, Live!Finish(o)
  PROVE LiveInv'
<1> USE ThreadKinds
<1>0. /\ o \in Live!Thread /\ pc[o] = "using"
      /\ UNCHANGED <<home, key, endpoint, scope, living, leases, endpoints, trees, sessions,
                     starting, releasing, releaseLock, lock, up, using, waiting, reclaimed,
                       leaked,
                     faults>>
  BY DEF Live!Finish, Live!At, Live!config, Live!shared, Live!manager
<1>1. /\ LiveTyped /\ LiveShared /\ LiveManagers /\ LiveThreads /\ ThreadFits(o)
      /\ ObservationFits(o) /\ Live!RuntimeOf(o) = home[o] /\ KeyOf(o) = key[o]
  BY <1>0, ThreadActing
<1>2. PICK p \in {"done", "want"} :
        /\ Live!Goto(o, p)
        /\ p = "done" => target' = target /\ timer' \subseteq timer \cup {using[o]}
        /\ p = "want" => timer' = timer /\ target' = [target EXCEPT ![o] = using[o]]
  BY DEF Live!Finish
<1>3. p \in ObservationPlace
  BY LiveNames
<1>4. /\ pc' \in [Live!Thread -> ObservationPlace \cup ReleaserPlace] /\ LivePlaces'
           /\ LiveConfig'
      /\ pc'[o] = p /\ \A u \in Live!Thread \ {o} : pc'[u] = pc[u]
  BY <1>0, <1>1, <1>2, <1>3, ObservationGoes
<1>5. using[o] \in Live!Session /\ home[using[o]] = home[o] /\ key[using[o]] = key[o]
      /\ using[o] # Nobody
  BY <1>0, <1>1 DEF ObservationFits, LiveThreads, MaybeSession
<1>6. /\ p = "done" => target'[o] = target[o]
      /\ p = "want" => target'[o] = using[o]
      /\ target' \in [Live!Thread -> MaybeSession]
           /\ \A u \in Live!Thread \ {o} : target'[u] = target[u]
  <2>1. CASE p = "done"
    BY <1>1, <1>2, <2>1 DEF LiveThreads
  <2>2. CASE p = "want"
    BY <1>0, <1>1, <1>2, <1>5, <2>2 DEF LiveThreads, MaybeSession
  <2> QED
    BY <2>1, <2>2
<1>7. timer' \subseteq timer \cup {using[o]}
  BY <1>2
<1>8. LiveTyped'
  <2>1. timer' \subseteq Live!Session
    BY <1>1, <1>5, <1>7 DEF LiveManagers
  <2> QED
    BY <1>0, <1>1, <1>4, <1>6, <2>1 DEF LiveTyped, LiveShared, LiveManagers, LiveThreads
<1>9. ThreadMoves(o)
  BY <1>0, <1>4, <1>6 DEF ThreadMoves
<1>10. ThreadMakes(o)
  BY <1>0 DEF ThreadMakes
<1>11. \A s \in Live!Session : Live!InMap(s)' <=> Live!InMap(s)
  BY <1>0, MapStays
<1>12. /\ target[o] # Nobody => Referred(target[o])
       /\ Referred(using[o]) /\ \A q \in timer : Referred(q)
  BY <1>0 DEF Referred
<1>13. ThreadFinds(o)
  BY <1>0, <1>2, <1>4, <1>6, <1>7, <1>9, <1>11, <1>12, ThreadFinding
<1>14. ThreadFits(o)'
  <2>1. Live!RuntimeOf(o)' = home[o] /\ KeyOf(o)' = key[o]
    BY <1>0 DEF Live!RuntimeOf, KeyOf
  <2> QED
    BY <1>0, <1>1, <1>2, <1>4, <1>5, <1>6, <2>1 DEF ThreadFits, LiveReleases, LiveHeld
<1>15. ObservationFits(o)'
  BY <1>0, <1>1, <1>2, <1>4 DEF ObservationFits, Unmade
<1>16. MapFits' /\ LeasesFit' /\ LiveLeased'
  BY <1>0, <1>2, <1>4, <1>9, MapStays, LeasesStay
<1> QED
  BY <1>0, <1>8, <1>9, <1>10, <1>13, <1>14, <1>15, <1>16, LiveStepFits

-----------------------------------------------------------------------------
(* Releasing a session *)

\* Who is where: only observations start a session again.
LEMMA ReleasingPlaces ==
  ASSUME LiveConstants, LiveInv, NEW t \in Live!Thread
  PROVE  /\ pc[t] \in {"restart", "restart remove", "restart lease"} => t \in Observation
         /\ t \in Observation => pc[t] \in ObservationPlace
         /\ t \in Releaser => pc[t] \in ReleaserPlace
         /\ \A s \in Live!Session : t = Live!Timer(s) => pc[t] \in TimerPlace
<1>1. LivePlaces
  BY DEF LiveInv, LiveTyped
<1>2. /\ t \in Observation => pc[t] \in ObservationPlace
      /\ t \in Releaser => pc[t] \in ReleaserPlace
      /\ \A s \in Live!Session : t = Live!Timer(s) => pc[t] \in TimerPlace
  BY <1>1 DEF LivePlaces
<1>3. \A p \in {"restart", "restart remove", "restart lease"} :
        p \notin ReleaserPlace /\ p \notin TimerPlace
  BY DEF ReleaserPlace, TimerPlace
<1> QED
  BY <1>2, <1>3, ThreadKinds

\* An observation that releases a session does not make one, or will.
LEMMA ReleasingFits ==
  ASSUME LiveConstants, LiveInv, NEW o \in Observation, ThreadFinds(o), UNCHANGED <<home, key>>,
         using'[o] = using[o], pc'[o] \in LiveReleases \cup {"begin", "done"},
         Unmade(o)' => pc[o] \in {"restart", "restart remove", "restart lease"}
  PROVE  ObservationFits(o)'
<1>1. ObservationFits(o)
  BY DEF LiveInv
<1>2. Unmade(o)' => Unmade(o) /\ pc[o] # "create"
  BY DEF Unmade
<1>3. Unmade(o)' => ~Referred(o)'
  BY <1>2, StillUnmade
<1>4. pc'[o] \notin {"reserve", "create", "undo", "started", "start fails", "ready", "using"}
  BY DEF LiveReleases
<1> QED
  BY <1>1, <1>3, <1>4 DEF ObservationFits

\* The thread that has released a session has nothing to release any more.
LEMMA ThreadEnding ==
  ASSUME LiveConstants, LiveInv, NEW t \in Live!Thread, UNCHANGED <<home, key>>,
           target'[t] = Nobody,
         pc'[t] \in {"begin", "done", "targets", "abort", "idle"},
         pc'[t] = "begin" => t \in Observation /\ lock' = lock /\ pc[t] \in LiveHeld
  PROVE  ThreadFits(t)'
<1>1. Live!RuntimeOf(t)' = Live!RuntimeOf(t) /\ (t \in Observation => KeyOf(t)' = KeyOf(t))
  BY DEF Live!RuntimeOf, KeyOf
<1>2. pc'[t] = "begin" => lock'[Live!RuntimeOf(t)][KeyOf(t)] = t
  BY ThreadTypes
<1> QED
  BY <1>1, <1>2 DEF ThreadFits, LiveReleases, LiveHeld

LEMMA ThreadContinuing ==
  ASSUME LiveConstants, LiveInv, NEW t \in Live!Thread, Live!Continue(t, pc[t])
  PROVE  \E p \in {"begin", "done", "targets", "idle"} :
           /\ Live!Goto(t, p)
           /\ p = "begin" => lock' = lock /\ pc[t] \in {"restart", "restart lease"}
           /\ p # "begin" => Live!FreeLock(t)
           /\ t \in Observation => p \in {"begin", "done"}
           /\ t \in Releaser => p = "targets"
           /\ \A s \in Live!Session : t = Live!Timer(s) => p = "idle"
<1>1. pc[t] \in {"restart", "restart lease"} => t \in Observation
  BY ReleasingPlaces
<1> QED
  BY <1>1, ThreadKinds DEF Live!Continue

LEMMA MapPlaces ==
  ASSUME LiveInv, NEW r \in Runtime, NEW k \in Key, sessions[r][k] # Nobody
  PROVE  home[sessions[r][k]] = r /\ key[sessions[r][k]] = k
BY DEF LiveInv, MapFits

LEMMA FireStep == ASSUME LiveConstants, LiveInv, NEW s \in Live!Session, Live!Fire(s)
  PROVE LiveInv'
<1> DEFINE t == Live!Timer(s)
<1> USE ThreadKinds
<1>0. /\ t \in Live!Thread /\ t \notin Observation /\ t \notin Releaser /\ pc[t] = "idle"
      /\ s \in timer /\ timer' = timer \ {s} /\ target' = [target EXCEPT ![t] = s]
      /\ Live!Goto(t, "want")
      /\ UNCHANGED <<home, key, endpoint, scope, living, leases, endpoints, trees, sessions,
                     starting, releasing, releaseLock, lock, up, using, waiting, reclaimed,
                       leaked,
                     faults>>
  BY DEF Live!Fire, Live!At, Live!config, Live!shared, Live!manager
<1> HIDE DEF t
<1>1. /\ LiveTyped /\ LiveShared /\ LiveManagers /\ LiveThreads /\ ThreadFits(t)
      /\ Live!RuntimeOf(t) = home[s]
  <2>1. Live!RuntimeOf(t) = home[s]
    BY DEF t
  <2> QED
    BY <1>0, <2>1, ThreadActing
<1>2. /\ pc' \in [Live!Thread -> ObservationPlace \cup ReleaserPlace] /\ LivePlaces'
           /\ LiveConfig'
      /\ pc'[t] = "want" /\ \A u \in Live!Thread \ {t} : pc'[u] = pc[u]
  <2>1. \A q \in Live!Session : t = Live!Timer(q) => "want" \in TimerPlace
    BY LiveNames
  <2> QED
    BY <1>0, <1>1, <2>1, ThreadGoes
<1>3. target' \in [Live!Thread -> MaybeSession] /\ target'[t] = s
      /\ \A u \in Live!Thread \ {t} : target'[u] = target[u]
  BY <1>0, <1>1 DEF LiveThreads, MaybeSession
<1>4. LiveTyped'
  BY <1>0, <1>1, <1>2, <1>3 DEF LiveTyped, LiveShared, LiveManagers, LiveThreads
<1>5. ThreadMoves(t)
  BY <1>0, <1>2, <1>3 DEF ThreadMoves
<1>6. ThreadMakes(t)
  BY <1>0 DEF ThreadMakes
<1>7. \A q \in Live!Session : Live!InMap(q)' <=> Live!InMap(q)
  BY <1>0, MapStays
<1>8. \A q \in timer : Referred(q)
  BY DEF Referred
<1>9. ThreadFinds(t)
  BY <1>0, <1>2, <1>3, <1>5, <1>7, <1>8, ThreadFinding
<1>10. ThreadFits(t)'
  <2>1. Live!RuntimeOf(t)' = home[s]
    BY <1>0, <1>1 DEF Live!RuntimeOf
  <2> QED
    BY <1>0, <1>2, <1>3, <2>1 DEF ThreadFits, LiveHeld
<1>11. MapFits' /\ LeasesFit' /\ LiveLeased'
  BY <1>0, <1>2, <1>5, MapStays, LeasesStay
<1> QED
  BY <1>0, <1>4, <1>5, <1>6, <1>9, <1>10, <1>11, LiveStepFits

LEMMA WantStep == ASSUME LiveConstants, LiveInv, NEW t \in Live!Thread, Live!Want(t)
  PROVE LiveInv'
<1> USE ThreadKinds
<1>0. /\ pc[t] = "want" /\ Live!TakeLock(t, key[target[t]]) /\ Live!Goto(t, "release")
      /\ UNCHANGED <<home, key, endpoint, scope, living, leases, endpoints, trees, sessions,
                     starting, releasing, releaseLock, up, timer, target, using, waiting,
                     reclaimed, leaked, faults>>
  BY DEF Live!Want, Live!At, Live!config, Live!shared
<1>1. /\ LiveTyped /\ LiveShared /\ LiveManagers /\ LiveThreads /\ ThreadFits(t)
      /\ Live!RuntimeOf(t) \in Runtime /\ (t \in Releaser => ReleaserFits(t))
  BY ThreadActing
<1>2. target[t] \in Live!Session /\ key[target[t]] = KeyOf(t) /\ KeyOf(t) \in Key
  <2>1. target[t] \in Live!Session /\ key[target[t]] = KeyOf(t)
    BY <1>0, ThreadTypes DEF LiveReleases
  <2> QED
    BY <1>1, <2>1 DEF LiveTyped, LiveConfig
<1>3. /\ pc' \in [Live!Thread -> ObservationPlace \cup ReleaserPlace] /\ LivePlaces'
           /\ LiveConfig'
      /\ pc'[t] = "release" /\ \A u \in Live!Thread \ {t} : pc'[u] = pc[u]
  BY <1>0, <1>1, LiveNames, ThreadGoes
<1>4. /\ lock' \in [Runtime -> [Key -> Live!Thread \cup {Nobody}]]
      /\ lock'[Live!RuntimeOf(t)][KeyOf(t)] = t
      /\ \A r \in Runtime, q \in Key :
           lock[r][q] # Nobody /\ lock[r][q] # t => lock'[r][q] = lock[r][q]
  <2>1. Live!TakeLock(t, KeyOf(t))
    BY <1>0, <1>2
  <2> QED
    BY <1>1, <1>2, <2>1, LockTaking
<1>5. LiveTyped'
  BY <1>0, <1>1, <1>3, <1>4 DEF LiveTyped, LiveShared, LiveManagers, LiveThreads
<1>6. ThreadMoves(t)
  BY <1>0, <1>3, <1>4 DEF ThreadMoves
<1>7. ThreadMakes(t)
  BY <1>0 DEF ThreadMakes
<1>8. \A q \in Live!Session : Live!InMap(q)' <=> Live!InMap(q)
  BY <1>0, MapStays
<1>9. ThreadFinds(t)
  BY <1>0, <1>3, <1>6, <1>8, ThreadFinding DEF Referred
<1>10. ThreadFits(t)'
  <2>1. Live!RuntimeOf(t)' = Live!RuntimeOf(t) /\ KeyOf(t)' = KeyOf(t)
    BY <1>0 DEF Live!RuntimeOf, KeyOf
  <2> QED
    BY <1>0, <1>1, <1>2, <1>3, <1>4, <2>1 DEF ThreadFits
<1>11. t \in Observation => ObservationFits(t)'
  BY <1>0, <1>3, <1>9, ReleasingFits DEF LiveReleases, Unmade
<1>12. t \in Releaser => ReleaserFits(t)'
  BY <1>0, <1>1, <1>3 DEF ReleaserFits
<1>13. MapFits' /\ LeasesFit' /\ LiveLeased'
  BY <1>0, <1>3, <1>6, MapStays, LeasesStay
<1> QED
  BY <1>0, <1>5, <1>6, <1>7, <1>9, <1>10, <1>11, <1>12, <1>13, LiveStepFits

LEMMA StopStep == ASSUME LiveConstants, LiveInv, NEW t \in Live!Thread, Live!Stop(t)
  PROVE LiveInv'
<1> DEFINE s == target[t]
<1> USE ThreadKinds
<1>0. /\ pc[t] \in {"release", "restart"}
      /\ UNCHANGED <<home, key, endpoint, scope, living, leases, endpoints, trees, sessions,
                     starting, releasing, releaseLock, using, waiting, reclaimed, leaked, faults>>
  BY DEF Live!Stop, Live!At, Live!config, Live!shared
<1>1. /\ LiveTyped /\ LiveShared /\ LiveManagers /\ LiveThreads /\ ThreadFits(t)
      /\ Live!RuntimeOf(t) \in Runtime
           /\ (t \in Releaser => ReleaserFits(t) /\ home[t] \in Runtime)
      /\ LiveConfig
  BY ThreadActing
<1>2. /\ s \in Live!Session /\ key[s] = KeyOf(t) /\ home[s] = Live!RuntimeOf(t)
      /\ lock[Live!RuntimeOf(t)][KeyOf(t)] = t /\ s # Nobody
  BY <1>0, ThreadTypes DEF LiveReleases, LiveHeld
<1>3. PICK p \in {"remove", "restart remove", "begin", "done", "targets", "idle"} :
        /\ Live!Goto(t, p)
        /\ p \in {"remove", "restart remove"} => Live!InMap(s) /\ s \notin up' /\ target' = target
                                                 /\ lock' = lock
        /\ p = "restart remove" => pc[t] = "restart"
        /\ p \notin {"remove", "restart remove"} => ~Live!InMap(s)
                                                    /\ target' = [target EXCEPT ![t] = Nobody]
        /\ p = "begin" => lock' = lock /\ pc[t] = "restart"
        /\ p \notin {"remove", "restart remove", "begin"} => Live!FreeLock(t)
        /\ t \in Observation => p \in {"remove", "restart remove", "begin", "done"}
        /\ t \in Releaser => p \in {"remove", "targets"}
        /\ \A q \in Live!Session : t = Live!Timer(q) => p \in {"remove", "idle"}
  <2>1. CASE Live!InMap(s)
    <3>1. /\ up' = up \ {s} /\ lock' = lock /\ target' = target
          /\ Live!Goto(t, IF pc[t] = "restart" THEN "restart remove" ELSE "remove")
      BY <2>1 DEF Live!Stop
    <3>2. pc[t] = "restart" => t \in Observation
      BY ReleasingPlaces
    <3> QED
      BY <2>1, <3>1, <3>2
  <2>2. CASE ~Live!InMap(s)
    <3>1. Live!Continue(t, pc[t])
      BY <2>2 DEF Live!Stop
    <3>2. target' = [target EXCEPT ![t] = Nobody]
      BY <3>1 DEF Live!Continue
    <3> QED
      <4>1. PICK q \in {"begin", "done", "targets", "idle"} :
              /\ Live!Goto(t, q)
              /\ q = "begin" => lock' = lock /\ pc[t] \in {"restart", "restart lease"}
              /\ q # "begin" => Live!FreeLock(t)
              /\ t \in Observation => q \in {"begin", "done"}
              /\ t \in Releaser => q = "targets"
              /\ \A u \in Live!Session : t = Live!Timer(u) => q = "idle"
        BY <3>1, ThreadContinuing
      <4> QED
        BY <1>0, <2>2, <3>2, <4>1
  <2> QED
    BY <2>1, <2>2
<1>4. up' \subseteq up /\ timer' \subseteq timer
  BY DEF Live!Stop
<1>5. /\ pc' \in [Live!Thread -> ObservationPlace \cup ReleaserPlace] /\ LivePlaces'
           /\ LiveConfig'
      /\ pc'[t] = p /\ \A u \in Live!Thread \ {t} : pc'[u] = pc[u]
  <2>1. /\ t \in Observation => p \in ObservationPlace
        /\ t \in Releaser => p \in ReleaserPlace
        /\ \A q \in Live!Session : t = Live!Timer(q) => p \in TimerPlace
    BY <1>3, LiveNames
  <2> QED
    BY <1>0, <1>1, <1>3, <2>1, ThreadGoes
<1>6. /\ lock' \in [Runtime -> [Key -> Live!Thread \cup {Nobody}]]
      /\ \A r \in Runtime, q \in Key :
           lock[r][q] # Nobody /\ lock[r][q] # t => lock'[r][q] = lock[r][q]
  <2>1. CASE lock' = lock
    BY <1>1, <2>1 DEF LiveManagers
  <2>2. CASE Live!FreeLock(t)
    BY <1>1, <2>2, LockFreeing
  <2> QED
    BY <1>3, <2>1, <2>2
<1>7. /\ target' \in [Live!Thread -> MaybeSession]
           /\ \A u \in Live!Thread \ {t} : target'[u] = target[u]
      /\ p \in {"remove", "restart remove"} => target'[t] = s
      /\ p \notin {"remove", "restart remove"} => target'[t] = Nobody
  <2>1. CASE target' = target /\ p \in {"remove", "restart remove"}
    BY <1>1, <2>1 DEF LiveThreads
  <2>2. CASE target' = [target EXCEPT ![t] = Nobody] /\ p \notin {"remove", "restart remove"}
    BY <1>1, <2>2 DEF LiveThreads, MaybeSession
  <2> QED
    BY <1>3, <2>1, <2>2
<1>8. LiveTyped'
  BY <1>0, <1>1, <1>4, <1>5, <1>6, <1>7 DEF LiveTyped, LiveShared, LiveManagers, LiveThreads
<1>9. ThreadMoves(t)
  BY <1>0, <1>5, <1>6, <1>7 DEF ThreadMoves
<1>10. ThreadMakes(t)
  BY <1>0, <1>4 DEF ThreadMakes
<1>11. MapFits' /\ \A q \in Live!Session : Live!InMap(q)' <=> Live!InMap(q)
  BY <1>0, <1>4, MapStays
<1>12. Referred(s) /\ \A q \in timer : Referred(q)
  BY DEF Referred
<1>13. ThreadFinds(t)
  <2>1. t \in Observation => using'[t] = Nobody \/ Referred(using'[t])
    BY <1>0 DEF Referred
  <2>2. t \in Releaser => pc[t] # "settle" /\ \A q \in waiting'[t] : Referred(q)
    BY <1>0 DEF Referred
  <2> QED
    BY <1>4, <1>5, <1>7, <1>9, <1>11, <1>12, <2>1, <2>2, ThreadFinding
<1>14. ThreadFits(t)'
  <2>1. CASE p \in {"remove", "restart remove"}
    <3>1. Live!RuntimeOf(t)' = Live!RuntimeOf(t) /\ KeyOf(t)' = KeyOf(t) /\ target'[t] = s
      BY <1>0, <1>7, <2>1 DEF Live!RuntimeOf, KeyOf
    <3>2. Live!InMap(s)' /\ s \notin up' /\ lock' = lock
      BY <1>2, <1>3, <1>11, <2>1
    <3> QED
      BY <1>0, <1>1, <1>2, <1>5, <2>1, <3>1, <3>2 DEF ThreadFits
  <2>2. CASE p \notin {"remove", "restart remove"}
    <3>1. pc[t] \in LiveHeld
      BY <1>0 DEF LiveHeld
    <3> QED
      BY <1>0, <1>3, <1>5, <1>7, <2>2, <3>1, ThreadEnding, ReleasingPlaces
  <2> QED
    BY <2>1, <2>2
<1>15. t \in Observation => ObservationFits(t)'
  <2>1. p \in LiveReleases \cup {"begin", "done"} \/ t \notin Observation
    BY <1>3 DEF LiveReleases
  <2>2. ASSUME t \in Observation, Unmade(t)' PROVE pc[t] = "restart"
    BY <1>3, <1>5, <2>2 DEF Unmade
  <2> QED
    BY <1>0, <1>5, <1>13, <2>1, <2>2, ReleasingFits
<1>16. t \in Releaser => ReleaserFits(t)'
  <2> SUFFICES ASSUME t \in Releaser PROVE ReleaserFits(t)'
    OBVIOUS
  <2>1. pc[t] = "release" /\ ReleaserFits(t) /\ Live!RuntimeOf(t) = home[t]
    BY <1>0, <1>1, ReleasingPlaces
  <2>2. CASE p = "remove"
    BY <1>0, <1>5, <1>7, <2>1, <2>2 DEF ReleaserFits
  <2>3. CASE p = "targets"
    <3>1. ASSUME NEW k \in scope[t] PROVE sessions[home[t]][k] # s
      <4>1. k \in Key /\ home[t] \in Runtime
        BY <1>1 DEF LiveConfig
      <4>2. ~Live!InMap(s)
        BY <1>3, <2>3
      <4>3. sessions[home[t]][k] # Nobody =>
              home[sessions[home[t]][k]] = home[t] /\ key[sessions[home[t]][k]] = k
        BY <4>1, MapPlaces
      <4> QED
        BY <1>2, <4>2, <4>3 DEF Live!InMap
    <3> QED
      BY <1>0, <1>5, <2>1, <2>3, <3>1 DEF ReleaserFits
  <2> QED
    BY <1>3, <2>2, <2>3
<1>17. LeasesFit' /\ LiveLeased'
  BY <1>0, <1>3, <1>5, <1>9, LeasesStay
<1> QED
  BY <1>0, <1>8, <1>9, <1>10, <1>11, <1>13, <1>14, <1>15, <1>16, <1>17, LiveStepFits

LEMMA RemoveStep == ASSUME LiveConstants, LiveInv, NEW t \in Live!Thread, Live!Remove(t)
  PROVE LiveInv'
<1> USE ThreadKinds
<1>a. PICK s : s = target[t]
  OBVIOUS
<1>0. /\ pc[t] \in {"remove", "restart remove"} /\ Live!RuntimeOf(t) \in living
      /\ trees' = trees \ {key[s]}
      /\ sessions' = [sessions EXCEPT ![home[s]][key[s]] = Nobody]
      /\ Live!Goto(t, IF pc[t] = "remove" THEN "lease" ELSE "restart lease")
      /\ UNCHANGED <<home, key, endpoint, scope, living, leases, endpoints, starting, releasing,
                     releaseLock, lock, up, timer, target, using, waiting, reclaimed, leaked,
                     faults>>
  BY <1>a DEF Live!Remove, Live!At, Live!config, Live!shared
<1>1. /\ LiveTyped /\ LiveShared /\ LiveManagers /\ LiveThreads /\ ThreadFits(t)
      /\ Live!RuntimeOf(t) \in Runtime
           /\ (t \in Releaser => ReleaserFits(t) /\ home[t] \in Runtime)
      /\ LiveConfig
  BY ThreadActing
<1>2. /\ s \in Live!Session /\ key[s] = KeyOf(t) /\ home[s] = Live!RuntimeOf(t)
      /\ lock[Live!RuntimeOf(t)][KeyOf(t)] = t /\ s # Nobody /\ home[s] \in Runtime
           /\ key[s] \in Key
      /\ Live!InMap(s) /\ s \notin up
  <2>1. pc[t] \in LiveReleases /\ pc[t] \in LiveHeld
    BY <1>0 DEF LiveReleases, LiveHeld
  <2>2. Live!InMap(s) /\ s \notin up
    BY <1>a, <1>0, <1>1 DEF ThreadFits
  <2> QED
    BY <1>a, <1>1, <2>1, <2>2, ThreadTypes DEF LiveConfig
<1>3. PICK p \in {"lease", "restart lease"} :
        Live!Goto(t, p) /\ (p = "restart lease" <=> pc[t] = "restart remove")
  BY <1>0
<1>4. /\ pc' \in [Live!Thread -> ObservationPlace \cup ReleaserPlace] /\ LivePlaces'
           /\ LiveConfig'
      /\ pc'[t] = p /\ \A u \in Live!Thread \ {t} : pc'[u] = pc[u]
  <2>1. p = "restart lease" => t \in Observation
    BY <1>3, ReleasingPlaces
  <2>2. /\ t \in Observation => p \in ObservationPlace
        /\ t \in Releaser => p \in ReleaserPlace
        /\ \A q \in Live!Session : t = Live!Timer(q) => p \in TimerPlace
    BY <1>3, <2>1, LiveNames
  <2> QED
    BY <1>0, <1>1, <1>3, <2>2, ThreadGoes
<1>5. /\ sessions' \in [Runtime -> [Key -> MaybeSession]]
      /\ \A r \in Runtime, q \in Key : r # home[s] \/ q # key[s] =>
           sessions'[r][q] = sessions[r][q]
      /\ sessions'[home[s]][key[s]] = Nobody
  BY <1>0, <1>1, <1>2 DEF LiveManagers, MaybeSession
<1>6. LiveTyped'
  BY <1>0, <1>1, <1>4, <1>5 DEF LiveTyped, LiveShared, LiveManagers, LiveThreads
<1>7. ThreadMoves(t)
  BY <1>0, <1>4 DEF ThreadMoves
<1>8. ThreadMakes(t)
  BY <1>0, <1>2, <1>5 DEF ThreadMakes
<1>9. /\ \A q \in Live!Session : q # s => (Live!InMap(q)' <=> Live!InMap(q))
      /\ ~Live!InMap(s)'
  <2>1. ASSUME NEW q \in Live!Session, q # s PROVE Live!InMap(q)' <=> Live!InMap(q)
    <3>1. home[q] \in Runtime /\ key[q] \in Key /\ q # Nobody
      BY <1>1 DEF LiveConfig
    <3>2. home[q] = home[s] /\ key[q] = key[s] => ~Live!InMap(q) /\ ~Live!InMap(q)'
      BY <1>0, <1>2, <1>5, <2>1, <3>1 DEF Live!InMap
    <3>3. home[q] # home[s] \/ key[q] # key[s] => (Live!InMap(q)' <=> Live!InMap(q))
      BY <1>0, <1>5, <3>1 DEF Live!InMap
    <3> QED
      BY <3>2, <3>3
  <2>2. ~Live!InMap(s)'
    BY <1>0, <1>2, <1>5 DEF Live!InMap
  <2> QED
    BY <2>1, <2>2
<1>10. ThreadFinds(t)
  <2>1. \A q \in Live!Session : Live!InMap(q)' => Live!InMap(q)
    BY <1>9
  <2> QED
    BY <1>0, <1>4, <1>7, <2>1, ThreadFinding DEF Referred
<1>11. ThreadFits(t)'
  <2>1. Live!RuntimeOf(t)' = Live!RuntimeOf(t) /\ KeyOf(t)' = KeyOf(t) /\ target'[t] = s
    BY <1>a, <1>0 DEF Live!RuntimeOf, KeyOf
  <2> QED
    BY <1>0, <1>1, <1>2, <1>4, <1>9, <2>1 DEF ThreadFits
<1>12. t \in Observation => ObservationFits(t)'
  <2>1. p \in LiveReleases
    BY DEF LiveReleases
  <2>2. ASSUME t \in Observation, Unmade(t)' PROVE pc[t] = "restart remove"
    BY <1>3, <1>4, <2>2 DEF Unmade
  <2> QED
    BY <1>0, <1>4, <1>10, <2>1, <2>2, ReleasingFits
<1>13. t \in Releaser => ReleaserFits(t)'
  <2> SUFFICES ASSUME t \in Releaser PROVE ReleaserFits(t)'
    OBVIOUS
  <2>1. /\ pc[t] = "remove" /\ p = "lease" /\ ReleaserFits(t) /\ Live!RuntimeOf(t) = home[t]
        /\ scope[t] \subseteq Key
    BY <1>0, <1>1, <1>3, ReleasingPlaces DEF LiveConfig
  <2>2. ASSUME NEW k \in scope[t]
        PROVE  sessions'[home[t]][k] = Nobody \/ sessions'[home[t]][k] \in waiting[t]
    <3>1. CASE k = key[s]
      BY <1>2, <1>5, <2>1, <3>1
    <3>2. CASE k # key[s]
      <4>1. k \in Key /\ home[t] \in Runtime
        BY <1>1, <2>1
      <4>2. sessions'[home[t]][k] = sessions[home[t]][k]
        BY <1>5, <3>2, <4>1
      <4>3. sessions[home[t]][k] # s
        <5>1. sessions[home[t]][k] # Nobody => key[sessions[home[t]][k]] = k
          BY <4>1, MapPlaces
        <5> QED
          BY <1>2, <3>2, <5>1
      <4> QED
        BY <1>a, <2>1, <4>2, <4>3 DEF ReleaserFits
    <3> QED
      BY <3>1, <3>2
  <2> QED
    BY <1>0, <1>4, <2>1, <2>2 DEF ReleaserFits
<1>14. MapFits'
  <2>1. MapFits
    BY DEF LiveInv
  <2>2. ASSUME NEW r \in Runtime, NEW q \in Key, sessions'[r][q] # Nobody
        PROVE  home[sessions'[r][q]] = r /\ key[sessions'[r][q]] = q
    <3>1. sessions'[r][q] = sessions[r][q]
      BY <1>5, <2>2
    <3>2. home[sessions[r][q]] = r /\ key[sessions[r][q]] = q
      BY <2>2, <3>1, MapPlaces
    <3> QED
      BY <3>1, <3>2
  <2>3. ASSUME NEW q \in up PROVE Live!InMap(q)'
    BY <1>1, <1>2, <1>9, <2>1 DEF MapFits, LiveManagers
  <2>4. UNCHANGED <<home, key, up>>
    BY <1>0
  <2> QED
    BY <2>2, <2>3, <2>4 DEF MapFits
<1>15. LeasesFit' /\ LiveLeased'
  <2>1. pc'[t] \in {"lease", "restart lease"} /\ target'[t] = s
    BY <1>a, <1>0, <1>4
  <2>2. ASSUME NEW q \in Live!Session PROVE pc[q] \in {"create", "undo"} => pc'[q] = pc[q]
    BY <1>0, <1>4
  <2>3. ASSUME NEW q \in Live!Session, HasItsSession(q) PROVE HasItsSession(q)'
    <3>1. CASE q = s
      BY <2>1, <3>1 DEF HasItsSession
    <3>2. CASE q # s
      <4>1. \A u \in Live!Thread : pc[u] \in {"lease", "restart lease"} => pc'[u] = pc[u]
        BY <1>0, <1>4
      <4> QED
        BY <1>0, <1>9, <2>2, <2>3, <3>2, <4>1 DEF HasItsSession
    <3> QED
      BY <3>1, <3>2
  <2>4. LeasesFit'
    <3>1. UNCHANGED <<home, key, endpoint, living, leases, endpoints>>
      BY <1>0
    <3> QED
      BY <2>3, <3>1 DEF LiveInv, LeasesFit
  <2>5. ASSUME NEW q \in Live!Session, home[q] \in living, Live!InMap(q)' \/ pc'[q] = "create"
        PROVE  /\ leases[key[q]] = q /\ endpoints[endpoint[key[q]]] = q
               /\ Live!InMap(q)' => key[q] \in trees'
    <3>1. Live!InMap(q)' => q # s /\ Live!InMap(q)
      BY <1>9
    <3>2. pc'[q] = "create" => pc[q] = "create"
      BY <1>0, <1>4
    <3>3. /\ leases[key[q]] = q /\ endpoints[endpoint[key[q]]] = q
          /\ Live!InMap(q) => key[q] \in trees
      BY <2>5, <3>1, <3>2 DEF LiveInv, LiveLeased
    <3>4. leases[key[s]] = s
      BY <1>0, <1>2 DEF LiveInv, LiveLeased
    <3> QED
      BY <1>0, <3>1, <3>3, <3>4
  <2>6. LiveLeased'
    BY <1>0, <2>5 DEF LiveLeased
  <2> QED
    BY <2>4, <2>6
<1> QED
  BY <1>0, <1>6, <1>7, <1>8, <1>10, <1>11, <1>12, <1>13, <1>14, <1>15, LiveStepFits

LEMMA GiveBackStep == ASSUME LiveConstants, LiveInv, NEW t \in Live!Thread, Live!GiveBack(t)
  PROVE LiveInv'
<1> USE ThreadKinds
<1>a. PICK s : s = target[t]
  OBVIOUS
<1>0. /\ pc[t] \in {"lease", "restart lease"}
      /\ UNCHANGED <<home, key, endpoint, scope, living, trees, sessions, starting, releasing,
                     releaseLock, up, timer, using, waiting, reclaimed>>
  BY DEF Live!GiveBack, Live!At, Live!config
<1>1. /\ LiveTyped /\ LiveShared /\ LiveManagers /\ LiveThreads /\ ThreadFits(t)
      /\ Live!RuntimeOf(t) \in Runtime
           /\ (t \in Releaser => ReleaserFits(t) /\ home[t] \in Runtime)
      /\ LiveConfig
  BY ThreadActing
<1>2. /\ s \in Live!Session /\ key[s] = KeyOf(t) /\ home[s] = Live!RuntimeOf(t) /\ s # Nobody
      /\ lock[Live!RuntimeOf(t)][KeyOf(t)] = t /\ ~Live!InMap(s) /\ pc[s] # "create"
  <2>1. pc[t] \in LiveReleases /\ pc[t] \in LiveHeld
    BY <1>0 DEF LiveReleases, LiveHeld
  <2>2. ~Live!InMap(s)
    BY <1>a, <1>0, <1>1 DEF ThreadFits
  <2>3. s \in Live!Session
    BY <1>a, <2>1, ThreadTypes
  <2>4. Referred(s)
    BY <1>a DEF Referred
  <2>5. pc[s] # "create"
    BY <2>3, <2>4 DEF LiveInv, ObservationFits, Unmade
  <2> QED
    BY <1>a, <2>1, <2>2, <2>5, ThreadTypes
<1>3. PICK p \in {"begin", "done", "targets", "abort", "idle"} :
        /\ Live!Goto(t, p)
        /\ target' = [target EXCEPT ![t] = Nobody]
        /\ p = "begin" => lock' = lock /\ pc[t] = "restart lease"
        /\ p # "begin" => Live!FreeLock(t)
        /\ t \in Observation => p \in {"begin", "done"}
        /\ t \in Releaser => p \in {"targets", "abort"}
        /\ \A q \in Live!Session : t = Live!Timer(q) => p = "idle"
  <2>1. CASE Live!Continue(t, pc[t])
    <3>1. PICK q \in {"begin", "done", "targets", "idle"} :
            /\ Live!Goto(t, q)
            /\ q = "begin" => lock' = lock /\ pc[t] \in {"restart", "restart lease"}
            /\ q # "begin" => Live!FreeLock(t)
            /\ t \in Observation => q \in {"begin", "done"}
            /\ t \in Releaser => q = "targets"
            /\ \A u \in Live!Session : t = Live!Timer(u) => q = "idle"
      BY <2>1, ThreadContinuing
    <3>2. target' = [target EXCEPT ![t] = Nobody]
      BY <2>1 DEF Live!Continue
    <3> QED
      BY <1>0, <3>1, <3>2
  <2>2. CASE ~Live!Continue(t, pc[t])
    <3>1. /\ target' = [target EXCEPT ![t] = Nobody] /\ Live!FreeLock(t)
          /\ Live!Goto(t, CASE t \in Observation -> "done" [] t \in Releaser -> "abort"
                       [] OTHER -> "idle")
      BY <2>2 DEF Live!GiveBack
    <3> QED
      BY <3>1
  <2> QED
    BY <2>1, <2>2
<1>4. \/ Live!GivesBack(s) /\ leaked' = leaked
      \/ leaked' = leaked \cup {s} /\ (UNCHANGED <<leases, endpoints>> \/ Live!GivesBack(s))
  BY <1>a DEF Live!GiveBack, Live!shared
<1>5. /\ pc' \in [Live!Thread -> ObservationPlace \cup ReleaserPlace] /\ LivePlaces'
           /\ LiveConfig'
      /\ pc'[t] = p /\ \A u \in Live!Thread \ {t} : pc'[u] = pc[u]
  <2>1. /\ t \in Observation => p \in ObservationPlace
        /\ t \in Releaser => p \in ReleaserPlace
        /\ \A q \in Live!Session : t = Live!Timer(q) => p \in TimerPlace
    BY <1>3, LiveNames
  <2> QED
    BY <1>0, <1>1, <1>3, <2>1, ThreadGoes
<1>6. /\ lock' \in [Runtime -> [Key -> Live!Thread \cup {Nobody}]]
      /\ \A r \in Runtime, q \in Key :
           lock[r][q] # Nobody /\ lock[r][q] # t => lock'[r][q] = lock[r][q]
  <2>1. CASE lock' = lock
    BY <1>1, <2>1 DEF LiveManagers
  <2>2. CASE Live!FreeLock(t)
    BY <1>1, <2>2, LockFreeing
  <2> QED
    BY <1>3, <2>1, <2>2
<1>7. /\ target' \in [Live!Thread -> MaybeSession]
           /\ \A u \in Live!Thread \ {t} : target'[u] = target[u]
      /\ target'[t] = Nobody
  BY <1>1, <1>3 DEF LiveThreads, MaybeSession
<1>8. LiveTyped'
  <2>1. leases' \in [Key -> MaybeSession] /\ endpoints' \in [Endpoint -> MaybeSession]
    BY <1>1, <1>2, <1>4, GivingBack DEF LiveShared
  <2>2. leaked' \subseteq Live!Session
    BY <1>1, <1>2, <1>4 DEF LiveShared
  <2>3. LiveShared'
    BY <1>0, <1>1, <2>1, <2>2 DEF LiveShared
  <2> QED
    BY <1>0, <1>1, <1>5, <1>6, <1>7, <2>3 DEF LiveTyped, LiveManagers, LiveThreads
<1>9. ThreadMoves(t)
  BY <1>0, <1>5, <1>6, <1>7 DEF ThreadMoves
<1>10. ThreadMakes(t)
  BY <1>0 DEF ThreadMakes
<1>11. MapFits' /\ \A q \in Live!Session : Live!InMap(q)' <=> Live!InMap(q)
  BY <1>0, MapStays
<1>12. ThreadFinds(t)
  <2>1. \A q \in timer : Referred(q)
    BY DEF Referred
  <2>2. t \in Observation => using'[t] = Nobody \/ Referred(using'[t])
    BY <1>0 DEF Referred
  <2>3. t \in Releaser => \A q \in waiting'[t] : Referred(q)
    BY <1>0 DEF Referred
  <2> QED
    BY <1>0, <1>5, <1>7, <1>9, <1>11, <2>1, <2>2, <2>3, ThreadFinding
<1>13. ThreadFits(t)'
  <2>1. pc[t] \in LiveHeld
    BY <1>0 DEF LiveHeld
  <2> QED
    BY <1>0, <1>3, <1>5, <1>7, <2>1, ThreadEnding, ReleasingPlaces
<1>14. t \in Observation => ObservationFits(t)'
  <2>1. p \in LiveReleases \cup {"begin", "done"} \/ t \notin Observation
    BY <1>3
  <2>2. ASSUME t \in Observation, Unmade(t)' PROVE pc[t] = "restart lease"
    BY <1>3, <1>5, <2>2 DEF Unmade
  <2> QED
    BY <1>0, <1>5, <1>12, <2>1, <2>2, ReleasingFits
<1>15. t \in Releaser => ReleaserFits(t)'
  <2> SUFFICES ASSUME t \in Releaser PROVE ReleaserFits(t)'
    OBVIOUS
  <2>1. pc[t] = "lease" /\ ReleaserFits(t) /\ p \in {"targets", "abort"}
    BY <1>0, <1>1, <1>3, ReleasingPlaces
  <2> QED
    BY <1>0, <1>5, <2>1 DEF ReleaserFits
<1>16. LeasesFit' /\ LiveLeased'
  <2>1. ASSUME NEW q \in Live!Session, q # s, HasItsSession(q) PROVE HasItsSession(q)'
    <3>1. pc[q] \in {"create", "undo"} => pc'[q] = pc[q]
      BY <1>0, <1>5
    <3>2. ASSUME NEW u \in Live!Thread, target[u] = q
          PROVE  target'[u] = q /\ pc'[u] = pc[u]
      BY <1>a, <1>5, <1>7, <2>1, <3>2
    <3>3. leaked \subseteq leaked'
      BY <1>4
    <3> QED
      BY <1>11, <2>1, <3>1, <3>2, <3>3 DEF HasItsSession
  <2>2. \A q \in Live!Session : /\ Live!InMap(q)' => Live!InMap(q) /\ q # s
                                /\ pc'[q] = "create" => pc[q] = "create" /\ q # s
    BY <1>2, <1>3, <1>5, <1>11
  <2>3. CASE Live!GivesBack(s)
    BY <1>0, <1>2, <2>1, <2>2, <2>3, LeasesGo
  <2>4. CASE leaked' = leaked \cup {s} /\ UNCHANGED <<leases, endpoints>>
    <3>1. HasItsSession(s)'
      BY <2>4 DEF HasItsSession
    <3>2. LeasesFit'
      <4>1. \A q \in Live!Session : HasItsSession(q) => HasItsSession(q)'
        BY <2>1, <3>1
      <4>2. UNCHANGED <<home, key, endpoint, living>>
        BY <1>0
      <4> QED
        BY <2>4, <4>1, <4>2 DEF LiveInv, LeasesFit
    <3>3. LiveLeased'
      BY <1>0, <2>2, <2>4 DEF LiveInv, LiveLeased
    <3> QED
      BY <3>2, <3>3
  <2> QED
    BY <1>4, <2>3, <2>4
<1> QED
  BY <1>0, <1>8, <1>9, <1>10, <1>11, <1>12, <1>13, <1>14, <1>15, <1>16, LiveStepFits

-----------------------------------------------------------------------------
(* Releasing a scope *)

LEMMA ReleaserGoes ==
  ASSUME LiveConstants, LiveTyped, NEW x \in Releaser, NEW p \in ReleaserPlace, Live!Goto(x, p),
         UNCHANGED <<home, key, endpoint, scope>>
  PROVE  /\ pc' \in [Live!Thread -> ObservationPlace \cup ReleaserPlace] /\ LivePlaces'
         /\ pc'[x] = p /\ \A u \in Live!Thread \ {x} : pc'[u] = pc[u]
         /\ LiveConfig'
BY ThreadGoes, ThreadKinds

LEMMA BeginReleaseStep ==
  ASSUME LiveConstants, LiveInv, NEW x \in Releaser, Live!BeginRelease(x)
  PROVE  LiveInv'
<1> USE ThreadKinds
<1>0. /\ x \in Live!Thread /\ pc[x] = "idle" /\ releaseLock[home[x]] = Nobody
      /\ releaseLock' = [releaseLock EXCEPT ![home[x]] = x]
      /\ releasing' = [releasing EXCEPT ![home[x]] = scope[x]]
      /\ waiting' = [waiting EXCEPT ![x] =
           {o \in starting : home[o] = home[x] /\ key[o] \in scope[x]}]
      /\ Live!Goto(x, "settle")
      /\ UNCHANGED <<home, key, endpoint, scope, living, leases, endpoints, trees, sessions,
                     starting, lock, up, timer, target, using, reclaimed, leaked, faults>>
  BY DEF Live!BeginRelease, Live!At, Live!config, Live!shared
<1>1. /\ LiveTyped /\ LiveShared /\ LiveManagers /\ LiveThreads /\ ThreadFits(x)
      /\ ReleaserFits(x) /\ home[x] \in Runtime /\ scope[x] \subseteq Key
  BY <1>0, ThreadActing
<1>2. /\ pc' \in [Live!Thread -> ObservationPlace \cup ReleaserPlace] /\ LivePlaces'
           /\ LiveConfig'
      /\ pc'[x] = "settle" /\ \A u \in Live!Thread \ {x} : pc'[u] = pc[u]
  BY <1>0, <1>1, LiveNames, ReleaserGoes
<1>3. /\ releaseLock' \in [Runtime -> Releaser \cup {Nobody}]
      /\ releasing' \in [Runtime -> SUBSET Key]
      /\ releaseLock'[home[x]] = x /\ releasing'[home[x]] = scope[x]
      /\ \A r \in Runtime \ {home[x]} : releaseLock'[r] = releaseLock[r]
                                        /\ releasing'[r] = releasing[r]
  BY <1>0, <1>1 DEF LiveManagers
<1>4. /\ waiting' \in [Releaser -> SUBSET Live!Session]
      /\ waiting'[x] = {o \in starting : home[o] = home[x] /\ key[o] \in scope[x]}
      /\ \A y \in Releaser \ {x} : waiting'[y] = waiting[y]
  BY <1>0, <1>1 DEF LiveManagers, LiveThreads
<1>5. LiveTyped'
  BY <1>0, <1>1, <1>2, <1>3, <1>4 DEF LiveTyped, LiveShared, LiveManagers, LiveThreads
<1>6. ThreadMoves(x)
  BY <1>0, <1>2, <1>4 DEF ThreadMoves
<1>7. ThreadMakes(x)
  BY <1>0 DEF ThreadMakes
<1>8. MapFits' /\ \A q \in Live!Session : Live!InMap(q)' <=> Live!InMap(q)
  BY <1>0, MapStays
<1>9. ThreadFinds(x)
  BY <1>0, <1>2, <1>6, <1>8, ThreadFinding DEF Referred
<1>10. ThreadFits(x)'
  <2>1. Live!RuntimeOf(x)' = Live!RuntimeOf(x) /\ target'[x] = target[x]
    BY <1>0 DEF Live!RuntimeOf
  <2> QED
    BY <1>0, <1>1, <1>2, <2>1 DEF ThreadFits, LiveReleases, LiveHeld
<1>11. ReleaserFits(x)'
  BY <1>0, <1>2, <1>3, <1>4 DEF ReleaserFits
<1>12. LeasesFit' /\ LiveLeased'
  BY <1>0, <1>2, <1>6, LeasesStay
<1>13. \A y \in Releaser \ {x} : releaseLock[home[y]] = y =>
         releaseLock'[home[y]] = y /\ releasing'[home[y]] = releasing[home[y]]
  <2>1. \A y \in Releaser : home[y] \in Runtime
    BY ThreadActing
  <2> QED
    BY <1>0, <1>3, <2>1
<1> QED
  BY <1>0, <1>5, <1>6, <1>7, <1>8, <1>9, <1>10, <1>11, <1>12, <1>13, LiveStepFits

LEMMA TargetsStep ==
  ASSUME LiveConstants, LiveInv, NEW x \in Releaser, Live!Targets(x)
  PROVE  LiveInv'
<1> USE ThreadKinds
<1>0. /\ x \in Live!Thread /\ pc[x] = "settle" /\ waiting[x] \cap starting = {}
      /\ waiting' = [waiting EXCEPT ![x] = {sessions[home[x]][k] : k \in scope[x]} \ {Nobody}]
      /\ Live!Goto(x, "targets")
      /\ UNCHANGED <<home, key, endpoint, scope, living, leases, endpoints, trees, sessions,
                     starting, releasing, releaseLock, lock, up, timer, target, using, reclaimed,
                     leaked, faults>>
  BY DEF Live!Targets, Live!At, Live!config, Live!shared, Live!manager
<1>1. /\ LiveTyped /\ LiveShared /\ LiveManagers /\ LiveThreads /\ ThreadFits(x)
      /\ ReleaserFits(x) /\ home[x] \in Runtime /\ scope[x] \subseteq Key
  BY <1>0, ThreadActing
<1>2. /\ pc' \in [Live!Thread -> ObservationPlace \cup ReleaserPlace] /\ LivePlaces'
           /\ LiveConfig'
      /\ pc'[x] = "targets" /\ \A u \in Live!Thread \ {x} : pc'[u] = pc[u]
  BY <1>0, <1>1, LiveNames, ReleaserGoes
<1>3. ASSUME NEW k \in scope[x], sessions[home[x]][k] # Nobody
      PROVE  /\ sessions[home[x]][k] \in Live!Session /\ home[sessions[home[x]][k]] = home[x]
             /\ Live!InMap(sessions[home[x]][k])
  <2>1. k \in Key
    BY <1>1
  <2>2. home[sessions[home[x]][k]] = home[x] /\ key[sessions[home[x]][k]] = k
    BY <1>1, <1>3, <2>1, MapPlaces
  <2>3. sessions[home[x]][k] \in MaybeSession
    BY <1>1, <2>1 DEF LiveManagers
  <2> QED
    BY <1>3, <2>2, <2>3 DEF Live!InMap, MaybeSession
<1>4. /\ waiting'[x] = {sessions[home[x]][k] : k \in scope[x]} \ {Nobody}
      /\ \A y \in Releaser \ {x} : waiting'[y] = waiting[y]
  BY <1>0, <1>1 DEF LiveThreads
<1>5. \A s \in waiting'[x] : s \in Live!Session /\ home[s] = home[x] /\ Live!InMap(s)
  BY <1>3, <1>4
<1>6. waiting' \in [Releaser -> SUBSET Live!Session]
  <2>1. waiting'[x] \subseteq Live!Session
    BY <1>5
  <2> QED
    BY <1>0, <1>1, <1>4, <2>1 DEF LiveThreads
<1>7. LiveTyped'
  BY <1>0, <1>1, <1>2, <1>6 DEF LiveTyped, LiveShared, LiveManagers, LiveThreads
<1>8. ThreadMoves(x)
  BY <1>0, <1>2, <1>4 DEF ThreadMoves
<1>9. ThreadMakes(x)
  BY <1>0 DEF ThreadMakes
<1>10. MapFits' /\ \A q \in Live!Session : Live!InMap(q)' <=> Live!InMap(q)
  BY <1>0, MapStays
<1>11. ThreadFinds(x)
  <2>1. \A q \in waiting'[x] : Referred(q)
    BY <1>5 DEF Referred
  <2>2. target[x] # Nobody => Referred(target[x])
    BY <1>0 DEF Referred
  <2>3. \A q \in timer : Referred(q)
    BY DEF Referred
  <2> QED
    BY <1>0, <1>2, <1>8, <1>10, <2>1, <2>2, <2>3, ThreadFinding
<1>12. ThreadFits(x)'
  <2>1. Live!RuntimeOf(x)' = Live!RuntimeOf(x) /\ target'[x] = target[x]
    BY <1>0 DEF Live!RuntimeOf
  <2> QED
    BY <1>0, <1>1, <1>2, <2>1 DEF ThreadFits, LiveReleases, LiveHeld
<1>13. ReleaserFits(x)'
  <2>1. \A o \in starting : home[o] = home[x] => key[o] \notin scope[x]
    BY <1>0, <1>1 DEF ReleaserFits
  <2>2. releaseLock[home[x]] = x /\ releasing[home[x]] = scope[x]
    BY <1>0, <1>1 DEF ReleaserFits
  <2>3. \A k \in scope[x] : sessions[home[x]][k] = Nobody \/ sessions[home[x]][k] \in waiting'[x]
    BY <1>4
  <2> QED
    BY <1>0, <1>2, <1>5, <2>1, <2>2, <2>3 DEF ReleaserFits
<1>14. LeasesFit' /\ LiveLeased'
  BY <1>0, <1>2, <1>8, LeasesStay
<1> QED
  BY <1>0, <1>7, <1>8, <1>9, <1>10, <1>11, <1>12, <1>13, <1>14, LiveStepFits

LEMMA NextTargetStep ==
  ASSUME LiveConstants, LiveInv, NEW x \in Releaser, Live!NextTarget(x)
  PROVE  LiveInv'
<1> USE ThreadKinds
<1>0. /\ x \in Live!Thread /\ pc[x] = "targets" /\ Live!Goto(x, "want")
      /\ UNCHANGED <<home, key, endpoint, scope, living, leases, endpoints, trees, sessions,
                     starting, releasing, releaseLock, lock, up, timer, using, reclaimed, leaked,
                     faults>>
  BY DEF Live!NextTarget, Live!At, Live!config, Live!shared, Live!manager
<1>1. /\ LiveTyped /\ LiveShared /\ LiveManagers /\ LiveThreads /\ ThreadFits(x)
      /\ ReleaserFits(x) /\ home[x] \in Runtime /\ scope[x] \subseteq Key
           /\ Live!RuntimeOf(x) = home[x]
  BY <1>0, ThreadActing
<1>2. PICK s \in waiting[x] : /\ waiting' = [waiting EXCEPT ![x] = @ \ {s}]
                              /\ target' = [target EXCEPT ![x] = s]
  BY DEF Live!NextTarget
<1>3. s \in Live!Session /\ home[s] = home[x] /\ s # Nobody /\ Referred(s)
  <2>1. s \in Live!Session
    BY <1>1, <1>2 DEF LiveThreads
  <2> QED
    BY <1>0, <1>1, <1>2, <2>1 DEF ReleaserFits, Referred
<1>4. /\ pc' \in [Live!Thread -> ObservationPlace \cup ReleaserPlace] /\ LivePlaces'
           /\ LiveConfig'
      /\ pc'[x] = "want" /\ \A u \in Live!Thread \ {x} : pc'[u] = pc[u]
  BY <1>0, <1>1, LiveNames, ReleaserGoes
<1>5. /\ waiting' \in [Releaser -> SUBSET Live!Session] /\ waiting'[x] = waiting[x] \ {s}
      /\ \A y \in Releaser \ {x} : waiting'[y] = waiting[y]
  BY <1>1, <1>2 DEF LiveThreads
<1>6. /\ target' \in [Live!Thread -> MaybeSession] /\ target'[x] = s
      /\ \A u \in Live!Thread \ {x} : target'[u] = target[u]
  BY <1>0, <1>1, <1>2, <1>3 DEF LiveThreads, MaybeSession
<1>7. LiveTyped'
  BY <1>0, <1>1, <1>4, <1>5, <1>6 DEF LiveTyped, LiveShared, LiveManagers, LiveThreads
<1>8. ThreadMoves(x)
  BY <1>0, <1>4, <1>5, <1>6 DEF ThreadMoves
<1>9. ThreadMakes(x)
  BY <1>0 DEF ThreadMakes
<1>10. MapFits' /\ \A q \in Live!Session : Live!InMap(q)' <=> Live!InMap(q)
  BY <1>0, MapStays
<1>11. ThreadFinds(x)
  <2>1. \A q \in waiting'[x] : Referred(q)
    BY <1>0, <1>5 DEF Referred
  <2>2. \A q \in timer : Referred(q)
    BY DEF Referred
  <2> QED
    BY <1>0, <1>3, <1>4, <1>6, <1>8, <1>10, <2>1, <2>2, ThreadFinding
<1>12. ThreadFits(x)'
  <2>1. Live!RuntimeOf(x)' = home[x]
    BY <1>0, <1>1 DEF Live!RuntimeOf
  <2> QED
    BY <1>0, <1>3, <1>4, <1>6, <2>1 DEF ThreadFits, LiveHeld
<1>13. ReleaserFits(x)'
  <2>1. /\ releaseLock[home[x]] = x /\ releasing[home[x]] = scope[x]
        /\ \A o \in starting : home[o] = home[x] => key[o] \notin scope[x]
        /\ \A k \in scope[x] : sessions[home[x]][k] = Nobody
                               \/ sessions[home[x]][k] \in waiting[x]
        /\ \A q \in waiting[x] : home[q] = home[x]
    BY <1>0, <1>1 DEF ReleaserFits
  <2> QED
    BY <1>0, <1>4, <1>5, <1>6, <2>1 DEF ReleaserFits
<1>14. LeasesFit' /\ LiveLeased'
  BY <1>0, <1>4, <1>8, LeasesStay
<1> QED
  BY <1>0, <1>7, <1>8, <1>9, <1>10, <1>11, <1>12, <1>13, <1>14, LiveStepFits

LEMMA EndReleaseStep ==
  ASSUME LiveConstants, LiveInv, NEW x \in Releaser, Live!EndRelease(x)
  PROVE  LiveInv'
<1> USE ThreadKinds
<1>0. /\ x \in Live!Thread /\ pc[x] \in {"targets", "abort"}
      /\ releasing' = [releasing EXCEPT ![home[x]] = {}]
      /\ releaseLock' = [releaseLock EXCEPT ![home[x]] = Nobody]
      /\ waiting' = [waiting EXCEPT ![x] = {}]
      /\ Live!Goto(x, "done")
      /\ UNCHANGED <<home, key, endpoint, scope, living, leases, endpoints, trees, sessions,
                     starting, lock, up, timer, target, using, reclaimed, leaked, faults>>
  BY DEF Live!EndRelease, Live!At, Live!config, Live!shared
<1>1. /\ LiveTyped /\ LiveShared /\ LiveManagers /\ LiveThreads /\ ThreadFits(x)
      /\ ReleaserFits(x) /\ home[x] \in Runtime /\ scope[x] \subseteq Key
  BY <1>0, ThreadActing
<1>2. /\ pc' \in [Live!Thread -> ObservationPlace \cup ReleaserPlace] /\ LivePlaces'
           /\ LiveConfig'
      /\ pc'[x] = "done" /\ \A u \in Live!Thread \ {x} : pc'[u] = pc[u]
  BY <1>0, <1>1, LiveNames, ReleaserGoes
<1>3. /\ releaseLock' \in [Runtime -> Releaser \cup {Nobody}]
      /\ releasing' \in [Runtime -> SUBSET Key]
      /\ \A r \in Runtime \ {home[x]} : releaseLock'[r] = releaseLock[r]
                                        /\ releasing'[r] = releasing[r]
  BY <1>0, <1>1 DEF LiveManagers
<1>4. /\ waiting' \in [Releaser -> SUBSET Live!Session] /\ waiting'[x] = {}
      /\ \A y \in Releaser \ {x} : waiting'[y] = waiting[y]
  BY <1>0, <1>1 DEF LiveThreads
<1>5. LiveTyped'
  BY <1>0, <1>1, <1>2, <1>3, <1>4 DEF LiveTyped, LiveShared, LiveManagers, LiveThreads
<1>6. ThreadMoves(x)
  BY <1>0, <1>2, <1>4 DEF ThreadMoves
<1>7. ThreadMakes(x)
  BY <1>0 DEF ThreadMakes
<1>8. MapFits' /\ \A q \in Live!Session : Live!InMap(q)' <=> Live!InMap(q)
  BY <1>0, MapStays
<1>9. ThreadFinds(x)
  <2>1. target[x] # Nobody => Referred(target[x])
    BY <1>0 DEF Referred
  <2>2. \A q \in timer : Referred(q)
    BY DEF Referred
  <2> QED
    BY <1>0, <1>2, <1>4, <1>6, <1>8, <2>1, <2>2, ThreadFinding
<1>10. ThreadFits(x)'
  <2>1. Live!RuntimeOf(x)' = Live!RuntimeOf(x) /\ target'[x] = target[x]
    BY <1>0 DEF Live!RuntimeOf
  <2> QED
    BY <1>0, <1>1, <1>2, <2>1 DEF ThreadFits, LiveReleases, LiveHeld
<1>11. ReleaserFits(x)'
  BY <1>0, <1>2, <1>4 DEF ReleaserFits
<1>12. LeasesFit' /\ LiveLeased'
  BY <1>0, <1>2, <1>6, LeasesStay
<1>13. \A y \in Releaser \ {x} : releaseLock[home[y]] = y =>
         releaseLock'[home[y]] = y /\ releasing'[home[y]] = releasing[home[y]]
  <2>1. \A y \in Releaser : home[y] \in Runtime
    BY ThreadActing
  <2>2. releaseLock[home[x]] = x
    BY <1>0, <1>1 DEF ReleaserFits
  <2> QED
    BY <1>0, <1>3, <2>1, <2>2
<1> QED
  BY <1>0, <1>5, <1>6, <1>7, <1>8, <1>9, <1>10, <1>11, <1>12, <1>13, LiveStepFits

-----------------------------------------------------------------------------
(* The managers of all runtimes *)

\* The invariant says nothing more of a runtime that has died.
LEMMA LiveQuiet ==
  ASSUME LiveConstants, LiveInv, living' \subseteq living,
         UNCHANGED <<home, key, endpoint, scope, leases, endpoints, trees, sessions, starting,
                     releasing, releaseLock, lock, up, timer, pc, target, using, waiting,
                     reclaimed, leaked>>
  PROVE  LiveInv'
<1>1. LiveTyped'
  BY DEF LiveInv, LiveTyped, LiveConfig, LiveShared, LiveManagers, LiveThreads, LivePlaces
<1>2. \A s \in Live!Session : /\ Live!InMap(s)' <=> Live!InMap(s)
                              /\ HasItsSession(s)' <=> HasItsSession(s)
                              /\ Referred(s)' <=> Referred(s)
  BY DEF Live!InMap, HasItsSession, Referred
<1>3. MapFits' /\ LeasesFit' /\ LiveLeased'
  <2>1. MapFits'
    BY MapStays
  <2>2. LeasesFit'
    BY <1>2 DEF LiveInv, LeasesFit
  <2>3. LiveLeased'
    BY <1>2 DEF LiveInv, LiveLeased
  <2> QED
    BY <2>1, <2>2, <2>3
<1>4. \A t \in Live!Thread : ThreadFits(t)'
  <2>1. \A t \in Live!Thread : Live!RuntimeOf(t)' = Live!RuntimeOf(t) /\ KeyOf(t)' = KeyOf(t)
    BY DEF Live!RuntimeOf, KeyOf
  <2>2. \A t \in Live!Thread : Live!InMap(target[t])' <=> Live!InMap(target[t])
    BY DEF Live!InMap
  <2> QED
    BY <2>1, <2>2 DEF LiveInv, ThreadFits
<1>5. \A o \in Observation : ObservationFits(o)'
  <2>1. \A o \in Observation : Unmade(o)' <=> Unmade(o)
    BY DEF Unmade
  <2> QED
    BY <1>2, <2>1, ThreadKinds DEF LiveInv, ObservationFits
<1>6. \A x \in Releaser : ReleaserFits(x)'
  BY DEF LiveInv, ReleaserFits
<1> QED
  BY <1>1, <1>3, <1>4, <1>5, <1>6 DEF LiveInv

LEMMA CrashStep == ASSUME LiveConstants, LiveInv, NEW r \in Runtime, Live!Crash(r) PROVE LiveInv'
BY LiveQuiet DEF Live!Crash, Live!config, Live!shared, Live!manager, Live!thread

\* Every step preserves the invariant.
LEMMA LiveStep == ASSUME LiveConstants, LiveInv, [Live!Next]_(Live!liveVars) PROVE LiveInv'
<1>1. ASSUME NEW o \in Observation, Live!Observe(o) PROVE LiveInv'
  <2>1. o \in Live!Thread
    BY ThreadKinds
  <2> QED
    BY <1>1, <2>1, AcquireStep, BeginStep, ReserveStep, CreateStep, UndoStep, FinishStartStep,
       ReadyStep, FinishStep, WantStep, StopStep, RemoveStep, GiveBackStep
    DEF Live!Observe, Live!ReleaseSession
<1>2. ASSUME NEW x \in Releaser, Live!ReleaseScope(x) PROVE LiveInv'
  <2>1. x \in Live!Thread
    BY ThreadKinds
  <2> QED
    BY <1>2, <2>1, BeginReleaseStep, TargetsStep, NextTargetStep, EndReleaseStep, WantStep,
       StopStep, RemoveStep, GiveBackStep
    DEF Live!ReleaseScope, Live!ReleaseSession
<1>3. ASSUME NEW s \in Live!Session, Live!Fire(s) \/ Live!ReleaseSession(Live!Timer(s))
      PROVE LiveInv'
  <2>1. Live!Timer(s) \in Live!Thread
    BY ThreadKinds
  <2> QED
    BY <1>3, <2>1, FireStep, WantStep, StopStep, RemoveStep, GiveBackStep DEF Live!ReleaseSession
<1>4. CASE UNCHANGED Live!liveVars
  <2>1. UNCHANGED <<home, key, endpoint, scope, living, leases, endpoints, trees, sessions,
                    starting, releasing, releaseLock, lock, up, timer, pc, target, using, waiting,
                    reclaimed, leaked>>
    BY <1>4 DEF Live!liveVars, Live!config, Live!shared, Live!manager, Live!thread
  <2> QED
    BY <2>1, LiveQuiet
<1> QED
  BY <1>1, <1>2, <1>3, <1>4, CrashStep DEF Live!Next

LEMMA LiveOwned == ASSUME LiveConstants, LiveInv PROVE Live!TypeOK /\ Live!SessionsAreOwned
<1> USE ThreadKinds
<1>1. Live!TypeOK
  BY DEF Live!TypeOK, MaybeSession, LiveInv, LiveTyped, LiveShared, LiveManagers, LiveThreads
<1>2. Live!ServiceHasItsLeases
  BY DEF LiveInv, LiveTyped, LiveManagers, MapFits, LiveLeased, Live!ServiceHasItsLeases
<1>3. Live!LeaseHasItsSession
  <2>1. LiveShared /\ LeasesFit
    BY DEF LiveInv, LiveTyped
  <2>2. \A k \in Key : leases[k] # Nobody => leases[k] \in Live!Session
    BY <2>1 DEF LiveShared, MaybeSession
  <2>3. \A e \in Endpoint : endpoints[e] # Nobody => endpoints[e] \in Live!Session
    BY <2>1 DEF LiveShared, MaybeSession
  <2>4. ASSUME NEW k \in Key, leases[k] # Nobody, home[leases[k]] \in living
        PROVE  HasItsSession(leases[k])
    BY <2>1, <2>2, <2>4 DEF LeasesFit
  <2>5. ASSUME NEW e \in Endpoint, endpoints[e] # Nobody
        PROVE  leases[key[endpoints[e]]] = endpoints[e]
    BY <2>1, <2>3, <2>5 DEF LeasesFit
  <2> QED
    BY <2>4, <2>5 DEF Live!LeaseHasItsSession, HasItsSession
<1>4. Live!ReleaseLeavesNothing
  BY DEF LiveInv, ReleaserFits, Live!ReleaseLeavesNothing, Live!At
<1> QED
  BY <1>1, <1>2, <1>3, <1>4 DEF Live!SessionsAreOwned, Live!LeasesFitSessions

-----------------------------------------------------------------------------
(* The final validation *)

\* What is asked of the constants: a capability is required.
PlanConstants == Count \in Nat \ {0} /\ MaxLimit \in Nat

\* Cardinality is the same under both names.
LEMMA PlanCardinality == \A S : Plan!Cardinality(S) = Cardinality(S)
  BY DEF Plan!Cardinality, Cardinality

\* A sequence without one of its elements.
LEMMA Removing ==
  ASSUME NEW S, NEW q \in Seq(S), NEW i \in DOMAIN q
  PROVE  /\ Plan!RemoveAt(q, i) \in Seq(S)
         /\ DOMAIN Plan!RemoveAt(q, i) = 1..(Len(q) - 1)
         /\ \A j \in 1..(Len(q) - 1) :
              Plan!RemoveAt(q, i)[j] = IF j < i THEN q[j] ELSE q[j + 1]
<1> DEFINE a == SubSeq(q, 1, i - 1)
           b == SubSeq(q, i + 1, Len(q))
<1>0. i \in 1..Len(q) /\ Len(q) \in Nat
  OBVIOUS
<1>1. a \in Seq(S) /\ Len(a) = i - 1 /\ \A j \in 1..(i - 1) : a[j] = q[j]
  BY <1>0
<1>2. b \in Seq(S) /\ Len(b) = Len(q) - i /\ \A j \in 1..(Len(q) - i) : b[j] = q[i + j]
  BY <1>0
<1>3. Plan!RemoveAt(q, i) = a \o b
  BY DEF Plan!RemoveAt
<1> HIDE DEF a, b
<1>4. a \o b \in Seq(S) /\ Len(a \o b) = Len(q) - 1
  BY <1>0, <1>1, <1>2
<1>5. DOMAIN (a \o b) = 1..(Len(q) - 1)
  BY <1>4
<1>6. ASSUME NEW j \in 1..(Len(q) - 1)
      PROVE  (a \o b)[j] = IF j < i THEN q[j] ELSE q[j + 1]
  <2>1. CASE j < i
    BY <2>1, <1>0, <1>1, <1>2
  <2>2. CASE ~(j < i)
    <3>1. (a \o b)[j] = b[j - Len(a)]
      BY <2>2, <1>0, <1>1, <1>2
    <3>2. j - Len(a) \in 1..(Len(q) - i) /\ i + (j - Len(a)) = j + 1
      BY <2>2, <1>0, <1>1
    <3> QED
      BY <3>1, <3>2, <2>2, <1>2
  <2> QED
    BY <2>1, <2>2
<1> QED
  BY <1>3, <1>4, <1>5, <1>6

\* The smallest of the tiers.
LEMMA SmallestTier ==
  ASSUME NEW T \in SUBSET (0..2), T # {}
  PROVE  Plan!Min(T) \in T /\ \A t \in T : Plan!Min(T) <= t
<1>1. \E x \in T : \A y \in T : x <= y
  <2>0. \A y \in T : y = 0 \/ y = 1 \/ y = 2
    OBVIOUS
  <2>1. CASE 0 \in T
    BY <2>0, <2>1
  <2>2. CASE 0 \notin T /\ 1 \in T
    BY <2>0, <2>2
  <2>3. CASE 0 \notin T /\ 1 \notin T
    <3>1. 2 \in T /\ \A y \in T : y = 2
      BY <2>0, <2>3
    <3> QED
      BY <3>1
  <2> QED
    BY <2>1, <2>2, <2>3
<1> QED
  BY <1>1 DEF Plan!Min

\* Of the catalog, which never changes.
PlanCatalog ==
  /\ tier \in [Plan!Capability -> 0..2]
  /\ conflicts \subseteq SUBSET Plan!Capability
  /\ limit \in 1..MaxLimit

\* Of the loop, but for the queue and what it has admitted.
PlanProgress ==
  /\ stage \in {"start", "admitting", "waiting", "over"}
  /\ current \in 0..2
  /\ report \in [Plan!Capability -> {"none", "passed", "failed"}]
  /\ results \in [Plan!Capability -> {"none", "passed", "failed"}]
  /\ failed \in BOOLEAN
  /\ verdict \in {"none", "passed", "failed"}

PlanQueue ==
  /\ pending \in Seq(Plan!Capability)
  /\ active \subseteq Plan!Capability /\ running \subseteq Plan!Capability
  /\ completed \subseteq Plan!Capability

LEMMA PlanTypes == Plan!TypeOK <=> PlanCatalog /\ PlanProgress /\ PlanQueue
  BY DEF Plan!TypeOK, PlanCatalog, PlanProgress, PlanQueue

\* What is active runs or has ended; it goes together and within the limit; until
\* the loop waits nothing has ended that it does not know, and nothing has failed.
Kept ==
  /\ active = running \cup completed /\ running \cap completed = {}
  /\ Plan!Together(active) /\ IsFiniteSet(active) /\ Cardinality(active) <= limit
  /\ stage \in {"start", "admitting"} => completed = {} /\ ~failed
  /\ \A c \in Plan!Capability : results[c] = "failed" => failed
  /\ \A c \in Plan!Capability : report[c] = "failed" => c \in completed \/ results[c] = "failed"

\* How far each capability is: what runs has no report, what has ended has one, and
\* a result is the report.
Reported ==
  /\ \A c \in Plan!Capability :
       /\ c \in running => report[c] = "none"
       /\ c \in completed => report[c] # "none"
       /\ results[c] = IF c \in completed THEN "none" ELSE report[c]
  /\ failed => \E c \in Plan!Capability : results[c] = "failed"

\* The queue is of the capabilities of the tier that have not started.
Queued ==
  /\ Plan!IsInjective(pending)
  /\ \A i \in DOMAIN pending : pending[i] \notin Plan!Started /\ tier[pending[i]] = current

\* How far the tiers are: a tier is complete between its queue and what has
\* started, and the earlier ones have passed.
TierByTier ==
  /\ stage = "start" => Plan!Started = {} /\ pending = <<>> /\ verdict = "none"
  /\ \A c \in Plan!Started : tier[c] <= current
  /\ stage \in {"admitting", "waiting"} =>
       /\ verdict = "none"
       /\ \A c \in Plan!Capability : tier[c] < current => results[c] = "passed"
       /\ \A c \in Plan!Capability : tier[c] = current =>
            c \in Plan!Started \/ \E i \in DOMAIN pending : pending[i] = c
  /\ stage = "waiting" /\ ~failed /\ active = {} => pending = <<>>
  /\ stage = "over" =>
       /\ active = {}
       /\ \A c, d \in Plan!Capability :
            c \in Plan!Started /\ tier[d] < tier[c] => results[d] = "passed"
       /\ verdict = IF Plan!Passed THEN "passed" ELSE "failed"
       /\ ~failed => Plan!Passed

PlanKept == PlanCatalog /\ PlanProgress /\ Kept
PlanInv == PlanKept /\ PlanQueue /\ Reported /\ Queued /\ TierByTier

-----------------------------------------------------------------------------
(* What the limit and the conflicts keep, whatever the queues are *)

LEMMA PlanInit == ASSUME PlanConstants, Plan!Init PROVE PlanInv
<1>1. PlanCatalog
  BY DEF Plan!Init, PlanCatalog, Plan!kSubset
<1>0. /\ stage = "start" /\ current = 0 /\ pending = <<>> /\ active = {} /\ running = {}
      /\ completed = {} /\ failed = FALSE /\ verdict = "none"
      /\ report = [c \in Plan!Capability |-> "none"]
      /\ results = [c \in Plan!Capability |-> "none"]
  BY DEF Plan!Init
<1> USE <1>0
<1>2. PlanProgress
  <2>1. /\ report \in [Plan!Capability -> {"none", "passed", "failed"}]
        /\ results \in [Plan!Capability -> {"none", "passed", "failed"}]
    OBVIOUS
  <2>2. stage \in {"start", "admitting", "waiting", "over"} /\ current \in 0..2
    OBVIOUS
  <2>3. failed \in BOOLEAN
    OBVIOUS
  <2>4. verdict \in {"none", "passed", "failed"}
    OBVIOUS
  <2> QED
    BY <2>1, <2>2, <2>3, <2>4 DEF PlanProgress
<1>3. Kept
  <2>1. limit \in Nat /\ limit >= 0
    BY <1>1 DEF PlanConstants, PlanCatalog
  <2>2. IsFiniteSet({}) /\ Cardinality({}) = 0
    BY FS_EmptySet
  <2>3. Plan!Together(active)
    BY DEF Plan!Together
  <2> QED
    BY <2>1, <2>2, <2>3 DEF Kept
<1>4. PlanQueue /\ Reported
  BY DEF PlanQueue, Reported
<1>5. Plan!Started = {}
  BY DEF Plan!Started
<1>6. Queued
  BY <1>5 DEF Queued, Plan!IsInjective
<1>7. TierByTier
  BY <1>5 DEF TierByTier
<1> QED
  BY <1>1, <1>2, <1>3, <1>4, <1>6, <1>7 DEF PlanInv, PlanKept

LEMMA KeptStep ==
  ASSUME PlanConstants, PlanKept, [Plan!Next]_(Plan!planVars)
  PROVE  PlanKept' /\ ((\E c \in Plan!Capability : report[c] = "failed") =>
                         Plan!Started' \subseteq Plan!Started)
<1> USE DEF PlanKept
<1>0. /\ stage \in {"start", "admitting"} => \A c \in Plan!Capability : report[c] # "failed"
      /\ running \subseteq active /\ completed \subseteq active
  BY DEF Kept
<1>1. PlanCatalog' /\ UNCHANGED <<tier, conflicts, limit>>
  BY DEF Plan!Next, Plan!planVars, Plan!catalog, Plan!Loop, Plan!Start, Plan!Admit,
         Plan!AdmitEnds, Plan!Turn, Plan!TierEnds, Plan!RunEnds, PlanCatalog
<1>2. CASE UNCHANGED Plan!planVars
  BY <1>1, <1>2 DEF Plan!planVars, PlanProgress, Kept, Plan!Together, Plan!Conflict, Plan!Started
<1>3. ASSUME NEW t \in Plan!Tiers, Plan!StartTier(t), stage \in {"start", "waiting"},
             stage = "waiting" => ~failed /\ active = {},
             UNCHANGED <<active, running, completed, report, results, failed, verdict>>
      PROVE  PlanKept' /\ Plan!Started' = Plan!Started
  <2>1. t \in 0..2
    BY <1>3 DEF PlanCatalog, Plan!Tiers
  <2>2. PlanProgress'
    BY <1>3, <2>1 DEF Plan!StartTier, PlanProgress
  <2>3. Kept'
    BY <1>1, <1>3 DEF Plan!StartTier, Kept, Plan!Together, Plan!Conflict
  <2>4. Plan!Started' = Plan!Started
    BY <1>3 DEF Plan!Started
  <2> QED
    BY <1>1, <2>2, <2>3, <2>4
<1>4. CASE Plan!Start
  <2>1. Plan!Tiers # {} /\ Plan!Tiers \in SUBSET (0..2)
    BY DEF PlanConstants, Plan!Capability, Plan!Tiers, PlanCatalog
  <2>2. Plan!Min(Plan!Tiers) \in Plan!Tiers
    BY <2>1, SmallestTier
  <2> QED
    BY <1>3, <1>4, <2>2 DEF Plan!Start
<1>5. CASE Plan!Admit
  <2>1. PICK i \in DOMAIN pending :
          /\ Plan!CanAdmit(i)
          /\ active' = active \cup {pending[i]}
          /\ running' = running \cup {pending[i]}
    BY <1>5 DEF Plan!Admit
  <2>2. stage = "admitting" /\ Cardinality(active) < limit
        /\ UNCHANGED <<stage, current, completed, report, results, failed, verdict>>
    BY <1>5, PlanCardinality DEF Plan!Admit
  <2>3. PlanProgress'
    BY <2>2 DEF PlanProgress
  <2>4. IsFiniteSet(active') /\ Cardinality(active') <= limit
    <3>1. Cardinality(active) \in Nat /\ limit \in Nat
      BY FS_CardinalityType DEF Kept, PlanCatalog, PlanConstants
    <3>2. IsFiniteSet(active)
      BY DEF Kept
    <3>3. /\ IsFiniteSet(active \cup {pending[i]})
          /\ Cardinality(active \cup {pending[i]}) \in {Cardinality(active), Cardinality(active) + 1}
      BY <3>2, FS_AddElement
    <3> QED
      BY <2>1, <2>2, <3>1, <3>3
  <2>5. Plan!Together(active)'
    BY <1>1, <2>1 DEF Plan!CanAdmit, Plan!Together, Plan!Conflict
  <2>6. Kept'
    BY <1>1, <2>1, <2>2, <2>4, <2>5 DEF Kept
  <2> QED
    BY <1>0, <1>1, <2>2, <2>3, <2>6
<1>6. CASE Plan!AdmitEnds
  <2>1. /\ stage = "admitting" /\ stage' = "waiting"
        /\ UNCHANGED <<current, active, running, completed, report, results, failed, verdict>>
    BY <1>6 DEF Plan!AdmitEnds
  <2>2. PlanProgress'
    BY <2>1 DEF PlanProgress
  <2>3. Kept'
    BY <1>1, <2>1 DEF Kept, Plan!Together, Plan!Conflict
  <2> QED
    BY <1>1, <2>1, <2>2, <2>3 DEF Plan!Started
<1>7. CASE Plan!Turn
  <2>1. /\ stage = "waiting" /\ stage' = IF failed' THEN "waiting" ELSE "admitting"
        /\ active' = active \ completed /\ completed' = {}
        /\ results' = [c \in Plan!Capability |-> IF c \in completed THEN report[c] ELSE results[c]]
        /\ failed' = (failed \/ \E c \in completed : report[c] = "failed")
        /\ UNCHANGED <<current, running, report, verdict>>
    BY <1>7 DEF Plan!Turn
  <2>2. PlanProgress'
    BY <2>1 DEF PlanProgress
  <2>3. Kept'
    <3>1. IsFiniteSet(active') /\ Cardinality(active') <= limit
      <4>1. IsFiniteSet(active) /\ Cardinality(active) <= limit /\ limit \in Nat
        BY DEF Kept, PlanCatalog, PlanConstants
      <4>2. IsFiniteSet(active') /\ Cardinality(active') <= Cardinality(active)
        BY <2>1, <4>1, FS_Subset
      <4>3. Cardinality(active) \in Nat /\ Cardinality(active') \in Nat
        BY <4>1, <4>2, FS_CardinalityType
      <4> QED
        BY <4>1, <4>2, <4>3
    <3>2. Plan!Together(active)'
      BY <1>1, <2>1 DEF Kept, Plan!Together, Plan!Conflict
    <3>3. active' = running' \cup completed'
      BY <2>1 DEF Kept
    <3>4. \A c \in Plan!Capability : results'[c] = "failed" => failed'
      BY <2>1 DEF Kept
    <3>5. \A c \in Plan!Capability : report'[c] = "failed" => results'[c] = "failed"
      BY <2>1 DEF Kept
    <3> QED
      BY <1>1, <2>1, <3>1, <3>2, <3>3, <3>4, <3>5 DEF Kept
  <2>4. Plan!Started' \subseteq Plan!Started
    BY <1>0, <2>1 DEF Plan!Started
  <2> QED
    BY <1>1, <2>2, <2>3, <2>4
<1>8. CASE Plan!TierEnds
  <2>1. stage = "waiting" /\ active = {}
        /\ UNCHANGED <<active, running, completed, report, results, failed>>
    BY <1>8 DEF Plan!TierEnds
  <2>2. Plan!Started' = Plan!Started
    BY <2>1 DEF Plan!Started
  <2>3. CASE stage' = "over" /\ current' = current /\ verdict' \in {"passed", "failed"}
    <3>1. PlanProgress'
      BY <2>1, <2>3 DEF PlanProgress
    <3>2. Kept'
      BY <1>1, <2>1, <2>3 DEF Kept, Plan!Together, Plan!Conflict
    <3> QED
      BY <1>1, <2>2, <3>1, <3>2
  <2>4. CASE /\ ~failed /\ {t \in Plan!Tiers : t > current} # {}
             /\ Plan!StartTier(Plan!Min({t \in Plan!Tiers : t > current}))
             /\ UNCHANGED verdict
    <3> DEFINE later == {t \in Plan!Tiers : t > current}
    <3>1. later # {} /\ later \in SUBSET (0..2)
      BY <2>4 DEF PlanCatalog, Plan!Tiers
    <3>2. Plan!Min(later) \in later
      BY <3>1, SmallestTier
    <3>3. Plan!StartTier(Plan!Min(later)) /\ Plan!Min(later) \in Plan!Tiers
      BY <2>4, <3>2
    <3> QED
      BY <1>3, <2>1, <2>4, <3>3
  <2> QED
    BY <1>8, <2>3, <2>4 DEF Plan!TierEnds
<1>9. CASE \E c \in Plan!Capability : Plan!RunEnds(c)
  <2>1. PICK c \in Plan!Capability : Plan!RunEnds(c)
    BY <1>9
  <2>2. PICK r \in {"passed", "failed"} : report' = [report EXCEPT ![c] = r]
    BY <2>1 DEF Plan!RunEnds
  <2>3. /\ stage \in {"waiting", "over"} /\ c \in running
        /\ running' = running \ {c} /\ completed' = completed \cup {c}
        /\ UNCHANGED <<stage, current, active, results, failed, verdict>>
    BY <2>1 DEF Plan!RunEnds
  <2>4. PlanProgress'
    BY <2>2, <2>3 DEF PlanProgress
  <2>5. Kept'
    BY <1>1, <2>2, <2>3 DEF Kept, Plan!Together, Plan!Conflict, PlanProgress
  <2> QED
    BY <1>1, <2>3, <2>4, <2>5 DEF Plan!Started
<1> QED
  BY <1>2, <1>4, <1>5, <1>6, <1>7, <1>8, <1>9 DEF Plan!Next, Plan!Loop

-----------------------------------------------------------------------------
(* What the queues give: that they are complete is the one hypothesis, which TLC *)
(* checks; Queue is a recursion over the conflicts.                               *)

\* A tier begins; all before it have passed.
LEMMA TierBegins ==
  ASSUME PlanInv, PlanKept', Plan!QueueIsTheTier', NEW t \in 0..2, Plan!StartTier(t), ~failed,
         UNCHANGED <<tier, active, running, completed, report, results, failed, verdict>>,
         verdict = "none",
         \A c \in Plan!Started : tier[c] < t,
         \A c \in Plan!Capability : tier[c] < t => results[c] = "passed"
  PROVE  PlanInv'
<1>1. stage' = "admitting" /\ current' = t
  BY DEF Plan!StartTier
<1>2. Plan!Started' = Plan!Started /\ Plan!Started \subseteq Plan!Capability
  BY DEF Plan!Started, PlanInv, PlanQueue
<1>3. \A c \in Plan!Capability : tier[c] \in 0..2
  BY DEF PlanInv, PlanKept, PlanCatalog
<1>4. \A c \in Plan!Started' : tier'[c] # current'
  BY <1>1, <1>2, <1>3
<1>5. /\ pending' \in Seq(Plan!Capability) /\ Plan!IsInjective(pending)'
      /\ \A c \in Plan!Capability : tier[c] = t <=> \E i \in DOMAIN pending' : pending'[i] = c
  BY <1>1, <1>4 DEF Plan!QueueIsTheTier
<1>6. PlanQueue' /\ Reported'
  BY <1>5 DEF PlanInv, PlanQueue, Reported
<1>7. Queued'
  <2>1. ASSUME NEW i \in DOMAIN pending'
        PROVE  pending'[i] \in Plan!Capability /\ tier[pending'[i]] = t
    BY <1>5
  <2> QED
    BY <1>1, <1>2, <1>3, <1>5, <2>1 DEF Queued
<1>8. TierByTier'
  BY <1>1, <1>2, <1>3, <1>5 DEF TierByTier
<1> QED
  BY <1>6, <1>7, <1>8 DEF PlanInv

LEMMA PlanStep ==
  ASSUME PlanConstants, PlanInv, [Plan!Next]_(Plan!planVars), Plan!QueueIsTheTier'
  PROVE  PlanInv'
<1>0. PlanKept /\ PlanKept' /\ UNCHANGED <<tier, conflicts, limit>>
  <2>1. UNCHANGED <<tier, conflicts, limit>>
    BY DEF Plan!Next, Plan!planVars, Plan!catalog, Plan!Loop, Plan!Start, Plan!Admit,
           Plan!AdmitEnds, Plan!Turn, Plan!TierEnds, Plan!RunEnds
  <2> QED
    BY <2>1, KeptStep DEF PlanInv
<1>1. /\ Plan!Started \subseteq Plan!Capability /\ active \subseteq Plan!Started
      /\ running \subseteq active /\ completed \subseteq active
      /\ \A c \in Plan!Capability : tier[c] \in 0..2
      /\ current \in 0..2
  BY <1>0 DEF Plan!Started, PlanInv, PlanQueue, PlanKept, Kept, PlanCatalog, PlanProgress
<1>2. CASE UNCHANGED Plan!planVars
  <2>1. Plan!Started' = Plan!Started /\ Plan!Passed' = Plan!Passed
    BY <1>2 DEF Plan!planVars, Plan!Started, Plan!Passed
  <2>2. PlanQueue' /\ Reported' /\ Queued' /\ TierByTier'
    BY <1>0, <1>2, <2>1
       DEF Plan!planVars, PlanInv, PlanQueue, Reported, Queued, TierByTier, Plan!IsInjective
  <2> QED
    BY <1>0, <2>2 DEF PlanInv
<1>3. CASE Plan!Start
  <2>1. Plan!Tiers # {} /\ Plan!Tiers \in SUBSET (0..2)
    <3>1. 1 \in Plan!Capability
      BY DEF PlanConstants, Plan!Capability
    <3> QED
      BY <1>1, <3>1 DEF Plan!Tiers
  <2>2. Plan!Min(Plan!Tiers) \in Plan!Tiers /\ \A t \in Plan!Tiers : Plan!Min(Plan!Tiers) <= t
    BY <2>1, SmallestTier
  <2>3. Plan!Min(Plan!Tiers) \in 0..2 /\ Plan!StartTier(Plan!Min(Plan!Tiers)) /\ ~failed
        /\ UNCHANGED <<active, running, completed, report, results, failed, verdict>>
        /\ verdict = "none" /\ Plan!Started = {}
    BY <1>0, <1>3, <2>1, <2>2 DEF Plan!Start, PlanInv, PlanKept, Kept, TierByTier
  <2>4. \A c \in Plan!Capability : ~(tier[c] < Plan!Min(Plan!Tiers))
    <3>1. \A c \in Plan!Capability : Plan!Min(Plan!Tiers) <= tier[c]
      BY <2>2 DEF Plan!Tiers
    <3> QED
      BY <1>1, <2>3, <3>1
  <2> QED
    BY <1>0, <2>3, <2>4, TierBegins
<1>4. CASE Plan!Admit
  <2>1. PICK i \in DOMAIN pending :
          /\ active' = active \cup {pending[i]}
          /\ running' = running \cup {pending[i]}
          /\ pending' = Plan!RemoveAt(pending, i)
    BY <1>4 DEF Plan!Admit
  <2>2. stage = "admitting"
        /\ UNCHANGED <<stage, current, completed, report, results, failed, verdict>>
    BY <1>4 DEF Plan!Admit
  <2>3. pending \in Seq(Plan!Capability) /\ Plan!IsInjective(pending)
    BY DEF PlanInv, PlanQueue, Queued
  <2>4. /\ pending' \in Seq(Plan!Capability)
        /\ DOMAIN pending' = 1..(Len(pending) - 1)
        /\ \A j \in 1..(Len(pending) - 1) :
             pending'[j] = IF j < i THEN pending[j] ELSE pending[j + 1]
    BY <2>1, <2>3, Removing
  <2>5. pending[i] \in Plan!Capability /\ pending[i] \notin Plan!Started
        /\ tier[pending[i]] = current
    BY <2>1, <2>3 DEF PlanInv, Queued
  <2>6. Plan!Started' = Plan!Started \cup {pending[i]}
    BY <2>1, <2>2 DEF Plan!Started
  <2>7. PlanQueue'
    BY <2>1, <2>2, <2>4, <2>5 DEF PlanInv, PlanQueue
  <2>8. Reported'
    BY <1>1, <2>1, <2>2, <2>5 DEF PlanInv, Reported, Plan!Started
  <2>9. Len(pending) \in Nat /\ DOMAIN pending = 1..Len(pending) /\ i \in 1..Len(pending)
    BY <2>1, <2>3
  <2>10. ASSUME NEW j \in DOMAIN pending'
         PROVE  \E k \in DOMAIN pending :
                  k # i /\ pending'[j] = pending[k] /\ k = IF j < i THEN j ELSE j + 1
    BY <2>4, <2>9
  <2>11. Plan!IsInjective(pending)'
    BY <2>3, <2>4, <2>9, <2>10 DEF Plan!IsInjective
  <2>12. Queued'
    <3>1. ASSUME NEW j \in DOMAIN pending'
          PROVE  pending'[j] \notin Plan!Started' /\ tier'[pending'[j]] = current'
      <4>1. PICK k \in DOMAIN pending : k # i /\ pending'[j] = pending[k]
        BY <2>10
      <4>2. pending[k] # pending[i]
        BY <2>1, <2>3, <4>1 DEF Plan!IsInjective
      <4> QED
        BY <1>0, <2>2, <2>6, <4>1, <4>2 DEF PlanInv, Queued
    <3> QED
      BY <2>11, <3>1 DEF Queued
  <2>13. TierByTier'
    <3>1. ASSUME NEW k \in DOMAIN pending, k # i
          PROVE  \E j \in DOMAIN pending' : pending'[j] = pending[k]
      <4>1. CASE k < i
        BY <2>4, <2>9, <4>1
      <4>2. CASE k > i
        <5>1. k - 1 \in DOMAIN pending' /\ ~(k - 1 < i) /\ (k - 1) + 1 = k
          BY <2>4, <2>9, <4>2
        <5> QED
          BY <2>4, <5>1
      <4> QED
        BY <2>9, <3>1, <4>1, <4>2
    <3>2. \A c \in Plan!Capability : tier[c] = current =>
            c \in Plan!Started' \/ \E j \in DOMAIN pending' : pending'[j] = c
      BY <2>2, <2>6, <3>1 DEF PlanInv, TierByTier
    <3>3. \A c \in Plan!Started' : tier[c] <= current
      BY <1>1, <2>5, <2>6 DEF PlanInv, TierByTier
    <3> QED
      BY <1>0, <2>2, <3>2, <3>3 DEF PlanInv, TierByTier
  <2> QED
    BY <1>0, <2>7, <2>8, <2>12, <2>13 DEF PlanInv
<1>5. CASE Plan!AdmitEnds
  <2>1. /\ stage = "admitting" /\ stage' = "waiting"
        /\ UNCHANGED <<current, pending, active, running, completed, report, results, failed,
                       verdict>>
    BY <1>5 DEF Plan!AdmitEnds
  <2>2. Plan!Started' = Plan!Started
    BY <2>1 DEF Plan!Started
  <2>3. PlanQueue' /\ Reported' /\ Queued'
    BY <1>0, <2>1, <2>2 DEF PlanInv, PlanQueue, Reported, Queued, Plan!IsInjective
  <2>4. active = {} => pending = <<>>
    <3>1. SUFFICES ASSUME active = {} PROVE pending = <<>>
      OBVIOUS
    <3>2. ~(Cardinality(active) >= limit)
      <4>1. Cardinality(active) = 0 /\ limit \in 1..MaxLimit /\ MaxLimit \in Nat
        BY <1>0, <3>1, FS_EmptySet DEF PlanKept, PlanCatalog, PlanConstants
      <4> QED
        BY <4>1
    <3>3. \A i \in DOMAIN pending : ~Plan!CanAdmit(i)
      BY <1>5, <3>2, PlanCardinality DEF Plan!AdmitEnds
    <3>4. \A i \in DOMAIN pending : Plan!CanAdmit(i)
      BY <3>1 DEF Plan!CanAdmit, Plan!Together
    <3>5. pending \in Seq(Plan!Capability) /\ DOMAIN pending = {}
      BY <3>3, <3>4 DEF PlanInv, PlanQueue
    <3>6. Len(pending) = 0
      BY <3>5
    <3> QED
      BY <3>5, <3>6
  <2>5. TierByTier'
    BY <1>0, <2>1, <2>2, <2>4 DEF PlanInv, TierByTier
  <2> QED
    BY <1>0, <2>3, <2>5 DEF PlanInv
<1>6. CASE Plan!Turn
  <2>1. /\ stage = "waiting" /\ stage' = IF failed' THEN "waiting" ELSE "admitting"
        /\ active' = active \ completed /\ completed' = {}
        /\ results' = [c \in Plan!Capability |-> IF c \in completed THEN report[c] ELSE results[c]]
        /\ failed' = (failed \/ \E c \in completed : report[c] = "failed")
        /\ UNCHANGED <<current, pending, running, report, verdict>>
    BY <1>6 DEF Plan!Turn
  <2>2. \A c \in completed : c \in Plan!Capability /\ report[c] # "none" /\ results[c] = "none"
    BY <1>1 DEF PlanInv, Reported
  <2>3. Plan!Started' = Plan!Started
    BY <1>1, <2>1, <2>2 DEF Plan!Started
  <2>4. PlanQueue' /\ Queued'
    BY <1>0, <2>1, <2>3 DEF PlanInv, PlanQueue, Queued, Plan!IsInjective
  <2>5. Reported'
    <3>1. \A c \in Plan!Capability : results'[c] = report[c]
      BY <2>1 DEF PlanInv, Reported
    <3>2. failed' => \E c \in Plan!Capability : results'[c] = "failed"
      BY <2>1, <2>2, <3>1 DEF PlanInv, Reported
    <3> QED
      BY <2>1, <3>1, <3>2 DEF PlanInv, Reported
  <2>6. \A c \in Plan!Capability : results[c] = "passed" => results'[c] = "passed"
    BY <2>1, <2>2
  <2>7. TierByTier'
    BY <1>0, <2>1, <2>3, <2>6 DEF PlanInv, TierByTier, PlanKept, PlanProgress
  <2> QED
    BY <1>0, <2>4, <2>5, <2>7 DEF PlanInv
<1>7. CASE Plan!TierEnds
  <2>1. stage = "waiting" /\ active = {} /\ verdict = "none" /\ completed = {} /\ running = {}
        /\ UNCHANGED <<active, running, completed, report, results, failed>>
    BY <1>1, <1>7 DEF Plan!TierEnds, PlanInv, TierByTier
  <2>2. Plan!Started' = Plan!Started /\ Plan!Passed' = Plan!Passed
    BY <2>1 DEF Plan!Started, Plan!Passed
  <2>3. \A c \in Plan!Capability : c \in Plan!Started <=> results[c] # "none"
    BY <2>1 DEF Plan!Started
  <2>4. ASSUME ~failed
        PROVE  \A c \in Plan!Capability : tier[c] <= current => results[c] = "passed"
    <3>1. \A c \in Plan!Capability : results[c] \in {"none", "passed"}
      BY <1>0, <2>4 DEF PlanKept, PlanProgress, Kept
    <3>2. pending = <<>>
      BY <2>1, <2>4 DEF PlanInv, TierByTier
    <3>3. \A c \in Plan!Capability : tier[c] = current => c \in Plan!Started
      BY <2>1, <3>2 DEF PlanInv, TierByTier
    <3>4. \A c \in Plan!Capability : tier[c] < current => results[c] = "passed"
      BY <2>1 DEF PlanInv, TierByTier
    <3> QED
      BY <1>1, <2>3, <3>1, <3>3, <3>4
  <2> DEFINE later == {t \in Plan!Tiers : t > current}
  <2>5. CASE failed \/ later = {}
    <3>1. stage' = "over" /\ verdict' = (IF Plan!Passed THEN "passed" ELSE "failed")
          /\ UNCHANGED <<current, pending>>
      BY <1>7, <2>5 DEF Plan!TierEnds
    <3>2. PlanQueue' /\ Reported' /\ Queued'
      BY <1>0, <2>1, <2>2, <3>1 DEF PlanInv, PlanQueue, Reported, Queued, Plan!IsInjective
    <3>3. ~failed => Plan!Passed
      <4>1. SUFFICES ASSUME ~failed PROVE Plan!Passed
        OBVIOUS
      <4>2. \A c \in Plan!Capability : ~(tier[c] > current)
        BY <2>5, <4>1 DEF Plan!Tiers
      <4> QED
        BY <1>1, <2>4, <4>1, <4>2 DEF Plan!Passed
    <3>4. \A c, d \in Plan!Capability :
            c \in Plan!Started /\ tier[d] < tier[c] => results[d] = "passed"
      <4>1. \A c, d \in Plan!Capability : c \in Plan!Started /\ tier[d] < tier[c] => tier[d] < current
        BY <1>1 DEF PlanInv, TierByTier
      <4> QED
        BY <2>1, <4>1 DEF PlanInv, TierByTier
    <3>5. TierByTier'
      BY <1>0, <2>1, <2>2, <3>1, <3>3, <3>4 DEF PlanInv, TierByTier
    <3> QED
      BY <1>0, <3>2, <3>5 DEF PlanInv
  <2>6. CASE ~failed /\ later # {}
    <3>1. later \in SUBSET (0..2)
      BY <1>1 DEF Plan!Tiers
    <3>2. Plan!Min(later) \in later /\ \A t \in later : Plan!Min(later) <= t
      BY <2>6, <3>1, SmallestTier
    <3>3. Plan!StartTier(Plan!Min(later)) /\ UNCHANGED verdict
      BY <1>7, <2>6 DEF Plan!TierEnds
    <3>4. Plan!Min(later) \in 0..2 /\ Plan!Min(later) > current
      BY <3>1, <3>2
    <3> HIDE DEF later
    <3>5. \A c \in Plan!Started : tier[c] < Plan!Min(later)
      BY <1>1, <3>4 DEF PlanInv, TierByTier
    <3>6. \A c \in Plan!Capability : tier[c] < Plan!Min(later) => results[c] = "passed"
      <4>1. ASSUME NEW c \in Plan!Capability, tier[c] < Plan!Min(later) PROVE tier[c] <= current
        <5>1. tier[c] \notin later
          BY <1>1, <3>2, <3>4, <4>1
        <5>2. ~(tier[c] > current)
          BY <5>1 DEF later, Plan!Tiers
        <5> QED
          BY <1>1, <5>2
      <4> QED
        BY <2>4, <2>6, <4>1
    <3> QED
      BY <1>0, <2>1, <2>6, <3>3, <3>4, <3>5, <3>6, TierBegins
  <2> QED
    BY <2>5, <2>6
<1>8. CASE \E c \in Plan!Capability : Plan!RunEnds(c)
  <2>1. PICK c \in Plan!Capability : Plan!RunEnds(c)
    BY <1>8
  <2>2. PICK r \in {"passed", "failed"} : report' = [report EXCEPT ![c] = r]
    BY <2>1 DEF Plan!RunEnds
  <2>3. /\ stage \in {"waiting", "over"} /\ c \in running
        /\ running' = running \ {c} /\ completed' = completed \cup {c}
        /\ UNCHANGED <<stage, current, pending, active, results, failed, verdict>>
    BY <2>1 DEF Plan!RunEnds
  <2>4. Plan!Started' = Plan!Started /\ Plan!Passed' = Plan!Passed
    BY <2>3 DEF Plan!Started, Plan!Passed
  <2>5. PlanQueue' /\ Queued'
    BY <1>0, <2>3, <2>4 DEF PlanInv, PlanQueue, Queued, Plan!IsInjective
  <2>6. Reported'
    <3>1. c \notin completed /\ report[c] = "none" /\ results[c] = "none"
      BY <1>0, <2>3 DEF PlanInv, PlanKept, Kept, Reported
    <3>2. report'[c] = r /\ \A d \in Plan!Capability \ {c} : report'[d] = report[d]
      BY <1>0, <2>2 DEF PlanKept, PlanProgress
    <3> QED
      BY <2>2, <2>3, <3>1, <3>2 DEF PlanInv, Reported
  <2>7. TierByTier'
    BY <1>0, <1>1, <2>3, <2>4 DEF PlanInv, TierByTier
  <2> QED
    BY <1>0, <2>5, <2>6, <2>7 DEF PlanInv
<1> QED
  BY <1>2, <1>3, <1>4, <1>5, <1>6, <1>7, <1>8 DEF Plan!Next, Plan!Loop

\* What the invariant gives.
LEMMA PlanRespects ==
  ASSUME PlanConstants, PlanInv
  PROVE  Plan!TypeOK /\ Plan!TiersInOrder /\ Plan!VerdictIsTheWhole
<1>1. PlanCatalog /\ PlanProgress /\ PlanQueue
  BY DEF PlanInv, PlanKept
<1>2. Plan!TypeOK
  BY <1>1, PlanTypes
<1>3. Plan!TiersInOrder
  <2>1. SUFFICES ASSUME NEW c \in Plan!Started, NEW d \in Plan!Capability, tier[d] < tier[c]
                 PROVE  results[d] = "passed"
    BY DEF Plan!TiersInOrder
  <2>2. c \in Plan!Capability
    BY <1>1, <2>1 DEF Plan!Started, PlanQueue
  <2>3. tier[c] \in 0..2 /\ tier[d] \in 0..2 /\ current \in 0..2
    BY <1>1, <2>2 DEF PlanCatalog, PlanProgress
  <2>4. CASE stage = "start"
    BY <2>1, <2>4 DEF PlanInv, TierByTier
  <2>5. CASE stage \in {"admitting", "waiting"}
    <3>1. tier[d] < current
      BY <2>1, <2>3 DEF PlanInv, TierByTier
    <3> QED
      BY <2>5, <3>1 DEF PlanInv, TierByTier
  <2>6. CASE stage = "over"
    BY <2>1, <2>2, <2>6 DEF PlanInv, TierByTier
  <2> QED
    BY <1>1, <2>4, <2>5, <2>6 DEF PlanProgress
<1>4. Plan!VerdictIsTheWhole
  <2>1. SUFFICES ASSUME verdict # "none" PROVE
          /\ running = {} /\ \A c \in Plan!Capability : results[c] = report[c]
          /\ verdict = "failed" <=> \E c \in Plan!Capability : report[c] = "failed"
    BY DEF Plan!VerdictIsTheWhole
  <2>2. stage = "over"
    BY <1>1, <2>1 DEF PlanInv, TierByTier, PlanProgress
  <2>3. active = {} /\ running = {} /\ completed = {}
    BY <2>2 DEF PlanInv, TierByTier, PlanKept, Kept
  <2>4. \A c \in Plan!Capability : results[c] = report[c]
    BY <2>3 DEF PlanInv, Reported
  <2>5. verdict = (IF Plan!Passed THEN "passed" ELSE "failed") /\ (~failed => Plan!Passed)
    BY <2>2 DEF PlanInv, TierByTier
  <2>6. failed <=> \E c \in Plan!Capability : results[c] = "failed"
    BY DEF PlanInv, Reported, PlanKept, Kept
  <2> QED
    BY <2>3, <2>4, <2>5, <2>6 DEF Plan!Passed
<1> QED
  BY <1>2, <1>3, <1>4

\* What is respected whatever the queues are.
LEMMA PlanKeeps == ASSUME PlanKept PROVE Plan!RunsTogether
<1>1. \A c, d \in running : tier[c] = tier[d] /\ (c # d => ~Plan!Conflict(c, d))
  BY DEF PlanKept, Kept, Plan!Together
<1>2. Cardinality(running) <= limit
  <2>1. IsFiniteSet(active) /\ Cardinality(active) <= limit /\ limit \in 1..MaxLimit
        /\ running \in SUBSET active
    BY DEF PlanKept, Kept, PlanCatalog
  <2>2. IsFiniteSet(running) /\ Cardinality(running) <= Cardinality(active)
    BY <2>1, FS_Subset
  <2>3. Cardinality(active) \in Nat /\ Cardinality(running) \in Nat
    BY <2>1, <2>2, FS_CardinalityType
  <2> QED
    BY <2>1, <2>2, <2>3
<1> QED
  BY <1>1, <1>2, PlanCardinality DEF Plan!RunsTogether

-----------------------------------------------------------------------------
(* The composition *)

\* What is asked of the constants.
ProcessesConstants == HostConstants /\ PlanConstants /\ LiveConstants

\* A step of the composition is one of each service, or leaves it alone.
LEMMA ProcessesSteps ==
  ASSUME [ProcessesNext]_processVars
  PROVE  /\ [Plan!Next]_(Plan!planVars) /\ [Live!Next]_(Live!liveVars)
         /\ [Workers!Next]_(Workers!workerVars) /\ [Host!Next]_(Host!hostVars)
         /\ [Machine!Next]_(Machine!machineVars)
<1>1. UNCHANGED planVars => UNCHANGED Plan!planVars
  BY DEF planVars, Plan!planVars, Plan!catalog
<1>2. UNCHANGED liveVars => UNCHANGED Live!liveVars
  BY DEF liveVars, Live!liveVars, Live!config, Live!shared, Live!manager, Live!thread
<1>3. UNCHANGED workerVars => UNCHANGED Workers!workerVars
  BY DEF workerVars, Workers!workerVars, Workers!adapter, Workers!worker
<1>4. UNCHANGED hostVars => UNCHANGED Host!hostVars
  BY DEF hostVars, Host!hostVars, Host!processes, Host!operators, Host!history
<1>5. UNCHANGED machineVars => UNCHANGED Machine!machineVars
  BY DEF machineVars, Machine!machineVars, Machine!process, Machine!shutdownVars
<1>6. CASE UNCHANGED processVars
  BY <1>1, <1>2, <1>3, <1>4, <1>5, <1>6 DEF processVars
<1>7. CASE ProcessesNext
  <2>1. CASE PlanOnly /\ Plan!Next
    BY <1>2, <1>3, <1>4, <1>5, <2>1 DEF PlanOnly
  <2>2. CASE LiveOnly /\ Live!Next
    BY <1>1, <1>3, <1>4, <1>5, <2>2 DEF LiveOnly
  <2>3. CASE WorkersOnly /\ Workers!Next
    BY <1>1, <1>2, <1>4, <1>5, <2>3 DEF WorkersOnly
  <2>4. CASE HostOnly /\ Host!Next
    BY <1>1, <1>2, <1>3, <1>5, <2>4 DEF HostOnly
  <2>5. CASE MachineOnly /\ Machine!Next
    BY <1>1, <1>2, <1>3, <1>4, <2>5 DEF MachineOnly
  <2> QED
    BY <1>7, <2>1, <2>2, <2>3, <2>4, <2>5 DEF ProcessesNext
<1> QED
  BY <1>6, <1>7

\* The behaviours of the composition are behaviours of each service.
LEMMA ProcessesImplement ==
  ProcessesSpec => /\ Plan!Init /\ [][Plan!Next]_(Plan!planVars)
                   /\ Live!Init /\ [][Live!Next]_(Live!liveVars)
                   /\ Workers!Init /\ [][Workers!Next]_(Workers!workerVars)
                   /\ Host!Init /\ [][Host!Next]_(Host!hostVars)
                   /\ Machine!Init /\ [][Machine!Next]_(Machine!machineVars)
<1>1. ProcessesInit => Plan!Init /\ Live!Init /\ Workers!Init /\ Host!Init /\ Machine!Init
  BY DEF ProcessesInit
<1>2. [ProcessesNext]_processVars =>
        /\ [Plan!Next]_(Plan!planVars) /\ [Live!Next]_(Live!liveVars)
        /\ [Workers!Next]_(Workers!workerVars) /\ [Host!Next]_(Host!hostVars)
        /\ [Machine!Next]_(Machine!machineVars)
  BY ProcessesSteps
<1> QED
  BY <1>1, <1>2, PTL DEF ProcessesSpec

\* LiveInv holds throughout.
THEOREM LiveInvariance == ASSUME ProcessesConstants PROVE ProcessesSpec => []LiveInv
<1>1. Live!Init => LiveInv
  BY LiveInit DEF ProcessesConstants
<1>2. LiveInv /\ [Live!Next]_(Live!liveVars) => LiveInv'
  BY LiveStep DEF ProcessesConstants
<1> QED
  BY <1>1, <1>2, ProcessesImplement, PTL

\* A service runs under the leases of its session and in its worktree, a lease
\* belongs to a session or was lost by a transaction that failed, and a release
\* that ends without an error leaves nothing of its scope and nothing starting in it.
THEOREM LiveSessionsAreOwned ==
  ASSUME ProcessesConstants PROVE ProcessesSpec => []SessionsAreOwned
<1>1. LiveInv => SessionsAreOwned
  BY LiveOwned DEF ProcessesConstants, SessionsAreOwned
<1> QED
  BY <1>1, LiveInvariance, PTL

\* HostInv holds throughout.
THEOREM HostInvariance == ASSUME ProcessesConstants PROVE ProcessesSpec => []HostInv
<1>1. Host!Init => HostInv
  BY HostInvInit DEF ProcessesConstants
<1>2. HostInv /\ [Host!Next]_(Host!hostVars) => HostInv'
  BY HostInvStep DEF ProcessesConstants
<1> QED
  BY <1>1, <1>2, ProcessesImplement, PTL

\* The remote host has one supervisor unless a lock file was removed that had not
\* been found stale, and a supervisor that is not killed takes its host with it.
THEOREM RemoteHostIsSupervised ==
  ASSUME ProcessesConstants PROVE ProcessesSpec => []HostIsSupervised
<1>1. HostInv => Host!OneSupervisor
  <2>1. SUFFICES ASSUME HostInv, ~raced, NEW s \in Host!Supervisor, NEW t \in Host!Supervisor,
                        s # t, Host!Holds(s), Host!Holds(t)
                 PROVE  FALSE
    BY DEF Host!OneSupervisor, HostInv, HostTyped, HostHistory
  <2>2. hostPc[s] \in HostPlace /\ hostPc[t] \in HostPlace
    BY <2>1 DEF HostInv, HostTyped, HostProcesses
  <2>3. hostPc[s] \in Holding
    BY <2>1, <2>2 DEF Host!Holds, Host!Alive, Holding, HostPlace
  <2>4. hostPc[t] \in Holding
    BY <2>1, <2>2 DEF Host!Holds, Host!Alive, Holding, HostPlace
  <2> QED
    BY <2>1, <2>3, <2>4 DEF HostInv, LockHasOwner
<1>2. HostInv => Host!NoHostIsLeft
  BY DEF HostInv, HostsFit, HostOver, Host!NoHostIsLeft
<1>3. HostInv => HostIsSupervised
  BY <1>1, <1>2 DEF HostIsSupervised, Host!HostIsSupervised
<1> QED
  BY <1>3, HostInvariance, PTL

\* MachineInv holds throughout.
THEOREM MachineInvariance == ProcessesSpec => []MachineInv
<1>1. Machine!Init => MachineInv
  BY DEF Machine!Init, MachineInv, Machine!TypeOK, MachinePlaces, Machine!EveryoneIsLimited,
         MachineShuts, Machine!Busy, ProcessGone
<1> QED
  BY <1>1, MachineInvStep, ProcessesImplement, PTL

\* No process of a machine action is forgotten while it is busy, none runs without
\* a limit, and what a shutdown says of the groups is true.
THEOREM MachineProcessesAreKept == ProcessesSpec => []ProcessesAreKept
<1>1. MachineInv => ProcessesAreKept
  <2> SUFFICES ASSUME MachineInv PROVE Machine!ProcessesAreKept
    BY DEF ProcessesAreKept
  <2>1. Machine!NoneIsForgotten
    BY DEF MachineInv, Machine!TypeOK, MachinePlaces, Machine!NoneIsForgotten, Machine!Running
  <2>2. Machine!EveryoneIsLimited
    BY DEF MachineInv
  <2>3. Machine!ShutdownIsVerified
    BY DEF MachineInv, Machine!TypeOK, MachineShuts, Machine!ShutdownIsVerified, ProcessGone
  <2> QED
    BY <2>1, <2>2, <2>3 DEF Machine!ProcessesAreKept
<1> QED
  BY <1>1, MachineInvariance, PTL

\* No capability of the final validation starts once one has reported a failure,
\* whatever the queues of its tiers are.
THEOREM ValidationStopsAtFailure ==
  ASSUME ProcessesConstants PROVE ProcessesSpec => NothingStartsAfterFailure
<1>1. Plan!Init => PlanKept
  BY PlanInit DEF ProcessesConstants, PlanInv
<1>2. PlanKept /\ [Plan!Next]_(Plan!planVars) =>
        /\ PlanKept'
        /\ [(\E c \in Plan!Capability : report[c] = "failed") =>
              Plan!Started' \subseteq Plan!Started]_(Plan!planVars)
  BY KeptStep DEF ProcessesConstants
<1> QED
  BY <1>1, <1>2, ProcessesImplement, PTL
     DEF NothingStartsAfterFailure, Plan!NothingStartsAfterFailure

\* Capabilities that conflict never run together, and no more run than the limit
\* allows, whatever the queues are.
THEOREM ValidationRunsTogether ==
  ASSUME ProcessesConstants PROVE ProcessesSpec => []Plan!RunsTogether
<1>1. Plan!Init => PlanKept
  BY PlanInit DEF ProcessesConstants, PlanInv
<1>2. PlanKept /\ [Plan!Next]_(Plan!planVars) => PlanKept'
  BY KeptStep DEF ProcessesConstants
<1>3. PlanKept => Plan!RunsTogether
  BY PlanKeeps
<1> QED
  BY <1>1, <1>2, <1>3, ProcessesImplement, PTL

\* PlanInv holds throughout when every queue is of its tier, in whatever order.
THEOREM PlanInvariance ==
  ASSUME ProcessesConstants PROVE ProcessesSpec /\ []Plan!QueueIsTheTier => []PlanInv
<1>1. Plan!Init => PlanInv
  BY PlanInit DEF ProcessesConstants
<1>2. PlanInv /\ [Plan!Next]_(Plan!planVars) /\ Plan!QueueIsTheTier' => PlanInv'
  BY PlanStep DEF ProcessesConstants
<1> QED
  BY <1>1, <1>2, ProcessesImplement, PTL

\* Then tiers come one after the other, what runs goes together, and the verdict
\* is about every capability.
THEOREM ValidationRespectsPlan ==
  ASSUME ProcessesConstants PROVE ProcessesSpec /\ []Plan!QueueIsTheTier => []PlanIsRespected
<1>1. PlanInv /\ Plan!QueueIsTheTier => PlanIsRespected
  BY PlanRespects, PlanKeeps DEF ProcessesConstants, PlanInv, PlanIsRespected,
     Plan!PlanIsRespected
<1> QED
  BY <1>1, PlanInvariance, PTL

\* The variables of the five services keep their types; those of the plan when
\* every queue is of its tier.
THEOREM ProcessesTypes ==
  ASSUME ProcessesConstants PROVE ProcessesSpec /\ []Plan!QueueIsTheTier => []TypeOK
<1>1. Workers!TypeOK /\ [Workers!Next]_(Workers!workerVars) => Workers!TypeOK'
  BY WorkerTypeStep
<1>2. LiveInv => Live!TypeOK
  BY LiveOwned DEF ProcessesConstants
<1>3. HostInv => Host!TypeOK
  BY HostTypedIsTypeOK DEF HostInv
<1>4. MachineInv => Machine!TypeOK
  BY DEF MachineInv
<1>5. PlanInv => Plan!TypeOK
  BY PlanRespects DEF ProcessesConstants
<1>6. LiveInv /\ HostInv /\ MachineInv /\ PlanInv /\ Workers!TypeOK => TypeOK
  BY <1>2, <1>3, <1>4, <1>5 DEF TypeOK
<1> QED
  BY <1>1, <1>6, WorkerTypeInit, LiveInvariance, HostInvariance, MachineInvariance, PlanInvariance,
     ProcessesImplement, PTL

=============================================================================
