----------------------- MODULE MissionExecution_proofs -----------------------
(***************************************************************************)
(* What MissionExecution preserves for any missions, tasks, waves,         *)
(* conflicts and bounds.                                                   *)
(***************************************************************************)
EXTENDS MissionExecution, FiniteSetTheorems, TLAPS

-----------------------------------------------------------------------------
(* The inductive invariant, of each mission *)

\* Waves are integrated in order.
Placed(m) ==
  /\ wave[m] >= 1
  /\ \A t \in TasksOf(m) :
       /\ WaveOf[t] < wave[m] => status[t] = "done"
       /\ WaveOf[t] > wave[m] =>
            \/ status[t] = "planned"
            \/ status[t] = "cancelled" /\ m \in cancelled

Finished(m) == m \in complete => \A t \in TasksOf(m) : status[t] = "done"

Executes == {"prepare", "work", "record", "discard", "record discarded"}

\* A worker belongs to an execution, which no other call disturbs, except that
\* it can be cancelled.
AtWork(m) ==
  \A t \in TasksOf(m) : worker[t] # "none" =>
    /\ WaveOf[t] = wave[m] /\ pc[m] \in Executes /\ ~work[m].result
    /\ \/ status[t] \in {"executing", "cancelling"}
       \/ status[t] = "cancelled" /\ m \in cancelled

\* The call that integrates a task: an execution, with its worker, or a call
\* about an external result.
Integrating(m) ==
  LET t == work[m].task
  IN /\ t \in TasksOf(m) /\ WaveOf[t] = wave[m]
     /\ ~work[m].result => worker[t] = "succeeded"
     /\ work[m].result => status[t] \in {"dispatched", "interrupted", "planned", "cancelled"}

Caller(m) ==
  /\ pc[m] \in {"pick", "record", "record result", "discard", "record discarded"} => Integrating(m)
  /\ pc[m] \in {"pick", "record result"} => work[m].result
  /\ pc[m] \in {"reserve", "admit", "prepare", "work", "record", "record discarded"} =>
       ~work[m].result
  /\ pc[m] = "prepare" =>
       /\ work[m].admitted \subseteq TasksOf(m)
       /\ \A t \in TasksOf(m) : worker[t] # "none" => worker[t] = "working" /\ work[m].managed

\* What a reset takes away.
Picked(m) ==
  pc[m] \in {"record", "record result", "discard"} =>
    branch[m] = IF tree[work[m].task] = "committed"
                THEN Append(work[m].base, work[m].task) ELSE work[m].base

\* The branch has tasks of the mission that are not of a later wave.
Follows(m) ==
  \A i \in DOMAIN branch[m] : branch[m][i] \in TasksOf(m) /\ WaveOf[branch[m][i]] <= wave[m]

Recorded(m) ==
  \A t \in commits \cap TasksOf(m) :
    status[t] = "done" /\ \E i \in DOMAIN branch[m] : branch[m][i] = t

Accounted(m) ==
  \A i, j \in DOMAIN branch[m] :
    /\ branch[m][i] \in commits \cup lost \cup Unrecorded(m)
    /\ i # j /\ branch[m][j] = branch[m][i] => branch[m][i] \in lost

Ordered(m) ==
  \A i, j \in DOMAIN branch[m] : i < j => WaveOf[branch[m][i]] <= WaveOf[branch[m][j]]

Waves(m) == Placed(m) /\ Finished(m)
Calls(m) == AtWork(m) /\ Caller(m)
Commits(m) == Picked(m) /\ Follows(m) /\ Recorded(m) /\ Accounted(m) /\ Ordered(m)

MissionInv(m) == Waves(m) /\ Calls(m) /\ Commits(m)

ExecutionInv == TypeOK /\ \A m \in Mission : MissionInv(m)

\* Leases never conflict, those of finished tasks included: whoever grants one
\* clears these first.
Disjoint == \A t, u \in leased : t # u => ~Conflict(t, u)

-----------------------------------------------------------------------------
(* Types *)

LEMMA Reflexive == \A n \in Nat : n <= n
  OBVIOUS

\* The last index of a longer sequence, after all the others.
Extends(long, s, x) ==
  \E last \in Nat :
    /\ last \notin DOMAIN s /\ DOMAIN long = DOMAIN s \cup {last}
    /\ long[last] = x
    /\ \A i \in DOMAIN s : long[i] = s[i] /\ i < last /\ ~(last < i)
    /\ ~(last < last)

LEMMA AppendExtends ==
  ASSUME NEW S, NEW s \in Seq(S), NEW x \in S
  PROVE  Extends(Append(s, x), s, x)
<1>1. /\ Len(s) \in Nat /\ DOMAIN s = 1..Len(s) /\ DOMAIN Append(s, x) = 1..(Len(s) + 1)
      /\ Append(s, x)[Len(s) + 1] = x
      /\ \A i \in 1..Len(s) : Append(s, x)[i] = s[i]
  OBVIOUS
<1>2. ASSUME NEW n \in Nat
      PROVE  /\ n + 1 \in Nat /\ n + 1 \notin 1..n /\ 1..(n + 1) = (1..n) \cup {n + 1}
             /\ \A i \in 1..n : i < n + 1 /\ ~(n + 1 < i)
             /\ ~(n + 1 < n + 1)
  OBVIOUS
<1> QED
  BY <1>1, <1>2 DEF Extends

LEMMA Later ==
  \A n \in Nat, k \in Nat :
    /\ n <= n + 1 /\ (n >= 1 => n + 1 >= 1)
    /\ k < n + 1 => k < n \/ k = n
    /\ k > n + 1 => k > n
  OBVIOUS

LEMMA Successor == \A n \in Nat : n + 1 \in Nat
  OBVIOUS

LEMMA NoWorkType == NoWork \in Work
  BY DEF NoWork, Work

LEMMA TypeInit == Init => TypeOK
<1> SUFFICES ASSUME Init PROVE TypeOK
  OBVIOUS
<1>1. pc \in [Mission -> Step] /\ work \in [Mission -> Work]
  BY NoWorkType DEF Init, Step
<1>2. status \in [Task -> Status] /\ tree \in [Task -> Tree] /\ worker \in [Task -> WorkerState]
  BY DEF Init, Status, Tree, WorkerState
<1>3. branch \in [Mission -> Seq(Task)]
  BY DEF Init
<1> QED
  BY <1>1, <1>2, <1>3 DEF Init, TypeOK

\* Whoever goes to a step and knows something keeps the types of the calls.
LEMMA CallTypes ==
  ASSUME TypeOK, NEW m \in Mission, NEW step \in Step, NEW known \in Work,
         Goto(m, step) \/ pc' = pc, Knows(m, known) \/ work' = work
  PROVE  pc' \in [Mission -> Step] /\ work' \in [Mission -> Work]
  BY DEF TypeOK, Goto, Knows

LEMMA StatusType ==
  ASSUME TypeOK, NEW t \in Task, NEW s \in Status, SetStatus(t, s)
  PROVE  status' \in [Task -> Status]
  BY DEF TypeOK, SetStatus

LEMMA ForgetType ==
  ASSUME TypeOK, NEW t \in Task, Forget(t)
  PROVE  worker' \in [Task -> WorkerState]
  BY DEF TypeOK, Forget, WorkerState

LEMMA CommitTreeType ==
  ASSUME TypeOK, NEW t \in Task, CommitTree(t)
  PROVE  tree' \in [Task -> Tree]
  BY DEF TypeOK, CommitTree, Tree

LEMMA TurnType ==
  ASSUME TypeOK, Turn \/ turns' = turns
  PROVE  turns' \in Nat
  BY DEF TypeOK, Turn

LEMMA ReconciledType ==
  ASSUME TypeOK, NEW m \in Mission
  PROVE  Reconciled(m, status') \subseteq Mission
  BY DEF TypeOK, Reconciled

LEMMA DoneTypes ==
  ASSUME TypeOK, NEW t \in Task, Done(t)
  PROVE  /\ status' \in [Task -> Status] /\ tree' \in [Task -> Tree] /\ commits' \subseteq Task
<1>1. status' \in [Task -> Status]
  BY StatusType DEF Done, Status
<1>2. tree' \in [Task -> Tree]
  BY DEF Done, TypeOK, Tree
<1> QED
  BY <1>1, <1>2 DEF Done, TypeOK

LEMMA PickTypes ==
  ASSUME TypeOK, NEW m \in Mission, NEW t \in Task, NEW step \in Step, PickInto(m, t, step)
  PROVE  /\ branch' \in [Mission -> Seq(Task)]
         /\ pc' \in [Mission -> Step] /\ work' \in [Mission -> Work]
<1>0. branch[m] \in Seq(Task) /\ work[m] \in Work
  BY DEF TypeOK
<1>1. Append(branch[m], t) \in Seq(Task)
  BY <1>0
<1>2. branch' \in [Mission -> Seq(Task)]
  BY <1>0, <1>1 DEF PickInto, TypeOK
<1>3. [work[m] EXCEPT !.task = t, !.base = branch[m]] \in Work
  BY <1>0 DEF Work
<1> QED
  BY <1>2, <1>3, CallTypes DEF PickInto

LEMMA UnsuccessfulTypes ==
  ASSUME TypeOK, NEW m \in Mission, NEW t \in Task, Unsuccessful(m, t)
  PROVE  status' \in [Task -> Status] /\ worker' \in [Task -> WorkerState]
<1>1. status' \in [Task -> Status]
  BY StatusType DEF Unsuccessful, Status
<1> QED
  BY <1>1, ForgetType DEF Unsuccessful

LEMMA TypeReservation ==
  ASSUME TypeOK, NEW m \in Mission,
         \/ \E runWorkers \in RunWorkers[m] : Execute(m, runWorkers)
         \/ Reserve(m) \/ Admit(m) \/ NothingToAdmit(m)
  PROVE  TypeOK'
<1>0. work[m] \in Work
  BY DEF TypeOK
<1>1. ASSUME NEW runWorkers \in RunWorkers[m], Execute(m, runWorkers)
      PROVE  TypeOK'
  <2>0. runWorkers \in BOOLEAN
    BY ExecutionAssumption
  <2>1. [NoWork EXCEPT !.managed = runWorkers] \in Work
    BY <2>0, NoWorkType DEF Work
  <2>2. pc' \in [Mission -> Step] /\ work' \in [Mission -> Work]
    BY <1>1, <2>1, CallTypes DEF Execute, Step
  <2> QED
    BY <1>1, <2>2 DEF Execute, TypeOK, tasks, missions, git
<1>2. CASE Reserve(m)
  <2>1. PICK selected \in SUBSET {t \in Planned(m) : Reservable(m, t)} :
          /\ leased' = ActiveLeases \cup selected
          /\ Knows(m, [work[m] EXCEPT !.reserved = selected])
    BY <1>2 DEF Reserve
  <2>2. selected \subseteq Task
    BY DEF Planned, WaveTasks, TasksOf
  <2>3. leased' \subseteq Task
    BY <2>1, <2>2 DEF ActiveLeases, TypeOK
  <2>4. [work[m] EXCEPT !.reserved = selected] \in Work
    BY <1>0, <2>2 DEF Work
  <2>5. PICK step \in Step : Goto(m, step)
    BY <1>2 DEF Reserve, Step
  <2>6. pc' \in [Mission -> Step] /\ work' \in [Mission -> Work]
    BY <2>1, <2>4, <2>5, CallTypes
  <2> QED
    BY <1>2, <2>3, <2>6 DEF Reserve, TypeOK, missions, git
<1>3. CASE Admit(m)
  <2>1. PICK selected \in SUBSET Planned(m) :
          /\ status' = [t \in Task |-> IF t \in selected THEN "admitted" ELSE status[t]]
          /\ managed' = IF work[m].managed THEN managed \cup selected ELSE managed \ selected
          /\ Knows(m, [work[m] EXCEPT !.admitted = selected])
          /\ Goto(m, IF selected = {} THEN "reconcile" ELSE "prepare")
    BY <1>3 DEF Admit
  <2>2. selected \subseteq Task
    BY DEF Planned, WaveTasks, TasksOf
  <2>3. status' \in [Task -> Status]
    BY <2>1 DEF TypeOK, Status
  <2>4. [work[m] EXCEPT !.admitted = selected] \in Work
    BY <1>0, <2>2 DEF Work
  <2>5. pc' \in [Mission -> Step] /\ work' \in [Mission -> Work]
    BY <2>1, <2>4, CallTypes DEF Step
  <2>6. turns' \in Nat
    BY <1>3, TurnType DEF Admit
  <2> QED
    BY <1>3, <2>1, <2>2, <2>3, <2>5, <2>6 DEF Admit, TypeOK, missions, git
<1>4. CASE NothingToAdmit(m)
  <2>1. PICK step \in Step : Goto(m, step)
    BY <1>4 DEF NothingToAdmit, Step
  <2>2. work' = work
    BY <1>4 DEF NothingToAdmit
  <2>3. pc' \in [Mission -> Step] /\ work' \in [Mission -> Work]
    BY <2>1, <2>2, NoWorkType, CallTypes
  <2> QED
    BY <1>4, <2>3 DEF NothingToAdmit, TypeOK, tasks, git
<1> QED
  BY <1>1, <1>2, <1>3, <1>4

LEMMA TypeWorkers ==
  ASSUME TypeOK, NEW m \in Mission, NEW t \in Task,
         \/ Dispatch(m, t) \/ PrepareFails(m, t)
         \/ WorkerSucceeds(m, t) \/ WorkerEnds(m, t)
         \/ RecordFailure(m, t) \/ Pick(m, t) \/ PickFails(m, t)
  PROVE  TypeOK'
<1>0. work[m] \in Work
  BY DEF TypeOK
<1>1. ASSUME NEW running \in BOOLEAN, Prepared(m, t, running)
      PROVE  pc' \in [Mission -> Step] /\ work' \in [Mission -> Work]
  <2>1. [work[m] EXCEPT !.admitted = @ \ {t}] \in Work
    BY <1>0 DEF Work
  <2>2. PICK step \in Step : Goto(m, step)
    BY <1>1 DEF Prepared, Step
  <2> QED
    BY <1>1, <2>1, <2>2, CallTypes DEF Prepared
<1>2. CASE Dispatch(m, t)
  <2>1. status' \in [Task -> Status]
    BY <1>2, StatusType DEF Dispatch, Status
  <2>2. tree' \in [Task -> Tree] /\ worker' \in [Task -> WorkerState]
    BY <1>2 DEF Dispatch, TypeOK, Tree, WorkerState
  <2>3. work[m].managed \in BOOLEAN
    BY <1>0 DEF Work
  <2> QED
    BY <1>1, <1>2, <2>1, <2>2, <2>3 DEF Dispatch, TypeOK, missions
<1>3. CASE PrepareFails(m, t)
  <2>1. status' \in [Task -> Status] /\ tree' \in [Task -> Tree]
    BY <1>3 DEF PrepareFails, TypeOK, Status, Tree
  <2>2. turns' \in Nat
    BY <1>3, TurnType DEF PrepareFails
  <2> QED
    BY <1>1, <1>3, <2>1, <2>2 DEF PrepareFails, TypeOK, missions
<1>4. CASE WorkerSucceeds(m, t)
  <2>1. worker' \in [Task -> WorkerState]
    BY <1>4 DEF WorkerSucceeds, TypeOK, WorkerState
  <2> QED
    BY <1>4, <2>1, CommitTreeType DEF WorkerSucceeds, TypeOK, tasks, missions, calls
<1>5. CASE WorkerEnds(m, t)
  <2>1. worker' \in [Task -> WorkerState]
    BY <1>5 DEF WorkerEnds, TypeOK, WorkerState
  <2>2. turns' \in Nat
    BY <1>5, TurnType DEF WorkerEnds
  <2> QED
    BY <1>5, <2>1, <2>2 DEF WorkerEnds, TypeOK, tasks, missions, git, calls
<1>6. CASE RecordFailure(m, t)
  BY <1>6, UnsuccessfulTypes DEF RecordFailure, TypeOK, missions, git, calls
<1>7. CASE Pick(m, t)
  <2>1. "record" \in Step
    BY DEF Step
  <2> QED
    BY <1>7, <2>1, PickTypes DEF Pick, TypeOK, tasks, missions
<1>8. CASE PickFails(m, t)
  <2>1. turns' \in Nat
    BY <1>8, TurnType DEF PickFails
  <2> QED
    BY <1>8, <2>1, UnsuccessfulTypes DEF PickFails, TypeOK, missions, git, calls
<1> QED
  BY <1>2, <1>3, <1>4, <1>5, <1>6, <1>7, <1>8

\* A call that has a task, while it integrates it.
LEMMA TypeIntegration ==
  ASSUME TypeOK, NEW m \in Mission,
         pc[m] \in {"pick", "record", "record result", "discard", "record discarded"} =>
           work[m].task \in Task,
         \/ Record(m) \/ Discard(m) \/ RecordDiscarded(m) \/ AdvanceWave(m) \/ Reconcile(m)
         \/ PickResult(m) \/ RecordResult(m) \/ Drop(m)
  PROVE  TypeOK'
<1>0. work[m] \in Work /\ {"work", "discard", "drop", "record discarded", "record result",
                           "reconcile", "idle", "advance"} \subseteq Step
  BY DEF TypeOK, Step
<1>1. [work[m] EXCEPT !.task = NoTask] \in Work
  BY <1>0 DEF Work
<1>2. CASE Record(m)
  <2>1. CASE m \in cancelled
    <3>1. Goto(m, "discard") /\ UNCHANGED <<status, commits, tree, worker, work>>
      BY <1>2, <2>1 DEF Record
    <3>2. pc' \in [Mission -> Step] /\ work' \in [Mission -> Work]
      BY <1>0, <3>1, NoWorkType, CallTypes
    <3> QED
      BY <1>2, <3>1, <3>2 DEF Record, TypeOK, missions
  <2>2. CASE m \notin cancelled
    <3>1. work[m].task \in Task /\ Done(work[m].task) /\ Forget(work[m].task)
      BY <1>2, <2>2 DEF Record
    <3>2. pc' \in [Mission -> Step] /\ work' \in [Mission -> Work]
      BY <1>0, <1>1, <1>2, <2>2, CallTypes DEF Record
    <3> QED
      BY <1>2, <3>1, <3>2, DoneTypes, ForgetType DEF Record, TypeOK, missions
  <2> QED
    BY <2>1, <2>2
<1>3. CASE Discard(m)
  <2>1. work[m].base \in Seq(Task)
    BY <1>0 DEF Work
  <2>2. branch' \in [Mission -> Seq(Task)]
    BY <1>3, <2>1 DEF Discard, TypeOK
  <2>3. pc' \in [Mission -> Step] /\ work' \in [Mission -> Work]
    BY <1>0, <1>3, NoWorkType, CallTypes DEF Discard
  <2> QED
    BY <1>3, <2>2, <2>3 DEF Discard, TypeOK, tasks, missions
<1>4. CASE RecordDiscarded(m)
  <2>1. work[m].task \in Task
    BY <1>4 DEF RecordDiscarded
  <2>2. status' \in [Task -> Status]
    BY <1>4, <2>1, StatusType DEF RecordDiscarded, Status
  <2>3. worker' \in [Task -> WorkerState]
    BY <1>4, <2>1, ForgetType DEF RecordDiscarded
  <2>4. pc' \in [Mission -> Step] /\ work' \in [Mission -> Work]
    BY <1>0, <1>1, <1>4, CallTypes DEF RecordDiscarded
  <2> QED
    BY <1>4, <2>2, <2>3, <2>4 DEF RecordDiscarded, TypeOK, missions, git
<1>5. CASE AdvanceWave(m)
  <2>1. wave' \in [Mission -> Nat]
    <3>1. wave[m] \in Nat /\ wave \in [Mission -> Nat]
      BY DEF TypeOK
    <3> QED
      BY <1>5, <3>1, Successor DEF AdvanceWave
  <2>2. pc' \in [Mission -> Step] /\ work' \in [Mission -> Work]
    BY <1>0, <1>5, NoWorkType, CallTypes DEF AdvanceWave
  <2> QED
    BY <1>5, <2>1, <2>2 DEF AdvanceWave, TypeOK, tasks, git
<1>6. CASE Reconcile(m) \/ Drop(m)
  <2>1. pc' \in [Mission -> Step] /\ work' \in [Mission -> Work]
    BY <1>0, <1>6, NoWorkType, CallTypes DEF Reconcile, Drop
  <2> QED
    BY <1>6, <2>1 DEF Reconcile, Drop, TypeOK, missions, git
<1>7. CASE PickResult(m)
  <2>1. work[m].task \in Task
    BY <1>7 DEF PickResult
  <2> QED
    BY <1>0, <1>7, <2>1, PickTypes DEF PickResult, TypeOK, tasks, missions
<1>8. CASE RecordResult(m)
  <2>1. work[m].task \in Task /\ work' = work
    BY <1>8 DEF RecordResult
  <2>2. pc' \in [Mission -> Step] /\ work' \in [Mission -> Work]
    BY <1>0, <1>8, NoWorkType, CallTypes DEF RecordResult
  <2>3. /\ status' \in [Task -> Status] /\ tree' \in [Task -> Tree] /\ commits' \subseteq Task
        /\ interruption' \subseteq Mission
    <3>1. CASE UNCHANGED <<status, commits, tree, interruption>>
      BY <3>1 DEF TypeOK
    <3>2. CASE Done(work[m].task) /\ interruption' = Reconciled(m, status')
      BY <2>1, <3>2, DoneTypes, ReconciledType
    <3> QED
      BY <1>8, <3>1, <3>2 DEF RecordResult
  <2> QED
    BY <1>8, <2>2, <2>3 DEF RecordResult, TypeOK
<1> QED
  BY <1>2, <1>3, <1>4, <1>5, <1>6, <1>7, <1>8

LEMMA TypeResult ==
  ASSUME TypeOK, NEW m \in Mission, NEW t \in Task,
         CommitResult(m, t) \/ ResumeWorker(m, t) \/ RefuseResult(m, t)
  PROVE  TypeOK'
<1>0. branch[m] \in Seq(Task) /\ {"pick", "drop"} \subseteq Step
  BY DEF TypeOK, Step
<1>1. ResultCall(m, t) \in Work
  BY <1>0, NoWorkType DEF ResultCall, Work
<1>2. CASE CommitResult(m, t)
  <2>1. pc' \in [Mission -> Step] /\ work' \in [Mission -> Work]
    BY <1>0, <1>1, <1>2, CallTypes DEF CommitResult
  <2> QED
    BY <1>2, <2>1, CommitTreeType DEF CommitResult, TypeOK, tasks, missions
<1>3. CASE ResumeWorker(m, t)
  <2>1. pc' \in [Mission -> Step] /\ work' \in [Mission -> Work]
    BY <1>0, <1>1, <1>3, CallTypes DEF ResumeWorker
  <2>2. status' \in [Task -> Status]
    BY <1>3, StatusType DEF ResumeWorker, Status
  <2> QED
    BY <1>3, <2>1, <2>2, ReconciledType DEF ResumeWorker, TypeOK, git
<1>4. CASE RefuseResult(m, t)
  BY <1>4 DEF RefuseResult, TypeOK, missions, git, calls
<1> QED
  BY <1>2, <1>3, <1>4

LEMMA TypeOthers ==
  ASSUME TypeOK, NEW m \in Mission,
         pc[m] \in {"record", "record result", "discard"} => work[m].task \in Task,
         \/ CancelMission(m) \/ ReconcileCancelled(m)
         \/ ResumeMission(m) \/ ReconcileResumed(m)
         \/ Fails(m) \/ Crash(m) \/ Forgets
         \/ \E t \in Task : RetryWorker(t) \/ DropRetried(t) \/ CancelWorker(t)
  PROVE  TypeOK'
<1>0. {"drop", "reconcile", "reconcile resumed", "idle"} \subseteq Step
  BY DEF Step
<1>1. CASE CancelMission(m)
  <2>1. status' \in [Task -> Status]
    BY <1>1 DEF CancelMission, TypeOK, Status
  <2> QED
    BY <1>1, <2>1, TurnType DEF CancelMission, TypeOK, git, calls
<1>2. CASE ReconcileCancelled(m)
  BY <1>2 DEF ReconcileCancelled, Unleased, TypeOK, missions, git, calls
<1>3. CASE ResumeMission(m)
  <2>1. status' \in [Task -> Status]
    BY <1>3 DEF ResumeMission, TypeOK, Status
  <2>2. pc' \in [Mission -> Step] /\ work' \in [Mission -> Work]
    BY <1>0, <1>3, NoWorkType, CallTypes DEF ResumeMission
  <2> QED
    BY <1>3, <2>1, <2>2, ReconciledType DEF ResumeMission, TypeOK, git
<1>4. CASE ReconcileResumed(m)
  <2>1. pc' \in [Mission -> Step] /\ work' \in [Mission -> Work]
    BY <1>0, <1>4, NoWorkType, CallTypes DEF ReconcileResumed
  <2> QED
    BY <1>4, <2>1 DEF ReconcileResumed, Unleased, TypeOK, missions, git
<1>5. CASE Fails(m) \/ Crash(m)
  <2>1. PICK step \in Step : Goto(m, step)
    BY <1>0, <1>5 DEF Fails, Crash
  <2>2. pc' \in [Mission -> Step] /\ work' \in [Mission -> Work]
    BY <1>5, <2>1, NoWorkType, CallTypes DEF Fails, Crash
  <2>3. worker' \in [Task -> WorkerState]
    BY <1>5 DEF Fails, Crash, Abandon, TypeOK, WorkerState
  <2>4. lost' \subseteq Task
    BY <1>5 DEF Fails, Crash, Abandon, Unrecorded, TypeOK
  <2>5. turns' \in Nat
    BY <1>5, TurnType DEF Fails, Crash
  <2> QED
    BY <1>5, <2>2, <2>3, <2>4, <2>5 DEF Fails, Crash, TypeOK, tasks, missions, git
<1>6. CASE Forgets
  BY <1>6, TurnType DEF Forgets, TypeOK, tasks, missions, git, calls
<1>7. ASSUME NEW t \in Task, RetryWorker(t)
      PROVE  TypeOK'
  <2>1. status' \in [Task -> Status]
    BY <1>7, StatusType DEF RetryWorker, Status
  <2>2. MissionOf[t] \in Mission
    BY ExecutionAssumption
  <2> QED
    BY <1>7, <2>1, <2>2, ReconciledType DEF RetryWorker, TypeOK, git, calls
<1>8. ASSUME NEW t \in Task, DropRetried(t)
      PROVE  TypeOK'
  BY <1>8 DEF DropRetried, TypeOK, missions, git, calls
<1>9. ASSUME NEW t \in Task, CancelWorker(t)
      PROVE  TypeOK'
  <2>1. status' \in [Task -> Status]
    BY <1>9, StatusType DEF CancelWorker, Status
  <2> QED
    BY <1>9, <2>1, TurnType DEF CancelWorker, TypeOK, missions, git, calls
<1> QED
  BY <1>1, <1>2, <1>3, <1>4, <1>5, <1>6, <1>7, <1>8, <1>9

\* A call that integrates a task knows one.
Tasked ==
  \A m \in Mission :
    pc[m] \in {"pick", "record", "record result", "discard", "record discarded"} =>
      work[m].task \in Task

LEMMA TypeStep == TypeOK /\ Tasked /\ [Next]_vars => TypeOK'
<1> SUFFICES ASSUME TypeOK, Tasked, [Next]_vars PROVE TypeOK'
  OBVIOUS
<1>1. ASSUME NEW m \in Mission, ExecuteStep(m)
      PROVE  TypeOK'
  BY <1>1, TypeReservation, TypeWorkers, TypeIntegration DEF ExecuteStep, Tasked
<1>2. ASSUME NEW m \in Mission, ResultStep(m)
      PROVE  TypeOK'
  BY <1>2, TypeResult, TypeIntegration DEF ResultStep, Tasked
<1>3. ASSUME NEW m \in Mission,
             \/ CancelMission(m) \/ ReconcileCancelled(m)
             \/ ResumeMission(m) \/ ReconcileResumed(m)
             \/ Fails(m) \/ Crash(m) \/ Forgets
      PROVE  TypeOK'
  BY <1>3, TypeOthers DEF Tasked
<1>4. ASSUME NEW t \in Task, RetryWorker(t) \/ DropRetried(t) \/ CancelWorker(t)
      PROVE  TypeOK'
  <2>1. MissionOf[t] \in Mission
    BY ExecutionAssumption
  <2> QED
    BY <1>4, <2>1, TypeOthers DEF Tasked
<1>5. CASE UNCHANGED vars
  BY <1>5 DEF vars, tasks, missions, git, calls, TypeOK
<1>6. CASE Forgets
  <2>1. CASE Mission # {}
    BY <1>6, <1>3, <2>1
  <2>2. CASE Mission = {}
    BY <1>6, TurnType DEF Forgets, TypeOK, tasks, missions, git, calls
  <2> QED
    BY <2>1, <2>2
<1> QED
  BY <1>1, <1>2, <1>3, <1>4, <1>5, <1>6 DEF Next

-----------------------------------------------------------------------------
(* What most steps leave alone *)

\* A step of one mission.
Elsewhere(m) ==
  /\ \A t \in Task \ TasksOf(m) :
       /\ status'[t] = status[t] /\ worker'[t] = worker[t] /\ tree'[t] = tree[t]
       /\ t \in commits' <=> t \in commits
  /\ \A n \in Mission \ {m} :
       /\ pc'[n] = pc[n] /\ work'[n] = work[n] /\ wave'[n] = wave[n] /\ branch'[n] = branch[n]
       /\ n \in complete' <=> n \in complete
       /\ n \in cancelled' <=> n \in cancelled
  /\ lost \subseteq lost'

LEMMA OthersKept ==
  ASSUME NEW m \in Mission, NEW n \in Mission, n # m, MissionInv(n), Elsewhere(m)
  PROVE  MissionInv(n)'
<1>1. \A t \in TasksOf(n) :
        /\ t \in Task \ TasksOf(m)
        /\ status'[t] = status[t] /\ worker'[t] = worker[t] /\ tree'[t] = tree[t]
        /\ t \in commits' <=> t \in commits
  BY DEF Elsewhere, TasksOf
<1>2. /\ pc'[n] = pc[n] /\ work'[n] = work[n] /\ wave'[n] = wave[n] /\ branch'[n] = branch[n]
      /\ n \in complete' <=> n \in complete
      /\ n \in cancelled' <=> n \in cancelled
      /\ lost \subseteq lost'
  BY DEF Elsewhere
<1>3. Waves(n)'
  BY <1>1, <1>2 DEF MissionInv, Waves, Placed, Finished, TasksOf
<1>4. Calls(n)'
  <2>1. AtWork(n)'
    BY <1>1, <1>2 DEF MissionInv, Calls, AtWork, TasksOf
  <2>2. Integrating(n) => Integrating(n)'
    BY <1>1, <1>2 DEF Integrating, TasksOf
  <2>3. Caller(n)'
    BY <1>1, <1>2, <2>2 DEF MissionInv, Calls, Caller, TasksOf
  <2> QED
    BY <2>1, <2>3 DEF Calls
<1>5. Commits(n)'
  <2>1. pc[n] \in {"record", "record result", "discard"} =>
          work[n].task \in TasksOf(n) /\ tree'[work[n].task] = tree[work[n].task]
    BY <1>1 DEF MissionInv, Calls, Caller, Integrating
  <2>2. Unrecorded(n)' = Unrecorded(n)
    BY <1>2, <2>1 DEF Unrecorded
  <2>3. Picked(n)'
    BY <1>2, <2>1 DEF MissionInv, Commits, Picked
  <2>4. Follows(n)' /\ Ordered(n)'
    BY <1>2 DEF MissionInv, Commits, Follows, Ordered, TasksOf
  <2>5. Recorded(n)'
    BY <1>1, <1>2 DEF MissionInv, Commits, Recorded, TasksOf
  <2>6. Accounted(n)'
    <3> SUFFICES ASSUME NEW i \in DOMAIN branch[n], NEW j \in DOMAIN branch[n]
                 PROVE  /\ branch[n][i] \in commits' \cup lost' \cup Unrecorded(n)
                        /\ i # j /\ branch[n][j] = branch[n][i] => branch[n][i] \in lost'
      BY <1>2, <2>2 DEF Accounted
    <3>1. branch[n][i] \in TasksOf(n)
      BY DEF MissionInv, Commits, Follows
    <3> QED
      BY <1>1, <1>2, <3>1 DEF MissionInv, Commits, Accounted
  <2> QED
    BY <2>3, <2>4, <2>5, <2>6 DEF Commits
<1> QED
  BY <1>3, <1>4, <1>5 DEF MissionInv

\* A task that is not done moves within its wave, back to the plan, or with its
\* mission.
Moved(m) ==
  /\ wave'[m] = wave[m] /\ complete' = complete /\ cancelled \subseteq cancelled'
  /\ \A t \in TasksOf(m) :
       \/ status'[t] = status[t]
       \/ /\ status[t] # "done"
          /\ \/ WaveOf[t] = wave[m] \/ status'[t] = "planned"
             \/ status'[t] = "cancelled" /\ m \in cancelled'

LEMMA WaveTypes ==
  ASSUME TypeOK, NEW m \in Mission
  PROVE  wave[m] \in Nat /\ \A t \in TasksOf(m) : t \in Task /\ WaveOf[t] \in Nat \ {0}
  BY WavesAssumption DEF TypeOK, TasksOf

LEMMA SameWave ==
  ASSUME TypeOK, NEW m \in Mission, wave'[m] = wave[m]
  PROVE  wave'[m] \in Nat /\ wave[m] <= wave'[m]
<1>1. wave[m] \in Nat
  BY DEF TypeOK
<1> QED
  BY <1>1

LEMMA WavesKept ==
  ASSUME TypeOK, NEW m \in Mission, MissionInv(m), Moved(m)
  PROVE  Waves(m)'
<1>1. Placed(m)'
  BY WaveTypes DEF MissionInv, Waves, Placed, Moved, TasksOf
<1>2. Finished(m)'
  BY DEF MissionInv, Waves, Finished, Moved, TasksOf
<1> QED
  BY <1>1, <1>2 DEF Waves

DoneStays(m) == \A t \in TasksOf(m) : status[t] = "done" => status'[t] = "done"

LEMMA MovedDone ==
  ASSUME NEW m \in Mission, Moved(m)
  PROVE  DoneStays(m)
  BY DEF Moved, DoneStays

\* A step outside of an integration, or beside it.
Beside(m) ==
  /\ branch'[m] = branch[m] /\ commits' = commits /\ lost \subseteq lost'
  /\ wave'[m] \in Nat /\ wave[m] <= wave'[m] /\ DoneStays(m)
  /\ \/ /\ Unrecorded(m) \subseteq lost'
        /\ pc'[m] \notin {"record", "record result", "discard"}
     \/ /\ work'[m] = work[m] /\ tree' = tree
        /\ pc'[m] = pc[m] \/ {pc[m], pc'[m]} \subseteq {"record", "record result", "discard"}

LEMMA CommitsKept ==
  ASSUME TypeOK, NEW m \in Mission, MissionInv(m), Beside(m)
  PROVE  Commits(m)'
<1>1. Picked(m)'
  BY DEF MissionInv, Commits, Picked, Beside
<1>2. Follows(m)'
  <2> SUFFICES ASSUME NEW i \in DOMAIN branch[m]
               PROVE  branch[m][i] \in TasksOf(m) /\ WaveOf[branch[m][i]] <= wave'[m]
    BY DEF Follows, TasksOf, Beside
  <2>1. branch[m][i] \in TasksOf(m) /\ WaveOf[branch[m][i]] <= wave[m]
    BY DEF MissionInv, Commits, Follows
  <2>2. WaveOf[branch[m][i]] \in Nat
    BY <2>1, WaveTypes
  <2>3. wave[m] \in Nat /\ wave'[m] \in Nat /\ wave[m] <= wave'[m]
    BY WaveTypes DEF Beside
  <2> QED
    BY <2>1, <2>2, <2>3
<1>3. Ordered(m)'
  BY DEF MissionInv, Commits, Ordered, Beside
<1>4. Recorded(m)'
  <2>1. \A t \in commits \cap TasksOf(m) :
          status[t] = "done" /\ \E i \in DOMAIN branch[m] : branch[m][i] = t
    BY DEF MissionInv, Commits, Recorded
  <2>2. commits' = commits /\ branch'[m] = branch[m]
    BY DEF Beside
  <2>3. \A t \in TasksOf(m) : status[t] = "done" => status'[t] = "done"
    BY DEF Beside, DoneStays
  <2> QED
    BY <2>1, <2>2, <2>3 DEF Recorded, TasksOf
<1>5. Accounted(m)'
  <2>1. Unrecorded(m) \subseteq lost' \cup Unrecorded(m)'
    BY DEF Beside, Unrecorded
  <2> QED
    BY <2>1 DEF MissionInv, Commits, Accounted, Beside
<1> QED
  BY <1>1, <1>2, <1>3, <1>4, <1>5 DEF Commits

-----------------------------------------------------------------------------
(* The invariant, action by action *)

LEMMA Kept ==
  ASSUME TypeOK, NEW m \in Mission, MissionInv(m), Moved(m), Beside(m), Calls(m)'
  PROVE  MissionInv(m)'
  BY WavesKept, CommitsKept DEF MissionInv

\* A step that is only about leases.
LEMMA LeaseStep ==
  ASSUME ExecutionInv, TypeOK', UNCHANGED <<status, commits, missions, git, worker, calls, lost>>
  PROVE  ExecutionInv'
<1>1. ASSUME NEW m \in Mission
      PROVE  MissionInv(m)'
  <2>1. Unrecorded(m)' = Unrecorded(m)
    BY DEF Unrecorded, git, calls
  <2>2. Integrating(m) => Integrating(m)'
    BY DEF Integrating, missions, calls
  <2>3. MissionInv(m)
    BY DEF ExecutionInv
  <2>4. Waves(m)'
    BY <2>3 DEF MissionInv, Waves, Placed, Finished, missions
  <2>5. Calls(m)'
    BY <2>2, <2>3 DEF MissionInv, Calls, AtWork, Caller, missions, calls
  <2>6. Commits(m)'
    BY <2>1, <2>3 DEF MissionInv, Commits, Picked, Follows, Recorded, Accounted, Ordered,
                      missions, git, calls
  <2> QED
    BY <2>4, <2>5, <2>6 DEF MissionInv
<1> QED
  BY <1>1 DEF ExecutionInv

\* Outside of an execution a mission has no worker.
LEMMA NoWorkers ==
  ASSUME NEW m \in Mission, MissionInv(m), pc[m] \notin Executes
  PROVE  \A t \in TasksOf(m) : worker[t] = "none"
  BY DEF MissionInv, Calls, AtWork

\* A task is admitted, runs or ends in the wave of its mission, and before the
\* mission is complete.
LEMMA InWave ==
  ASSUME TypeOK, NEW m \in Mission, MissionInv(m), NEW t \in TasksOf(m),
         \/ status[t] \in {"admitted", "dispatched", "executing", "cancelling", "interrupted"}
         \/ worker[t] # "none"
  PROVE  WaveOf[t] = wave[m] /\ status[t] # "done"
<1>1. CASE worker[t] # "none"
  BY <1>1 DEF MissionInv, Calls, AtWork
<1>2. CASE status[t] \in {"admitted", "dispatched", "executing", "cancelling", "interrupted"}
  <2>1. ~(WaveOf[t] < wave[m]) /\ ~(WaveOf[t] > wave[m])
    BY <1>2 DEF MissionInv, Waves, Placed
  <2> QED
    BY <1>2, <2>1, WaveTypes
<1> QED
  BY <1>1, <1>2

\* Steps that only change what a call is about to do, or its leases.
LEMMA ControlInv ==
  ASSUME TypeOK, NEW m \in Mission, MissionInv(m),
         \/ \E runWorkers \in RunWorkers[m] : Execute(m, runWorkers)
         \/ Reserve(m) \/ Reconcile(m) \/ Drop(m) \/ ReconcileResumed(m)
  PROVE  MissionInv(m)' /\ Elsewhere(m)
<1>0. pc \in [Mission -> Step] /\ work \in [Mission -> Work]
  BY DEF TypeOK
<1>1. /\ UNCHANGED <<status, commits, missions, git, worker, lost>>
      /\ pc[m] \in {"idle", "reserve", "reconcile", "drop", "reconcile resumed"}
      /\ \E step \in {"idle", "reserve", "reconcile", "admit"} : pc' = [pc EXCEPT ![m] = step]
      /\ \/ work' = work
         \/ \E known : work' = [work EXCEPT ![m] = known]
  BY DEF Execute, Reserve, Reconcile, Drop, ReconcileResumed, Goto, Knows, tasks
<1>2. pc'[m] \in {"reserve", "admit"} => ~work'[m].result
  <2>1. ASSUME NEW runWorkers \in RunWorkers[m], Execute(m, runWorkers)
        PROVE  ~work'[m].result
    BY <1>0, <2>1 DEF Execute, Knows, NoWork
  <2>2. CASE Reserve(m)
    <3>1. ~work[m].result
      BY <2>2 DEF MissionInv, Calls, Caller, Reserve
    <3>2. work[m] \in Work
      BY <1>0
    <3> QED
      BY <1>0, <2>2, <3>1, <3>2 DEF Reserve, Knows, Work
  <2>3. CASE Reconcile(m) \/ Drop(m) \/ ReconcileResumed(m)
    BY <1>0, <2>3 DEF Reconcile, Drop, ReconcileResumed, Goto
  <2> QED
    BY <2>1, <2>2, <2>3
<1>3. pc'[m] \in {"idle", "reserve", "reconcile", "admit"}
  BY <1>0, <1>1
<1>4. \A t \in TasksOf(m) : worker'[t] = "none"
  BY <1>1, NoWorkers DEF Executes
<1>5. Calls(m)'
  BY <1>2, <1>3, <1>4 DEF Calls, AtWork, Caller
<1>6. Moved(m)
  BY <1>1 DEF Moved, missions
<1>7. Unrecorded(m) = {}
  BY <1>1 DEF Unrecorded
<1>8. Beside(m)
  BY <1>1, <1>3, <1>6, <1>7, MovedDone, SameWave DEF Beside, missions, git
<1>9. Elsewhere(m)
  BY <1>0, <1>1 DEF Elsewhere, missions, git
<1> QED
  BY <1>5, <1>6, <1>8, <1>9, Kept

LEMMA AdmitInv ==
  ASSUME TypeOK, NEW m \in Mission, MissionInv(m), Admit(m)
  PROVE  MissionInv(m)' /\ Elsewhere(m)
<1>0. pc \in [Mission -> Step] /\ work \in [Mission -> Work] /\ work[m] \in Work
  BY DEF TypeOK
<1>1. PICK selected \in SUBSET Planned(m) :
        /\ status' = [t \in Task |-> IF t \in selected THEN "admitted" ELSE status[t]]
        /\ Knows(m, [work[m] EXCEPT !.admitted = selected])
        /\ Goto(m, IF selected = {} THEN "reconcile" ELSE "prepare")
  BY DEF Admit
<1>2. UNCHANGED <<commits, missions, git, worker, lost>> /\ pc[m] = "admit"
  BY DEF Admit
<1>3. selected \subseteq TasksOf(m)
      /\ \A t \in selected : WaveOf[t] = wave[m] /\ status[t] = "planned"
  BY DEF Planned, WaveTasks
<1>4. work'[m].admitted = selected /\ work'[m].result = work[m].result
  BY <1>0, <1>1 DEF Knows, Work
<1>5. pc'[m] \in {"reconcile", "prepare"}
  BY <1>0, <1>1 DEF Goto
<1>6. \A t \in TasksOf(m) : worker'[t] = "none"
  BY <1>2, NoWorkers DEF Executes
<1>7. ~work[m].result
  BY <1>2 DEF MissionInv, Calls, Caller
<1>8. Calls(m)'
  BY <1>3, <1>4, <1>5, <1>6, <1>7 DEF Calls, AtWork, Caller, TasksOf
<1>9. Moved(m)
  BY <1>1, <1>2, <1>3 DEF Moved, missions, TasksOf
<1>10. Beside(m)
  BY <1>2, <1>5, <1>9, MovedDone, SameWave DEF Beside, missions, git, Unrecorded
<1>11. Elsewhere(m)
  BY <1>0, <1>1, <1>2, <1>3 DEF Elsewhere, missions, git, Goto, Knows, TasksOf
<1> QED
  BY <1>8, <1>9, <1>10, <1>11, Kept

\* Execution is complete when the wave index is beyond every task.
LEMMA NothingToAdmitInv ==
  ASSUME TypeOK, NEW m \in Mission, MissionInv(m), NothingToAdmit(m)
  PROVE  MissionInv(m)' /\ Elsewhere(m)
<1>0. pc \in [Mission -> Step]
  BY DEF TypeOK
<1>1. /\ UNCHANGED <<status, commits, wave, cancelled, git, worker, work, lost>>
      /\ pc[m] = "admit" /\ pc'[m] \in {"reconcile", "advance"}
      /\ \A n \in Mission \ {m} : pc'[n] = pc[n]
      /\ \/ complete' = complete
         \/ complete' = complete \cup {m} /\ WaveTasks(m) = {}
  BY <1>0 DEF NothingToAdmit, Goto, tasks
<1>2. \A t \in TasksOf(m) : worker'[t] = "none"
  BY <1>1, NoWorkers DEF Executes
<1>3. Calls(m)'
  BY <1>1, <1>2 DEF Calls, AtWork, Caller
<1>4. WaveTasks(m) = {} => \A t \in TasksOf(m) : status[t] = "done"
  <2> SUFFICES ASSUME WaveTasks(m) = {}, NEW t \in TasksOf(m)
               PROVE  status[t] = "done"
    OBVIOUS
  <2>1. wave[m] \in Nat /\ wave[m] >= 1 /\ WaveOf[t] \in Nat
    BY WaveTypes DEF MissionInv, Waves, Placed
  <2>2. ASSUME WaveOf[t] >= wave[m]
        PROVE  FALSE
    <3>1. wave[m] \in 1..WaveOf[t]
      BY <2>1, <2>2
    <3>2. PICK u \in Task : MissionOf[u] = MissionOf[t] /\ WaveOf[u] = wave[m]
      BY <3>1, WavesAssumption DEF TasksOf
    <3>3. u \in WaveTasks(m)
      BY <3>2 DEF WaveTasks, TasksOf
    <3> QED
      BY <3>3
  <2>3. WaveOf[t] < wave[m]
    BY <2>1, <2>2
  <2> QED
    BY <2>3 DEF MissionInv, Waves, Placed
<1>5. Waves(m)'
  <2>1. Placed(m)'
    BY <1>1 DEF MissionInv, Waves, Placed
  <2>2. Finished(m)'
    BY <1>1, <1>4 DEF MissionInv, Waves, Finished
  <2> QED
    BY <2>1, <2>2 DEF Waves
<1>6. DoneStays(m)
  BY <1>1 DEF DoneStays
<1>7. Beside(m)
  BY <1>1, <1>6, SameWave DEF Beside, git, Unrecorded
<1>8. Elsewhere(m)
  BY <1>1 DEF Elsewhere, git
<1> QED
  BY <1>3, <1>5, <1>7, <1>8, CommitsKept DEF MissionInv

LEMMA PrepareInv ==
  ASSUME TypeOK, NEW m \in Mission, MissionInv(m), NEW t \in Task,
         Dispatch(m, t) \/ PrepareFails(m, t)
  PROVE  MissionInv(m)' /\ Elsewhere(m)
<1>0. /\ pc \in [Mission -> Step] /\ work \in [Mission -> Work] /\ work[m] \in Work
      /\ status \in [Task -> Status] /\ tree \in [Task -> Tree]
      /\ worker \in [Task -> WorkerState] /\ work[m].managed \in BOOLEAN
  BY DEF TypeOK, Work
<1>1. /\ UNCHANGED <<commits, missions, branch, lost>>
      /\ pc[m] = "prepare" /\ t \in work[m].admitted
  BY DEF Dispatch, PrepareFails
<1>2. /\ ~work[m].result /\ work[m].admitted \subseteq TasksOf(m) /\ t \in TasksOf(m)
      /\ \A u \in TasksOf(m) : worker[u] # "none" => worker[u] = "working" /\ work[m].managed
  BY <1>1 DEF MissionInv, Calls, Caller
<1>3. PICK running \in BOOLEAN :
        /\ Prepared(m, t, running)
        /\ running <=> \E u \in TasksOf(m) : worker'[u] # "none"
  <2>1. CASE Dispatch(m, t)
    <3>1. worker'[t] # "none" <=> work[m].managed
      BY <1>0, <2>1 DEF Dispatch
    <3>2. \A u \in TasksOf(m) : worker'[u] # "none" => work[m].managed
      BY <1>0, <1>2, <2>1, <3>1 DEF Dispatch, TasksOf
    <3> QED
      BY <1>0, <1>2, <2>1, <3>1, <3>2 DEF Dispatch
  <2>2. CASE PrepareFails(m, t)
    <3>1. Working(m) # {} <=> \E u \in TasksOf(m) : worker'[u] # "none"
      BY <1>2, <2>2 DEF Working, PrepareFails
    <3> QED
      BY <2>2, <3>1 DEF PrepareFails
  <2> QED
    BY <2>1, <2>2
<1>4. /\ work'[m].admitted \subseteq TasksOf(m) /\ work'[m].managed = work[m].managed
      /\ work'[m].result = work[m].result /\ \A n \in Mission \ {m} : work'[n] = work[n]
  BY <1>0, <1>2, <1>3 DEF Prepared, Knows, Work
<1>5. /\ pc'[m] \in {"prepare", "work", "reconcile"} /\ \A n \in Mission \ {m} : pc'[n] = pc[n]
      /\ pc'[m] = "reconcile" => \A u \in TasksOf(m) : worker'[u] = "none"
  BY <1>0, <1>3 DEF Prepared, Goto
<1>6. \A u \in TasksOf(m) : worker'[u] # "none" =>
        /\ worker'[u] = "working" /\ work[m].managed /\ WaveOf[u] = wave[m]
        /\ \/ status'[u] \in {"executing", "cancelling"}
           \/ status'[u] = "cancelled" /\ m \in cancelled
  <2> SUFFICES ASSUME NEW u \in TasksOf(m), worker'[u] # "none"
               PROVE  /\ worker'[u] = "working" /\ work[m].managed /\ WaveOf[u] = wave[m]
                      /\ \/ status'[u] \in {"executing", "cancelling"}
                         \/ status'[u] = "cancelled" /\ m \in cancelled
    OBVIOUS
  <2>0. u \in Task
    BY DEF TasksOf
  <2>1. CASE worker[u] # "none" /\ worker'[u] = worker[u] /\ status'[u] = status[u]
    BY <1>2, <2>1 DEF MissionInv, Calls, AtWork
  <2>2. CASE Dispatch(m, t) /\ u = t
    <3>1. status[t] = "admitted" /\ work[m].managed /\ worker'[t] = "working"
          /\ status'[t] = "executing"
      BY <1>0, <2>2 DEF Dispatch, SetStatus
    <3> QED
      BY <2>2, <3>1, InWave
  <2>3. CASE Dispatch(m, t) /\ u # t
    <3>1. worker'[u] = worker[u] /\ status'[u] = status[u]
      BY <1>0, <2>0, <2>3 DEF Dispatch, SetStatus
    <3> QED
      BY <2>1, <3>1
  <2>4. CASE PrepareFails(m, t)
    <3>1. worker'[u] = worker[u]
      BY <2>4 DEF PrepareFails
    <3>2. status[u] # "admitted"
      BY <3>1 DEF MissionInv, Calls, AtWork
    <3>3. status'[u] = status[u]
      BY <1>0, <2>0, <2>4, <3>2 DEF PrepareFails
    <3> QED
      BY <2>1, <3>1, <3>3
  <2> QED
    BY <2>2, <2>3, <2>4
<1>7. Calls(m)'
  BY <1>1, <1>2, <1>4, <1>5, <1>6 DEF Calls, AtWork, Caller, Executes, missions, TasksOf
<1>8. \A u \in Task : status'[u] = status[u] \/ (u = t /\ status[t] = "admitted")
  BY <1>0 DEF Dispatch, PrepareFails, SetStatus
<1>9. Moved(m)
  BY <1>1, <1>2, <1>8, InWave DEF Moved, missions, TasksOf
<1>10. Beside(m)
  BY <1>1, <1>5, <1>9, MovedDone, SameWave DEF Beside, missions, Unrecorded
<1>11. \A u \in Task \ TasksOf(m) : worker'[u] = worker[u] /\ tree'[u] = tree[u]
  BY <1>0, <1>2 DEF Dispatch, PrepareFails
<1>12. Elsewhere(m)
  BY <1>1, <1>2, <1>4, <1>5, <1>8, <1>11 DEF Elsewhere, missions
<1> QED
  BY <1>7, <1>9, <1>10, <1>12, Kept

LEMMA WorkersInv ==
  ASSUME TypeOK, NEW m \in Mission, MissionInv(m), NEW t \in Task,
         \/ WorkerSucceeds(m, t) \/ WorkerEnds(m, t)
         \/ RecordFailure(m, t) \/ PickFails(m, t)
  PROVE  MissionInv(m)' /\ Elsewhere(m)
<1>0. status \in [Task -> Status] /\ tree \in [Task -> Tree] /\ worker \in [Task -> WorkerState]
  BY DEF TypeOK
<1>1. UNCHANGED <<commits, missions, branch, calls, lost>> /\ pc[m] = "work"
  BY DEF WorkerSucceeds, WorkerEnds, RecordFailure, PickFails, Ended, git, tasks
<1>2. t \in TasksOf(m) /\ worker[t] # "none"
  BY DEF WorkerSucceeds, WorkerEnds, RecordFailure, PickFails, Ended, Working
<1>3. /\ \A u \in Task \ {t} :
           status'[u] = status[u] /\ tree'[u] = tree[u] /\ worker'[u] = worker[u]
      /\ worker'[t] # "none" => status'[t] = status[t]
  <2>1. CASE WorkerSucceeds(m, t) \/ WorkerEnds(m, t)
    BY <1>0, <2>1 DEF WorkerSucceeds, WorkerEnds, CommitTree, tasks, git
  <2>2. CASE RecordFailure(m, t) \/ PickFails(m, t)
    BY <1>0, <2>2 DEF RecordFailure, PickFails, Unsuccessful, Forget, SetStatus, git
  <2> QED
    BY <2>1, <2>2
<1>4. WaveOf[t] = wave[m] /\ status[t] # "done"
  BY <1>2, InWave
<1>5. Calls(m)'
  <2>1. AtWork(m)'
    BY <1>1, <1>2, <1>3 DEF MissionInv, Calls, AtWork, TasksOf, missions, calls
  <2>2. Caller(m)'
    BY <1>1 DEF MissionInv, Calls, Caller, TasksOf, calls
  <2> QED
    BY <2>1, <2>2 DEF Calls
<1>6. Moved(m)
  BY <1>1, <1>3, <1>4 DEF Moved, missions, TasksOf
<1>7. Beside(m)
  BY <1>1, <1>6, MovedDone, SameWave DEF Beside, missions, calls, Unrecorded
<1>8. Elsewhere(m)
  BY <1>1, <1>2, <1>3 DEF Elsewhere, missions, calls
<1> QED
  BY <1>5, <1>6, <1>7, <1>8, Kept

\* A task is picked last, and again only if its first commit was lost.
LEMMA PickCommits ==
  ASSUME TypeOK, NEW m \in Mission, MissionInv(m), NEW t \in TasksOf(m),
         WaveOf[t] = wave[m], status[t] # "done",
         pc[m] \notin {"record", "record result", "discard"},
         NEW step \in {"record", "record result"}, PickInto(m, t, step),
         UNCHANGED <<status, commits, tree, wave, lost>>
  PROVE  Commits(m)'
<1>0. /\ pc \in [Mission -> Step] /\ work \in [Mission -> Work] /\ work[m] \in Work
      /\ branch \in [Mission -> Seq(Task)] /\ branch[m] \in Seq(Task) /\ t \in Task
  BY DEF TypeOK, TasksOf
<1>1. /\ pc'[m] = step /\ work'[m].task = t /\ work'[m].base = branch[m]
      /\ branch'[m] = IF tree[t] = "committed" THEN Append(branch[m], t) ELSE branch[m]
  BY <1>0 DEF PickInto, Goto, Knows, Work
<1>2. Picked(m)'
  BY <1>1 DEF Picked
<1>3. Unrecorded(m) = {} /\ t \notin commits
  BY DEF Unrecorded, MissionInv, Commits, Recorded
<1>4. Unrecorded(m)' = IF tree[t] = "committed" THEN {t} ELSE {}
  BY <1>1 DEF Unrecorded
<1>5. /\ Follows(m) /\ Recorded(m) /\ Accounted(m) /\ Ordered(m)
  BY DEF MissionInv, Commits
<1>6. CASE tree[t] # "committed"
  <2>1. branch'[m] = branch[m] /\ Unrecorded(m)' = {}
    BY <1>1, <1>4, <1>6
  <2> QED
    <3>1. Follows(m)' /\ Ordered(m)'
      BY <1>5, <2>1 DEF Follows, Ordered, TasksOf
    <3>2. Recorded(m)'
      <4>1. commits' = commits /\ status' = status
        OBVIOUS
      <4> QED
        BY <1>5, <2>1, <4>1, Zenon DEF Recorded, TasksOf
    <3>3. Accounted(m)'
      BY <1>3, <1>5, <2>1 DEF Accounted
    <3> QED
      BY <1>2, <3>1, <3>2, <3>3 DEF Commits
<1>7. CASE tree[t] = "committed"
  <2>1. PICK last \in Nat :
          /\ last \notin DOMAIN branch[m] /\ DOMAIN branch'[m] = DOMAIN branch[m] \cup {last}
          /\ branch'[m][last] = t
          /\ \A i \in DOMAIN branch[m] :
               branch'[m][i] = branch[m][i] /\ i < last /\ ~(last < i)
          /\ ~(last < last)
    <3>1. branch'[m] = Append(branch[m], t)
      BY <1>1, <1>7
    <3>2. branch[m] \in Seq(Task) /\ t \in Task
      BY <1>0
    <3>3. Extends(Append(branch[m], t), branch[m], t)
      BY <3>2, AppendExtends
    <3>4. Extends(branch'[m], branch[m], t)
      BY <3>1, <3>3
    <3> QED
      BY <3>4 DEF Extends
  <2>2. Follows(m)'
    <3>1. WaveOf[t] <= wave[m]
      BY WaveTypes, Reflexive
    <3> QED
      BY <1>5, <2>1, <3>1 DEF Follows, TasksOf
  <2>3. Ordered(m)'
    <3> SUFFICES ASSUME NEW i \in DOMAIN branch'[m], NEW j \in DOMAIN branch'[m], i < j
                 PROVE  WaveOf[branch'[m][i]] <= WaveOf[branch'[m][j]]
      BY DEF Ordered
    <3>1. i \in DOMAIN branch[m]
      BY <2>1
    <3>2. CASE j \in DOMAIN branch[m]
      BY <1>5, <2>1, <3>1, <3>2 DEF Ordered
    <3>3. CASE j = last
      BY <1>5, <2>1, <3>1, <3>3 DEF Follows
    <3> QED
      BY <2>1, <3>2, <3>3
  <2>4. Recorded(m)'
    <3> SUFFICES ASSUME NEW u \in commits \cap TasksOf(m)
                 PROVE  status[u] = "done" /\ \E i \in DOMAIN branch'[m] : branch'[m][i] = u
      BY DEF Recorded, TasksOf
    <3>1. PICK i \in DOMAIN branch[m] : branch[m][i] = u
      BY <1>5 DEF Recorded
    <3>2. i \in DOMAIN branch'[m] /\ branch'[m][i] = u
      BY <2>1, <3>1
    <3> QED
      BY <1>5, <3>2 DEF Recorded
  <2>5. Accounted(m)'
    <3> SUFFICES ASSUME NEW i \in DOMAIN branch'[m], NEW j \in DOMAIN branch'[m]
                 PROVE  /\ branch'[m][i] \in commits \cup lost \cup {t}
                        /\ i # j /\ branch'[m][j] = branch'[m][i] => branch'[m][i] \in lost
      BY <1>4, <1>7 DEF Accounted
    <3>1. \A k \in DOMAIN branch[m] : branch[m][k] = t => t \in lost
      BY <1>3, <1>5 DEF Accounted
    <3>2. CASE i \in DOMAIN branch[m] /\ j \in DOMAIN branch[m]
      BY <1>3, <1>5, <2>1, <3>2 DEF Accounted
    <3>3. CASE i = last
      BY <2>1, <3>1, <3>3
    <3>4. CASE i \in DOMAIN branch[m] /\ j = last
      BY <1>3, <1>5, <2>1, <3>1, <3>4 DEF Accounted
    <3> QED
      BY <2>1, <3>2, <3>3, <3>4
  <2> QED
    BY <1>2, <2>2, <2>3, <2>4, <2>5 DEF Commits
<1> QED
  BY <1>6, <1>7

LEMMA PickInv ==
  ASSUME TypeOK, NEW m \in Mission, MissionInv(m), NEW t \in Task,
         Pick(m, t) \/ (t = work[m].task /\ PickResult(m))
  PROVE  MissionInv(m)' /\ Elsewhere(m)
<1>0. /\ pc \in [Mission -> Step] /\ work \in [Mission -> Work] /\ work[m] \in Work
      /\ branch \in [Mission -> Seq(Task)]
  BY DEF TypeOK
<1>1. UNCHANGED <<status, commits, missions, tree, worker, lost>>
  BY DEF Pick, PickResult, tasks
<1>2. PICK step \in {"record", "record result"} :
        /\ PickInto(m, t, step)
        /\ \/ step = "record" /\ pc[m] = "work" /\ worker[t] = "succeeded"
           \/ step = "record result" /\ pc[m] = "pick"
        /\ Pick(m, t) \/ pc[m] = "pick"
  BY DEF Pick, PickResult, Ended
<1>3. /\ pc'[m] = step /\ work'[m].task = t /\ work'[m].result = work[m].result
      /\ \A n \in Mission \ {m} :
           pc'[n] = pc[n] /\ work'[n] = work[n] /\ branch'[n] = branch[n]
  BY <1>0, <1>2 DEF PickInto, Goto, Knows, Work
<1>4. /\ t \in TasksOf(m) /\ WaveOf[t] = wave[m] /\ status[t] # "done"
      /\ step = "record" => ~work[m].result /\ worker[t] = "succeeded"
      /\ step = "record result" =>
           /\ work[m].result
           /\ status[t] \in {"dispatched", "interrupted", "planned", "cancelled"}
  <2>1. CASE pc[m] = "work"
    <3>1. t \in TasksOf(m)
      BY <1>2, <2>1 DEF Pick, Ended
    <3>2. ~work[m].result
      BY <2>1 DEF MissionInv, Calls, Caller
    <3> QED
      BY <1>2, <2>1, <3>1, <3>2, InWave
  <2>2. CASE pc[m] = "pick"
    <3>1. t = work[m].task
      BY <2>2 DEF Pick, Ended
    <3>2. work[m].result /\ Integrating(m)
      BY <2>2 DEF MissionInv, Calls, Caller
    <3> QED
      BY <1>2, <2>2, <3>1, <3>2 DEF Integrating
  <2> QED
    BY <1>2, <2>1, <2>2
<1>5. Integrating(m)'
  BY <1>1, <1>3, <1>4 DEF Integrating, TasksOf, missions
<1>6. Caller(m)'
  BY <1>3, <1>4, <1>5 DEF Caller
<1>7. AtWork(m)'
  <2>1. pc[m] = "pick" => \A u \in TasksOf(m) : worker[u] = "none"
    BY NoWorkers DEF Executes
  <2>2. pc[m] = "work" => step = "record"
    BY <1>2
  <2> QED
    BY <1>1, <1>2, <1>3, <2>1, <2>2 DEF MissionInv, Calls, AtWork, Executes, TasksOf, missions
<1>8. Commits(m)'
  BY <1>1, <1>2, <1>4, PickCommits DEF missions
<1>9. Moved(m)
  BY <1>1 DEF Moved, missions
<1>10. Elsewhere(m)
  BY <1>1, <1>3 DEF Elsewhere, missions
<1> QED
  BY <1>6, <1>7, <1>8, <1>9, <1>10, WavesKept DEF MissionInv, Calls

\* The task of an integration is recorded: its commit is the last of the branch.
LEMMA DoneCommits ==
  ASSUME TypeOK, NEW m \in Mission, MissionInv(m), NEW t \in TasksOf(m), t = work[m].task,
         pc[m] \in {"record", "record result"}, Done(t),
         pc'[m] \notin {"record", "record result", "discard"},
         UNCHANGED <<wave, branch, lost>>
  PROVE  Commits(m)'
<1>0. /\ branch[m] \in Seq(Task) /\ work[m] \in Work /\ work[m].base \in Seq(Task)
      /\ status \in [Task -> Status] /\ t \in Task
  BY DEF TypeOK, Work, TasksOf
<1>1. Picked(m) /\ Follows(m) /\ Recorded(m) /\ Accounted(m) /\ Ordered(m)
  BY DEF MissionInv, Commits
<1>2. commits' = IF tree[t] = "committed" THEN commits \cup {t} ELSE commits
  BY DEF Done
<1>3. status'[t] = "done" /\ \A u \in Task \ {t} : status'[u] = status[u]
  BY <1>0 DEF Done, SetStatus
<1>4. tree[t] = "committed" => \E i \in DOMAIN branch[m] : branch[m][i] = t
  <2> SUFFICES ASSUME tree[t] = "committed"
               PROVE  \E i \in DOMAIN branch[m] : branch[m][i] = t
    OBVIOUS
  <2>1. branch[m] = Append(work[m].base, t)
    BY <1>1 DEF Picked
  <2>2. Extends(Append(work[m].base, t), work[m].base, t)
    BY <1>0, AppendExtends
  <2>3. Extends(branch[m], work[m].base, t)
    BY <2>1, <2>2
  <2> QED
    BY <2>3 DEF Extends
<1>5. Picked(m)' /\ Follows(m)' /\ Ordered(m)'
  BY <1>1 DEF Picked, Follows, Ordered, TasksOf
<1>6. Recorded(m)'
  <2> SUFFICES ASSUME NEW u \in commits' \cap TasksOf(m)
               PROVE  status'[u] = "done" /\ \E i \in DOMAIN branch[m] : branch[m][i] = u
    BY DEF Recorded, TasksOf
  <2>1. CASE u \in commits /\ u # t
    BY <1>1, <1>3, <2>1 DEF Recorded, TasksOf
  <2>2. CASE u = t
    BY <1>1, <1>2, <1>3, <1>4, <2>2 DEF Recorded
  <2> QED
    BY <1>2, <2>1, <2>2
<1>7. Accounted(m)'
  <2>1. commits \cup Unrecorded(m) \subseteq commits'
    BY <1>2 DEF Unrecorded
  <2> QED
    BY <1>1, <2>1 DEF Accounted
<1> QED
  BY <1>5, <1>6, <1>7 DEF Commits

LEMMA RecordInv ==
  ASSUME TypeOK, NEW m \in Mission, MissionInv(m), Record(m) \/ RecordResult(m)
  PROVE  MissionInv(m)' /\ Elsewhere(m)
<1>0. /\ pc \in [Mission -> Step] /\ work \in [Mission -> Work] /\ work[m] \in Work
      /\ status \in [Task -> Status] /\ tree \in [Task -> Tree]
      /\ worker \in [Task -> WorkerState]
  BY DEF TypeOK
<1> DEFINE t == work[m].task
<1>1. UNCHANGED <<wave, complete, cancelled, branch, lost>> /\ pc[m] \in {"record", "record result"}
  BY DEF Record, RecordResult, missions
<1>2. /\ Integrating(m)
      /\ pc[m] = "record" => ~work[m].result
      /\ pc[m] = "record result" => work[m].result
  BY <1>1 DEF MissionInv, Calls, Caller
<1>3. t \in TasksOf(m) /\ t \in Task /\ WaveOf[t] = wave[m] /\ status[t] # "done"
  <2>1. t \in TasksOf(m) /\ WaveOf[t] = wave[m]
    BY <1>2 DEF Integrating
  <2>2. ~work[m].result => status[t] # "done"
    BY <1>2, <2>1, InWave DEF Integrating
  <2>3. work[m].result => status[t] # "done"
    BY <1>2 DEF Integrating
  <2> QED
    BY <2>1, <2>2, <2>3 DEF TasksOf
<1>4. CASE /\ Goto(m, "discard") /\ UNCHANGED <<status, commits, tree, worker, work>>
  <2>1. pc'[m] = "discard" /\ \A n \in Mission \ {m} : pc'[n] = pc[n]
    BY <1>0, <1>4 DEF Goto
  <2>2. Integrating(m)'
    BY <1>1, <1>2, <1>4 DEF Integrating, TasksOf
  <2>3. Caller(m)'
    BY <2>1, <2>2 DEF Caller
  <2>4. AtWork(m)'
    BY <1>1, <1>4, <2>1 DEF MissionInv, Calls, AtWork, Executes, TasksOf
  <2>5. Moved(m)
    BY <1>1, <1>4 DEF Moved
  <2>6. Beside(m)
    BY <1>1, <1>4, <2>1, <2>5, MovedDone, SameWave DEF Beside
  <2>7. Elsewhere(m)
    BY <1>1, <1>4, <2>1 DEF Elsewhere
  <2> QED
    BY <2>3, <2>4, <2>5, <2>6, <2>7, Kept DEF Calls
<1>5. CASE /\ Done(t)
           /\ \/ pc[m] = "record" /\ Forget(t) /\ Goto(m, "work")
                 /\ Knows(m, [work[m] EXCEPT !.task = NoTask])
              \/ pc[m] = "record result" /\ UNCHANGED <<worker, work>> /\ Goto(m, "advance")
  <2>1. /\ status'[t] = "done" /\ \A u \in Task \ {t} : status'[u] = status[u] /\ tree'[u] = tree[u]
        /\ \A u \in Task \ {t} : u \in commits' <=> u \in commits
    <3>1. /\ status' = [status EXCEPT ![t] = "done"] /\ tree' = [tree EXCEPT ![t] = "none"]
          /\ commits' = commits \cup {t} \/ commits' = commits
      BY <1>5 DEF Done, SetStatus
    <3> HIDE DEF t
    <3> QED
      BY <1>0, <1>3, <3>1
  <2>2. /\ \A u \in Task \ {t} : worker'[u] = worker[u]
        /\ \A n \in Mission \ {m} : pc'[n] = pc[n] /\ work'[n] = work[n]
    BY <1>0, <1>5 DEF Forget, Goto, Knows
  <2>3. \/ pc'[m] = "work" /\ worker'[t] = "none" /\ ~work'[m].result
        \/ pc'[m] = "advance" /\ \A u \in TasksOf(m) : worker'[u] = "none"
    <3>1. CASE pc[m] = "record"
      BY <1>0, <1>2, <1>3, <1>5, <3>1 DEF Forget, Goto, Knows, Work
    <3>2. CASE pc[m] = "record result"
      <4>1. \A u \in TasksOf(m) : worker[u] = "none"
        BY <3>2, NoWorkers DEF Executes
      <4> QED
        BY <1>0, <1>5, <3>2, <4>1 DEF Goto
    <3> QED
      BY <1>1, <3>1, <3>2
  <2>4. Caller(m)'
    BY <2>3 DEF Caller
  <2>5. AtWork(m)'
    BY <1>1, <2>1, <2>2, <2>3 DEF MissionInv, Calls, AtWork, Executes, TasksOf
  <2>6. Moved(m)
    BY <1>1, <1>3, <2>1 DEF Moved, TasksOf
  <2>7. pc'[m] \notin {"record", "record result", "discard"}
    BY <2>3
  <2>8. Commits(m)'
    BY <1>1, <1>3, <1>5, <2>7, DoneCommits
  <2>9. Elsewhere(m)
    BY <1>1, <1>3, <2>1, <2>2 DEF Elsewhere
  <2> QED
    BY <2>4, <2>5, <2>6, <2>8, <2>9, WavesKept DEF MissionInv, Calls
<1> QED
  BY <1>4, <1>5 DEF Record, RecordResult

\* What is withdrawn is the commit of the task alone.
LEMMA DiscardInv ==
  ASSUME TypeOK, NEW m \in Mission, MissionInv(m), Discard(m)
  PROVE  MissionInv(m)' /\ Elsewhere(m)
<1>0. /\ pc \in [Mission -> Step] /\ branch \in [Mission -> Seq(Task)]
      /\ work[m] \in Work /\ work[m].base \in Seq(Task)
  BY DEF TypeOK, Work
<1> DEFINE t == work[m].task  base == work[m].base
<1>1. /\ UNCHANGED <<status, commits, missions, tree, worker, work, lost>> /\ pc[m] = "discard"
      /\ branch'[m] = base
      /\ pc'[m] = IF work[m].result THEN "drop" ELSE "record discarded"
      /\ \A n \in Mission \ {m} : pc'[n] = pc[n] /\ branch'[n] = branch[n]
  BY <1>0 DEF Discard, Goto, tasks
<1>2. Integrating(m) /\ Picked(m) /\ Follows(m) /\ Recorded(m) /\ Accounted(m) /\ Ordered(m)
  BY <1>1 DEF MissionInv, Calls, Caller, Commits
<1>3. t \in TasksOf(m) /\ t \in Task /\ t \notin commits
  <2>1. t \in TasksOf(m) /\ status[t] # "done"
    BY <1>2, InWave DEF Integrating
  <2> QED
    BY <1>2, <2>1 DEF Recorded, TasksOf
<1>4. Integrating(m)'
  BY <1>1, <1>2 DEF Integrating, TasksOf, missions
<1>5. Caller(m)'
  BY <1>1, <1>4 DEF Caller
<1>6. AtWork(m)'
  BY <1>1 DEF MissionInv, Calls, AtWork, Executes, TasksOf, missions
<1>7. Commits(m)'
  <2>1. pc'[m] \notin {"record", "record result", "discard"}
    BY <1>1
  <2>2. CASE tree[t] # "committed"
    <3>1. branch'[m] = branch[m] /\ Unrecorded(m) = {}
      BY <1>1, <1>2, <2>2 DEF Picked, Unrecorded
    <3>2. DoneStays(m)
      BY <1>1 DEF DoneStays
    <3>3. Beside(m)
      BY <1>1, <2>1, <3>1, <3>2, SameWave DEF Beside, missions
    <3> QED
      BY <3>3, CommitsKept
  <2>3. CASE tree[t] = "committed"
    <3>1. branch[m] = Append(base, t) /\ Unrecorded(m) = {t}
      BY <1>1, <1>2, <2>3 DEF Picked, Unrecorded
    <3>2. Extends(Append(base, t), base, t)
      BY <1>0, <1>3, AppendExtends
    <3>3. Extends(branch[m], base, t)
      BY <3>1, <3>2
    <3>4. PICK last \in Nat :
            /\ last \notin DOMAIN base /\ DOMAIN branch[m] = DOMAIN base \cup {last}
            /\ branch[m][last] = t
            /\ \A i \in DOMAIN base : branch[m][i] = base[i]
      BY <3>3 DEF Extends
    <3> HIDE DEF base, t
    <3>5. Picked(m)'
      BY <2>1 DEF Picked
    <3>6. Follows(m)' /\ Ordered(m)'
      BY <1>1, <1>2, <3>4 DEF Follows, Ordered, TasksOf, missions
    <3>7. Recorded(m)'
      <4> SUFFICES ASSUME NEW u \in commits \cap TasksOf(m)
                   PROVE  status[u] = "done" /\ \E i \in DOMAIN base : base[i] = u
        BY <1>1 DEF Recorded, TasksOf
      <4>1. PICK i \in DOMAIN branch[m] : branch[m][i] = u
        BY <1>2 DEF Recorded
      <4>2. i # last
        BY <1>3, <3>4, <4>1
      <4> QED
        BY <1>2, <3>4, <4>1, <4>2 DEF Recorded
    <3>8. Accounted(m)'
      <4> SUFFICES ASSUME NEW i \in DOMAIN base, NEW j \in DOMAIN base
                   PROVE  /\ base[i] \in commits \cup lost
                          /\ i # j /\ base[j] = base[i] => base[i] \in lost
        BY <1>1, <2>1 DEF Accounted
      <4>1. base[i] = t => base[i] \in lost
        BY <1>2, <3>4 DEF Accounted
      <4> QED
        BY <1>2, <3>1, <3>4, <4>1 DEF Accounted
    <3> QED
      BY <3>5, <3>6, <3>7, <3>8 DEF Commits
  <2> QED
    BY <2>2, <2>3
<1>8. Moved(m)
  BY <1>1 DEF Moved, missions
<1>9. Elsewhere(m)
  BY <1>1 DEF Elsewhere, missions
<1> QED
  BY <1>5, <1>6, <1>7, <1>8, <1>9, WavesKept DEF MissionInv, Calls

LEMMA RecordDiscardedInv ==
  ASSUME TypeOK, NEW m \in Mission, MissionInv(m), RecordDiscarded(m)
  PROVE  MissionInv(m)' /\ Elsewhere(m)
<1>0. /\ pc \in [Mission -> Step] /\ work \in [Mission -> Work] /\ work[m] \in Work
      /\ status \in [Task -> Status] /\ worker \in [Task -> WorkerState]
  BY DEF TypeOK
<1>1. PICK t \in TasksOf(m) :
        /\ t = work[m].task /\ worker[t] = "succeeded" /\ ~work[m].result
  BY DEF RecordDiscarded, MissionInv, Calls, Caller, Integrating
<1>2. /\ UNCHANGED <<commits, missions, tree, branch, lost>> /\ pc[m] = "record discarded"
      /\ pc'[m] = "work" /\ ~work'[m].result /\ worker'[t] = "none"
      /\ \A u \in Task \ {t} : status'[u] = status[u] /\ worker'[u] = worker[u]
      /\ \A n \in Mission \ {m} : pc'[n] = pc[n] /\ work'[n] = work[n]
  BY <1>0, <1>1 DEF RecordDiscarded, Goto, Knows, SetStatus, Forget, Work, TasksOf, git
<1>3. WaveOf[t] = wave[m] /\ status[t] # "done"
  BY <1>1, InWave
<1>4. Calls(m)'
  BY <1>2 DEF MissionInv, Calls, AtWork, Caller, Executes, TasksOf, missions
<1>5. Moved(m)
  BY <1>2, <1>3 DEF Moved, TasksOf, missions
<1>6. Beside(m)
  BY <1>2, <1>5, MovedDone, SameWave DEF Beside, Unrecorded, missions
<1>7. Elsewhere(m)
  BY <1>1, <1>2 DEF Elsewhere, missions
<1> QED
  BY <1>4, <1>5, <1>6, <1>7, Kept

LEMMA AdvanceWaveInv ==
  ASSUME TypeOK, NEW m \in Mission, MissionInv(m), AdvanceWave(m)
  PROVE  MissionInv(m)' /\ Elsewhere(m)
<1>0. /\ pc \in [Mission -> Step] /\ wave \in [Mission -> Nat] /\ wave[m] \in Nat /\ wave[m] + 1 \in Nat
  <2>1. wave \in [Mission -> Nat] /\ wave[m] \in Nat
    BY DEF TypeOK
  <2> QED
    BY <2>1, Successor DEF TypeOK
<1>1. /\ UNCHANGED <<status, commits, complete, cancelled, git, worker, work, lost>>
      /\ pc[m] \in {"advance", "work"} /\ pc'[m] \in {"drop", "reconcile"}
      /\ \A n \in Mission \ {m} : pc'[n] = pc[n] /\ wave'[n] = wave[n]
      /\ \/ wave'[m] = wave[m]
         \/ /\ wave'[m] = wave[m] + 1
            /\ \A t \in WaveTasks(m) : status[t] = "done"
  BY <1>0 DEF AdvanceWave, Integrated, Goto, tasks
<1>2. \A t \in TasksOf(m) : worker'[t] = "none"
  <2>1. CASE pc[m] = "advance"
    BY <1>1, <2>1, NoWorkers DEF Executes
  <2>2. CASE pc[m] = "work"
    BY <1>1, <2>2 DEF AdvanceWave, Integrated
  <2> QED
    BY <1>1, <2>1, <2>2
<1>3. Calls(m)'
  BY <1>1, <1>2 DEF Calls, AtWork, Caller
<1>4. \A n \in Nat, k \in Nat :
        /\ n <= n + 1 /\ (n >= 1 => n + 1 >= 1)
        /\ k < n + 1 => k < n \/ k = n
        /\ k > n + 1 => k > n
  BY Later
<1>5. Waves(m)'
  <2>1. Placed(m)'
    <3>0. \A t \in TasksOf(m) : WaveOf[t] \in Nat /\ (WaveOf[t] = wave[m] => t \in WaveTasks(m))
      BY WaveTypes DEF WaveTasks
    <3>1. CASE wave'[m] = wave[m]
      BY <1>1, <3>1 DEF MissionInv, Waves, Placed, TasksOf
    <3>2. CASE wave'[m] = wave[m] + 1 /\ \A t \in WaveTasks(m) : status[t] = "done"
      BY <1>0, <1>1, <1>4, <3>0, <3>2 DEF MissionInv, Waves, Placed, TasksOf
    <3> QED
      BY <1>1, <3>1, <3>2
  <2>2. Finished(m)'
    BY <1>1 DEF MissionInv, Waves, Finished
  <2> QED
    BY <2>1, <2>2 DEF Waves
<1>6. wave'[m] \in Nat /\ wave[m] <= wave'[m]
  BY <1>0, <1>1, <1>4, Reflexive
<1>7. Beside(m)
  BY <1>1, <1>6 DEF Beside, DoneStays, Unrecorded, git
<1>8. Elsewhere(m)
  BY <1>1 DEF Elsewhere, git
<1> QED
  BY <1>3, <1>5, <1>7, <1>8, CommitsKept DEF MissionInv

LEMMA ResultInv ==
  ASSUME TypeOK, NEW m \in Mission, MissionInv(m), NEW t \in Task,
         CommitResult(m, t) \/ ResumeWorker(m, t)
  PROVE  MissionInv(m)' /\ Elsewhere(m)
<1>0. /\ pc \in [Mission -> Step] /\ work \in [Mission -> Work]
      /\ status \in [Task -> Status] /\ tree \in [Task -> Tree]
  BY DEF TypeOK
<1>1. /\ UNCHANGED <<commits, wave, complete, cancelled, branch, worker, lost>>
      /\ pc[m] = "idle" /\ t \in TasksOf(m) /\ status[t] \in {"dispatched", "interrupted"}
      /\ work'[m].task = t /\ work'[m].result
      /\ \A n \in Mission \ {m} : pc'[n] = pc[n] /\ work'[n] = work[n]
      /\ \A u \in Task \ {t} : status'[u] = status[u] /\ tree'[u] = tree[u]
      /\ \/ pc'[m] = "pick" /\ status'[t] = status[t]
         \/ pc'[m] = "drop" /\ status'[t] = "planned"
  <2>1. work'[m] = ResultCall(m, t)
    BY <1>0 DEF CommitResult, ResumeWorker, Knows
  <2>2. work'[m].task = t /\ work'[m].result
    BY <2>1 DEF ResultCall, NoWork
  <2>3. CASE CommitResult(m, t)
    BY <1>0, <2>2, <2>3 DEF CommitResult, CommitTree, Goto, Knows, TasksOf, tasks, missions
  <2>4. CASE ResumeWorker(m, t)
    BY <1>0, <2>2, <2>4 DEF ResumeWorker, SetStatus, Goto, Knows, TasksOf, git
  <2> QED
    BY <2>3, <2>4
<1>2. WaveOf[t] = wave[m] /\ status[t] # "done"
  BY <1>1, InWave
<1>3. \A u \in TasksOf(m) : worker'[u] = "none"
  BY <1>1, NoWorkers DEF Executes
<1>4. Calls(m)'
  BY <1>1, <1>2, <1>3 DEF Calls, AtWork, Caller, Integrating, TasksOf
<1>5. Moved(m)
  BY <1>1, <1>2 DEF Moved, TasksOf
<1>6. Beside(m)
  BY <1>1, <1>5, MovedDone, SameWave DEF Beside, Unrecorded
<1>7. Elsewhere(m)
  BY <1>1 DEF Elsewhere
<1> QED
  BY <1>4, <1>5, <1>6, <1>7, Kept

\* Calls that run beside the holder of the lease.
LEMMA BesideInv ==
  ASSUME TypeOK, NEW m \in Mission, MissionInv(m),
         CancelMission(m) \/ \E t \in TasksOf(m) : RetryWorker(t) \/ CancelWorker(t)
  PROVE  MissionInv(m)' /\ Elsewhere(m)
<1>0. status \in [Task -> Status] /\ \A t \in TasksOf(m) : t \in Task /\ MissionOf[t] = m
  BY DEF TypeOK, TasksOf
<1> DEFINE Turned(u) ==
      \/ status'[u] = status[u]
      \/ /\ status[u] \in {"failed", "interrupted", "cancelled"} /\ m \notin cancelled
         /\ status'[u] = "planned"
      \/ status[u] = "executing" /\ status'[u] = "cancelling"
      \/ /\ status[u] \notin Terminal \cup {"executing"}
         /\ status'[u] = "cancelled" /\ m \in cancelled'
<1> DEFINE Changes ==
      /\ UNCHANGED <<commits, wave, complete, git, worker, calls, lost>>
      /\ cancelled' = cancelled \/ cancelled' = cancelled \cup {m}
      /\ \A u \in Task \ TasksOf(m) : status'[u] = status[u]
      /\ \A u \in TasksOf(m) : Turned(u)
<1>1. Changes
  <2>1. CASE CancelMission(m)
    BY <1>0, <2>1 DEF CancelMission, TasksOf, git, calls
  <2>2. ASSUME NEW t \in TasksOf(m), RetryWorker(t)
        PROVE  Changes
    <3>1. /\ UNCHANGED <<commits, wave, complete, cancelled, git, worker, calls, lost>>
          /\ status[t] \in {"failed", "interrupted", "cancelled"} /\ m \notin cancelled
          /\ status' = [status EXCEPT ![t] = "planned"]
      BY <1>0, <2>2 DEF RetryWorker, SetStatus
    <3>2. status'[t] = "planned" /\ \A u \in Task \ {t} : status'[u] = status[u]
      BY <1>0, <3>1
    <3> QED
      BY <1>0, <3>1, <3>2
  <2>3. ASSUME NEW t \in TasksOf(m), CancelWorker(t)
        PROVE  Changes
    <3>1. /\ UNCHANGED <<commits, wave, complete, cancelled, git, worker, calls, lost>>
          /\ status[t] = "executing" /\ status' = [status EXCEPT ![t] = "cancelling"]
      BY <2>3 DEF CancelWorker, SetStatus, missions
    <3>2. status'[t] = "cancelling" /\ \A u \in Task \ {t} : status'[u] = status[u]
      BY <1>0, <3>1
    <3> QED
      BY <1>0, <3>1, <3>2
  <2> QED
    BY <2>1, <2>2, <2>3
<1>2. AtWork(m)'
  BY <1>1 DEF MissionInv, Calls, AtWork, TasksOf, calls
<1>3. Integrating(m) => Integrating(m)'
  BY <1>1 DEF Integrating, TasksOf, Terminal, calls
<1>4. Caller(m)'
  BY <1>1, <1>3 DEF MissionInv, Calls, Caller, TasksOf, calls
<1>5. Moved(m)
  BY <1>1, InWave DEF Moved, Terminal
<1>6. Beside(m)
  BY <1>1, <1>5, MovedDone, SameWave DEF Beside, git, calls
<1>7. Elsewhere(m)
  BY <1>1 DEF Elsewhere, git, calls
<1> QED
  BY <1>2, <1>4, <1>5, <1>6, <1>7, Kept DEF Calls

LEMMA ResumeMissionInv ==
  ASSUME TypeOK, NEW m \in Mission, MissionInv(m), ResumeMission(m)
  PROVE  MissionInv(m)' /\ Elsewhere(m)
<1>0. pc \in [Mission -> Step]
  BY DEF TypeOK
<1>1. /\ UNCHANGED <<commits, wave, complete, cancelled, git, worker, work, lost>>
      /\ pc[m] = "idle" /\ pc'[m] = "reconcile resumed"
      /\ \A n \in Mission \ {m} : pc'[n] = pc[n]
      /\ \A t \in Task \ TasksOf(m) : status'[t] = status[t]
      /\ \A t \in TasksOf(m) :
           status'[t] = status[t] \/ status[t] \in {"admitted", "executing", "cancelling"}
  BY <1>0 DEF ResumeMission, Goto, TasksOf
<1>2. \A t \in TasksOf(m) : worker'[t] = "none"
  BY <1>1, NoWorkers DEF Executes
<1>3. Calls(m)'
  BY <1>1, <1>2 DEF Calls, AtWork, Caller
<1>4. Moved(m)
  BY <1>1, InWave DEF Moved
<1>5. Beside(m)
  BY <1>1, <1>4, MovedDone, SameWave DEF Beside, Unrecorded, git
<1>6. Elsewhere(m)
  BY <1>1 DEF Elsewhere, git
<1> QED
  BY <1>3, <1>4, <1>5, <1>6, Kept

LEMMA AbandonInv ==
  ASSUME TypeOK, NEW m \in Mission, MissionInv(m), Fails(m) \/ Crash(m)
  PROVE  MissionInv(m)' /\ Elsewhere(m)
<1>0. pc \in [Mission -> Step] /\ work \in [Mission -> Work]
  BY DEF TypeOK
<1>1. /\ UNCHANGED <<status, commits, missions, git>>
      /\ Unrecorded(m) \cup lost \subseteq lost'
      /\ pc'[m] \in {"drop", "reconcile", "idle"}
      /\ \A n \in Mission \ {m} : pc'[n] = pc[n] /\ work'[n] = work[n]
      /\ \A t \in Task \ TasksOf(m) : worker'[t] = worker[t]
      /\ \A t \in TasksOf(m) : worker'[t] = "none"
  BY <1>0 DEF Fails, Crash, Abandon, Goto, Knows, TasksOf, tasks
<1>2. Calls(m)'
  BY <1>1 DEF Calls, AtWork, Caller, TasksOf
<1>3. Moved(m)
  BY <1>1 DEF Moved, missions
<1>4. Beside(m)
  BY <1>1, <1>3, MovedDone, SameWave DEF Beside, git, missions
<1>5. Elsewhere(m)
  BY <1>1 DEF Elsewhere, git, missions
<1> QED
  BY <1>2, <1>3, <1>4, <1>5, Kept

-----------------------------------------------------------------------------
(* The invariant *)

LEMMA InvInit == Init => ExecutionInv
<1> SUFFICES ASSUME Init, NEW m \in Mission PROVE MissionInv(m)
  BY TypeInit DEF ExecutionInv
<1>1. /\ wave[m] = 1 /\ branch[m] = <<>> /\ pc[m] = "idle" /\ commits = {} /\ complete = {}
      /\ \A t \in TasksOf(m) : status[t] = "planned" /\ worker[t] = "none" /\ WaveOf[t] >= 1
  BY WavesAssumption DEF Init, TasksOf
<1>2. Waves(m)
  BY <1>1, WavesAssumption DEF Waves, Placed, Finished, TasksOf
<1>3. Calls(m)
  BY <1>1 DEF Calls, AtWork, Caller
<1>4. Commits(m)
  BY <1>1 DEF Commits, Picked, Follows, Recorded, Accounted, Ordered
<1> QED
  BY <1>2, <1>3, <1>4 DEF MissionInv

LEMMA InvTasked == ExecutionInv => Tasked
  BY DEF ExecutionInv, Tasked, MissionInv, Calls, Caller, Integrating, TasksOf

\* The steps of one mission.
MissionStep(m) ==
  \/ ExecuteStep(m) \/ ResultStep(m)
  \/ CancelMission(m) \/ ReconcileCancelled(m)
  \/ ResumeMission(m) \/ ReconcileResumed(m)
  \/ Fails(m) \/ Crash(m)
  \/ \E t \in TasksOf(m) : RetryWorker(t) \/ CancelWorker(t)

IsLeaseStep ==
  \/ \E m \in Mission : ReconcileCancelled(m) \/ \E t \in Task : RefuseResult(m, t)
  \/ \E t \in Task : DropRetried(t)
  \/ Forgets \/ UNCHANGED vars

LEMMA MissionStepInv ==
  ASSUME TypeOK, NEW m \in Mission, MissionInv(m), MissionStep(m)
  PROVE  IsLeaseStep \/ (MissionInv(m)' /\ Elsewhere(m))
<1>1. CASE ExecuteStep(m)
  <2>1. CASE (\E runWorkers \in RunWorkers[m] : Execute(m, runWorkers)) \/ Reserve(m) \/ Reconcile(m)
    BY <2>1, ControlInv
  <2>2. CASE Admit(m)
    BY <2>2, AdmitInv
  <2>3. CASE NothingToAdmit(m)
    BY <2>3, NothingToAdmitInv
  <2>4. ASSUME NEW t \in Task, Dispatch(m, t) \/ PrepareFails(m, t)
        PROVE  MissionInv(m)' /\ Elsewhere(m)
    BY <2>4, PrepareInv
  <2>5. ASSUME NEW t \in Task,
               \/ WorkerSucceeds(m, t) \/ WorkerEnds(m, t)
               \/ RecordFailure(m, t) \/ PickFails(m, t)
        PROVE  MissionInv(m)' /\ Elsewhere(m)
    BY <2>5, WorkersInv
  <2>6. ASSUME NEW t \in Task, Pick(m, t)
        PROVE  MissionInv(m)' /\ Elsewhere(m)
    BY <2>6, PickInv
  <2>7. CASE Record(m)
    BY <2>7, RecordInv
  <2>8. CASE Discard(m)
    BY <2>8, DiscardInv
  <2>9. CASE RecordDiscarded(m)
    BY <2>9, RecordDiscardedInv
  <2>10. CASE AdvanceWave(m)
    BY <2>10, AdvanceWaveInv
  <2> QED
    BY <1>1, <2>1, <2>2, <2>3, <2>4, <2>5, <2>6, <2>7, <2>8, <2>9, <2>10 DEF ExecuteStep
<1>2. CASE ResultStep(m)
  <2>1. ASSUME NEW t \in Task, CommitResult(m, t) \/ ResumeWorker(m, t)
        PROVE  MissionInv(m)' /\ Elsewhere(m)
    BY <2>1, ResultInv
  <2>2. ASSUME NEW t \in Task, RefuseResult(m, t)
        PROVE  IsLeaseStep
    BY <2>2 DEF IsLeaseStep
  <2>3. CASE PickResult(m)
    <3>1. work[m].task \in Task
      BY <2>3 DEF PickResult, MissionInv, Calls, Caller, Integrating, TasksOf
    <3> QED
      BY <2>3, <3>1, PickInv
  <2>4. CASE RecordResult(m)
    BY <2>4, RecordInv
  <2>5. CASE Drop(m)
    BY <2>5, ControlInv
  <2> QED
    BY <1>2, <2>1, <2>2, <2>3, <2>4, <2>5 DEF ResultStep
<1>3. CASE CancelMission(m) \/ \E t \in TasksOf(m) : RetryWorker(t) \/ CancelWorker(t)
  BY <1>3, BesideInv
<1>4. CASE ReconcileCancelled(m)
  BY <1>4 DEF IsLeaseStep
<1>5. CASE ResumeMission(m)
  BY <1>5, ResumeMissionInv
<1>6. CASE ReconcileResumed(m)
  BY <1>6, ControlInv
<1>7. CASE Fails(m) \/ Crash(m)
  BY <1>7, AbandonInv
<1> QED
  BY <1>1, <1>2, <1>3, <1>4, <1>5, <1>6, <1>7 DEF MissionStep

\* Every step is one of a mission, or only about leases.
LEMMA StepOf ==
  ASSUME [Next]_vars
  PROVE  IsLeaseStep \/ \E m \in Mission : MissionStep(m)
<1>1. ASSUME NEW t \in Task, RetryWorker(t) \/ CancelWorker(t)
      PROVE  \E m \in Mission : MissionStep(m)
  <2>1. MissionOf[t] \in Mission /\ t \in TasksOf(MissionOf[t])
    BY ExecutionAssumption DEF TasksOf
  <2> QED
    BY <1>1, <2>1 DEF MissionStep
<1> QED
  BY <1>1 DEF Next, MissionStep, IsLeaseStep

LEMMA InvStep == ExecutionInv /\ [Next]_vars => ExecutionInv'
<1> SUFFICES ASSUME ExecutionInv, [Next]_vars PROVE ExecutionInv'
  OBVIOUS
<1>1. TypeOK /\ TypeOK'
  BY InvTasked, TypeStep DEF ExecutionInv
<1>2. CASE IsLeaseStep
  <2>1. UNCHANGED <<status, commits, missions, git, worker, calls, lost>>
    BY <1>2 DEF IsLeaseStep, ReconcileCancelled, RefuseResult, DropRetried, Forgets, vars, tasks
  <2> QED
    BY <1>1, <2>1, LeaseStep
<1>3. ASSUME ~IsLeaseStep, NEW m \in Mission, MissionStep(m)
      PROVE  ExecutionInv'
  <2>1. MissionInv(m)' /\ Elsewhere(m)
    BY <1>1, <1>3, MissionStepInv DEF ExecutionInv
  <2>2. \A n \in Mission : MissionInv(n)'
    BY <2>1, OthersKept DEF ExecutionInv
  <2> QED
    BY <1>1, <2>2 DEF ExecutionInv
<1> QED
  BY <1>2, <1>3, StepOf

THEOREM ExecutionInvariance == Spec => []ExecutionInv
  BY InvInit, InvStep, PTL DEF Spec

\* The variables keep their types, whatever the missions, tasks, waves,
\* conflicts and bounds.
THEOREM ExecutionTypes == Spec => []TypeOK
<1>1. ExecutionInv => TypeOK
  BY DEF ExecutionInv
<1> QED
  BY <1>1, ExecutionInvariance, PTL

\* A commit a task was recorded as done by stays in the branch of the mission:
\* a reset of #discardIntegratedTask or of commitExternalTaskResult only ever
\* takes away the commit of the task being integrated.
THEOREM ExecutionRecordedStays == Spec => []RecordedStays
<1>1. ExecutionInv => RecordedStays
  <2> SUFFICES ASSUME ExecutionInv, NEW t \in commits
               PROVE  /\ status[t] = "done"
                      /\ \E i \in DOMAIN branch[MissionOf[t]] : branch[MissionOf[t]][i] = t
    BY DEF RecordedStays
  <2>1. MissionOf[t] \in Mission /\ t \in TasksOf(MissionOf[t])
    BY ExecutionAssumption DEF ExecutionInv, TypeOK, TasksOf
  <2> QED
    BY <2>1 DEF ExecutionInv, MissionInv, Commits, Recorded
<1> QED
  BY <1>1, ExecutionInvariance, PTL

\* Every commit of a mission branch is recorded, in the hands of the call that
\* integrates it, or was left by an error or a crash; a task is in the branch
\* twice only after one of those.
THEOREM ExecutionAccounted == Spec => []BranchIsAccounted
<1>1. ExecutionInv => BranchIsAccounted
  BY DEF ExecutionInv, MissionInv, Commits, Accounted, BranchIsAccounted
<1> QED
  BY <1>1, ExecutionInvariance, PTL

\* The commits of a mission branch follow the waves, whatever failed, crashed,
\* was retried, resumed or committed from outside in between.
THEOREM ExecutionWaveOrder == Spec => []WaveOrder
<1>1. ExecutionInv => WaveOrder
  BY DEF ExecutionInv, MissionInv, Commits, Ordered, WaveOrder
<1> QED
  BY <1>1, ExecutionInvariance, PTL

-----------------------------------------------------------------------------
(* What steps do to the statuses of tasks *)

ActiveStatus == {"admitted", "executing", "cancelling", "interrupted"}

\* A task that is not done is neither done nor interrupted by the step, nor does
\* it begin to occupy a worker.
Ordinary(t) ==
  \/ status'[t] = status[t]
  \/ /\ status[t] # "done" /\ status'[t] \notin {"done", "interrupted"}
     /\ status'[t] \in ActiveStatus => status[t] \in ActiveStatus

OrdinaryStep ==
  /\ UNCHANGED <<managed, missions>>
  /\ \A t \in Task : Ordinary(t)

LEMMA WorkerIsNotDone ==
  ASSUME ExecutionInv, NEW t \in Task, worker[t] # "none"
  PROVE  status[t] # "done"
  BY ExecutionAssumption DEF ExecutionInv, MissionInv, Calls, AtWork, TasksOf

LEMMA OrdinarySteps ==
  ASSUME ExecutionInv, NEW m \in Mission, NEW t \in Task,
         \/ \E runWorkers \in RunWorkers[m] : Execute(m, runWorkers)
         \/ Reserve(m) \/ Dispatch(m, t) \/ PrepareFails(m, t)
         \/ WorkerSucceeds(m, t) \/ WorkerEnds(m, t)
         \/ RecordFailure(m, t) \/ Pick(m, t) \/ PickFails(m, t)
         \/ Discard(m) \/ RecordDiscarded(m) \/ Reconcile(m)
         \/ CommitResult(m, t) \/ RefuseResult(m, t) \/ PickResult(m) \/ Drop(m)
         \/ ReconcileCancelled(m) \/ ReconcileResumed(m)
         \/ Fails(m) \/ Crash(m) \/ DropRetried(t) \/ CancelWorker(t)
         \/ Forgets \/ UNCHANGED vars
  PROVE  OrdinaryStep
<1>0. status \in [Task -> Status]
  BY DEF ExecutionInv, TypeOK
<1>1. CASE UNCHANGED <<status, managed, missions>>
  BY <1>1 DEF OrdinaryStep, Ordinary
<1>2. ASSUME NEW u \in Task, NEW s \in Status \ {"done", "interrupted"}, status[u] # "done",
             UNCHANGED <<managed, missions>>, SetStatus(u, s),
             s \in ActiveStatus => status[u] \in ActiveStatus
      PROVE  OrdinaryStep
  BY <1>0, <1>2 DEF OrdinaryStep, Ordinary, SetStatus
<1>3. CASE Dispatch(m, t)
  <2>1. UNCHANGED <<managed, missions>> /\ status[t] = "admitted"
    BY <1>3 DEF Dispatch
  <2>2. PICK s \in {"executing", "dispatched"} : SetStatus(t, s)
    BY <1>3 DEF Dispatch
  <2> QED
    BY <1>2, <2>1, <2>2 DEF Status, ActiveStatus
<1>4. CASE PrepareFails(m, t)
  BY <1>0, <1>4 DEF PrepareFails, OrdinaryStep, Ordinary, ActiveStatus
<1>5. CASE RecordFailure(m, t) \/ PickFails(m, t)
  <2>1. UNCHANGED <<managed, missions>> /\ worker[t] # "none"
    BY <1>5 DEF RecordFailure, PickFails, Ended
  <2>2. PICK s \in {"failed", "cancelled"} : SetStatus(t, s)
    BY <1>5 DEF RecordFailure, PickFails, Unsuccessful
  <2>3. status[t] # "done"
    BY <2>1, WorkerIsNotDone
  <2> QED
    BY <1>2, <2>1, <2>2, <2>3 DEF Status, ActiveStatus
<1>6. CASE RecordDiscarded(m)
  <2>1. PICK u \in Task : u = work[m].task /\ worker[u] = "succeeded"
    <3>1. pc[m] = "record discarded" /\ Calls(m)
      BY <1>6 DEF RecordDiscarded, ExecutionInv, MissionInv
    <3>2. Integrating(m) /\ ~work[m].result
      BY <3>1 DEF Calls, Caller
    <3> QED
      BY <3>2 DEF Integrating, TasksOf
  <2>2. UNCHANGED <<managed, missions>> /\ SetStatus(u, "cancelled")
    BY <1>6, <2>1 DEF RecordDiscarded
  <2>3. status[u] # "done"
    BY <2>1, WorkerIsNotDone
  <2> QED
    BY <1>2, <2>2, <2>3 DEF Status, ActiveStatus
<1>7. CASE CancelWorker(t)
  <2>1. UNCHANGED <<managed, missions>> /\ status[t] = "executing" /\ SetStatus(t, "cancelling")
    BY <1>7 DEF CancelWorker
  <2> QED
    BY <1>2, <2>1 DEF Status, ActiveStatus
<1>8. \/ UNCHANGED <<status, managed, missions>>
      \/ Dispatch(m, t) \/ PrepareFails(m, t) \/ RecordFailure(m, t) \/ PickFails(m, t)
      \/ RecordDiscarded(m) \/ CancelWorker(t)
  BY DEF Execute, Reserve, WorkerSucceeds, WorkerEnds, Pick, Discard, Reconcile, CommitResult,
         RefuseResult, PickResult, Drop, ReconcileCancelled, ReconcileResumed, Fails, Crash,
         DropRetried, Forgets, vars, tasks
<1> QED
  BY <1>1, <1>3, <1>4, <1>5, <1>6, <1>7, <1>8

\* The other steps.
SpecialStep(m) ==
  \/ Admit(m) \/ NothingToAdmit(m) \/ Record(m) \/ RecordResult(m) \/ AdvanceWave(m)
  \/ CancelMission(m) \/ ResumeMission(m)
  \/ \E t \in TasksOf(m) : ResumeWorker(m, t) \/ RetryWorker(t)

LEMMA Steps ==
  ASSUME ExecutionInv, [Next]_vars
  PROVE  OrdinaryStep \/ \E m \in Mission : SpecialStep(m)
<1>1. CASE UNCHANGED vars
  BY <1>1 DEF vars, tasks, OrdinaryStep, Ordinary
<1>2. CASE Forgets
  BY <1>2 DEF Forgets, tasks, OrdinaryStep, Ordinary
<1>3. ASSUME NEW t \in Task, RetryWorker(t) \/ DropRetried(t) \/ CancelWorker(t)
      PROVE  OrdinaryStep \/ \E m \in Mission : SpecialStep(m)
  <2>1. MissionOf[t] \in Mission /\ t \in TasksOf(MissionOf[t])
    BY ExecutionAssumption DEF TasksOf
  <2> QED
    BY <1>3, <2>1, OrdinarySteps DEF SpecialStep
<1>4. ASSUME NEW m \in Mission, ExecuteStep(m)
      PROVE  OrdinaryStep \/ SpecialStep(m)
  <2>1. ASSUME NEW t \in Task,
               \/ Dispatch(m, t) \/ PrepareFails(m, t)
               \/ WorkerSucceeds(m, t) \/ WorkerEnds(m, t)
               \/ RecordFailure(m, t) \/ Pick(m, t) \/ PickFails(m, t)
        PROVE  OrdinaryStep
    BY <2>1, OrdinarySteps
  <2>2. CASE \/ \E runWorkers \in RunWorkers[m] : Execute(m, runWorkers)
             \/ Reserve(m) \/ Discard(m) \/ RecordDiscarded(m) \/ Reconcile(m)
    <3>1. CASE Task # {}
      BY <2>2, <3>1, OrdinarySteps
    <3>2. CASE Task = {}
      BY <2>2, <3>2 DEF Execute, Reserve, Discard, RecordDiscarded, Reconcile, tasks, OrdinaryStep
    <3> QED
      BY <3>1, <3>2
  <2> QED
    BY <1>4, <2>1, <2>2 DEF ExecuteStep, SpecialStep
<1>5. ASSUME NEW m \in Mission, ResultStep(m)
      PROVE  OrdinaryStep \/ SpecialStep(m)
  <2>1. ASSUME NEW t \in Task, CommitResult(m, t) \/ RefuseResult(m, t)
        PROVE  OrdinaryStep
    BY <2>1, OrdinarySteps
  <2>2. ASSUME NEW t \in Task, ResumeWorker(m, t)
        PROVE  SpecialStep(m)
    BY <2>2 DEF SpecialStep, ResumeWorker, TasksOf
  <2>3. CASE PickResult(m) \/ Drop(m)
    BY <2>3 DEF PickResult, Drop, tasks, OrdinaryStep, Ordinary
  <2> QED
    BY <1>5, <2>1, <2>2, <2>3 DEF ResultStep, SpecialStep
<1>6. ASSUME NEW m \in Mission,
             \/ ReconcileCancelled(m) \/ ReconcileResumed(m) \/ Fails(m) \/ Crash(m)
      PROVE  OrdinaryStep
  BY <1>6 DEF ReconcileCancelled, ReconcileResumed, Fails, Crash, tasks, OrdinaryStep, Ordinary
<1> QED
  BY <1>1, <1>2, <1>3, <1>4, <1>5, <1>6 DEF Next, SpecialStep

-----------------------------------------------------------------------------
(* Interruptions *)

LEMMA ReconciledFlags ==
  ASSUME InterruptionIsFlagged, NEW m \in Mission, interruption' = Reconciled(m, status'),
         \A t \in Task \ TasksOf(m) : status'[t] = status[t]
  PROVE  InterruptionIsFlagged'
  BY DEF InterruptionIsFlagged, Reconciled, TasksOf

LEMMA FlagStep == ExecutionInv /\ InterruptionIsFlagged /\ [Next]_vars => InterruptionIsFlagged'
<1> SUFFICES ASSUME ExecutionInv, InterruptionIsFlagged, [Next]_vars
             PROVE  InterruptionIsFlagged'
  OBVIOUS
<1>0. status \in [Task -> Status]
  BY DEF ExecutionInv, TypeOK
<1>1. CASE OrdinaryStep
  BY <1>1 DEF OrdinaryStep, Ordinary, InterruptionIsFlagged, missions
<1>2. ASSUME NEW m \in Mission, SpecialStep(m)
      PROVE  InterruptionIsFlagged'
  <2>1. CASE /\ interruption' = interruption
             /\ \A t \in Task : status'[t] = status[t] \/ status'[t] # "interrupted"
    BY <2>1 DEF InterruptionIsFlagged
  <2>2. CASE Admit(m) \/ NothingToAdmit(m) \/ AdvanceWave(m)
    BY <1>0, <2>1, <2>2 DEF Admit, NothingToAdmit, AdvanceWave, missions, tasks
  <2>3. CASE CancelMission(m)
    BY <1>0, <2>1, <2>3 DEF CancelMission
  <2>4. CASE Record(m)
    BY <1>0, <2>1, <2>4 DEF Record, Done, SetStatus, missions
  <2>5. CASE RecordResult(m)
    <3>1. CASE UNCHANGED <<status, interruption>>
      BY <2>1, <3>1
    <3>2. CASE Done(work[m].task) /\ interruption' = Reconciled(m, status')
      <4>1. work[m].task \in TasksOf(m)
        BY <2>5 DEF RecordResult, ExecutionInv, MissionInv, Calls, Caller, Integrating
      <4> QED
        BY <1>0, <3>2, <4>1, ReconciledFlags DEF Done, SetStatus
    <3> QED
      BY <2>5, <3>1, <3>2 DEF RecordResult
  <2>6. CASE ResumeMission(m)
    BY <1>0, <2>6, ReconciledFlags DEF ResumeMission, TasksOf
  <2>7. ASSUME NEW t \in TasksOf(m), ResumeWorker(m, t) \/ RetryWorker(t)
        PROVE  InterruptionIsFlagged'
    <3>1. MissionOf[t] = m
      BY DEF TasksOf
    <3>2. SetStatus(t, "planned") /\ interruption' = Reconciled(m, status')
      BY <2>7, <3>1 DEF ResumeWorker, RetryWorker
    <3> QED
      BY <1>0, <3>2, ReconciledFlags DEF SetStatus
  <2> QED
    BY <1>2, <2>2, <2>3, <2>4, <2>5, <2>6, <2>7 DEF SpecialStep
<1> QED
  BY <1>1, <1>2, Steps

\* A mission with an interrupted task is flagged, so that mission_execute
\* refuses it: no resume, retry or commit of another task clears the flag.
THEOREM ExecutionFlags == Spec => []InterruptionIsFlagged
<1>1. Init => InterruptionIsFlagged
  BY DEF Init, InterruptionIsFlagged
<1> QED
  BY <1>1, FlagStep, ExecutionInvariance, PTL DEF Spec

-----------------------------------------------------------------------------
(* Leases *)

LEMMA LeasedShrinks ==
  ASSUME [Next]_vars
  PROVE  leased' \subseteq leased \/ \E m \in Mission : Reserve(m)
<1>1. ASSUME NEW m \in Mission, ExecuteStep(m), ~Reserve(m)
      PROVE  leased' \subseteq leased
  BY <1>1 DEF ExecuteStep, Execute, Admit, NothingToAdmit, Dispatch, PrepareFails, WorkerSucceeds,
              WorkerEnds, RecordFailure, Pick, PickFails, Record, Discard, RecordDiscarded,
              AdvanceWave, Reconcile, tasks
<1>2. ASSUME NEW m \in Mission, ResultStep(m)
      PROVE  leased' \subseteq leased
  BY <1>2 DEF ResultStep, CommitResult, ResumeWorker, RefuseResult, PickResult, RecordResult, Drop, tasks
<1>3. ASSUME NEW m \in Mission,
             \/ CancelMission(m) \/ ReconcileCancelled(m)
             \/ ResumeMission(m) \/ ReconcileResumed(m)
             \/ Fails(m) \/ Crash(m)
      PROVE  leased' \subseteq leased
  BY <1>3 DEF CancelMission, ReconcileCancelled, ResumeMission, ReconcileResumed, Unleased,
              Fails, Crash, tasks
<1>4. ASSUME NEW t \in Task, RetryWorker(t) \/ DropRetried(t) \/ CancelWorker(t)
      PROVE  leased' \subseteq leased
  BY <1>4 DEF RetryWorker, DropRetried, CancelWorker
<1>5. CASE Forgets \/ UNCHANGED vars
  BY <1>5 DEF Forgets, vars, tasks
<1> QED
  BY <1>1, <1>2, <1>3, <1>4, <1>5 DEF Next

LEMMA DisjointStep == Disjoint /\ [Next]_vars => Disjoint'
<1> SUFFICES ASSUME Disjoint, [Next]_vars PROVE Disjoint'
  OBVIOUS
<1>1. CASE leased' \subseteq leased
  BY <1>1 DEF Disjoint, Conflict
<1>2. ASSUME NEW m \in Mission, Reserve(m)
      PROVE  Disjoint'
  <2>1. PICK selected \in SUBSET {t \in Planned(m) : Reservable(m, t)} :
          /\ \A t, u \in selected : t # u => ~Conflict(t, u)
          /\ leased' = ActiveLeases \cup selected
    BY <1>2 DEF Reserve
  <2>2. \A t, u \in ActiveLeases : t # u => ~Conflict(t, u)
    BY DEF Disjoint, ActiveLeases
  <2>3. \A t \in selected, u \in ActiveLeases : u # t => ~Conflict(t, u) /\ ~Conflict(u, t)
    <3> SUFFICES ASSUME NEW t \in selected, NEW u \in ActiveLeases, u # t
                 PROVE  ~Conflict(t, u) /\ ~Conflict(u, t)
      OBVIOUS
    <3>1. ~Conflict(t, u)
      BY DEF Reservable, ActiveLeases
    <3>2. {t, u} = {u, t}
      OBVIOUS
    <3> QED
      BY <3>1, <3>2 DEF Conflict
  <2> QED
    BY <2>1, <2>2, <2>3 DEF Disjoint, Conflict
<1> QED
  BY <1>1, <1>2, LeasedShrinks

\* Two leases of tasks that are not over never conflict: capability_execution_reserved
\* looks at all leases of all missions, and clears those of finished tasks
\* before a retry could make them count again.
THEOREM ExecutionLeases == Spec => []LeasesExclude
<1>1. Init => Disjoint
  BY DEF Init, Disjoint
<1>2. Disjoint => LeasesExclude
  BY DEF Disjoint, LeasesExclude
<1> QED
  BY <1>1, <1>2, DisjointStep, PTL DEF Spec

-----------------------------------------------------------------------------
(* The limit on workers *)

Occupied == Active \cap managed

LEMMA OccupiedFinite ==
  ASSUME ExecutionInv
  PROVE  /\ IsFiniteSet(Active) /\ Cardinality(Active) \in Nat
         /\ IsFiniteSet(Occupied) /\ Cardinality(Occupied) \in Nat
         /\ Occupied \subseteq Active
<1>1. Active \subseteq Task /\ Occupied \subseteq Task /\ IsFiniteSet(Task)
  BY ExecutionAssumption DEF Active, Occupied
<1> QED
  BY <1>1, FS_Subset, FS_CardinalityType DEF Occupied

LEMMA SmallerBound ==
  ASSUME ExecutionInv, WorkerBound, Occupied' \subseteq Occupied
  PROVE  WorkerBound'
<1>1. Cardinality(Occupied') \in Nat /\ Cardinality(Occupied') <= Cardinality(Occupied)
  BY OccupiedFinite, FS_Subset, FS_CardinalityType
<1>2. Cardinality(Occupied) <= MaxWorkers /\ Cardinality(Occupied) \in Nat /\ MaxWorkers \in Nat
  BY ExecutionAssumption, OccupiedFinite DEF WorkerBound, Occupied
<1>3. Cardinality(Occupied') <= MaxWorkers
  BY <1>1, <1>2
<1> QED
  BY <1>3 DEF WorkerBound, Occupied

LEMMA Room ==
  \A a, b, u, max \in Nat, capacity \in Int :
    b <= capacity /\ capacity \in 0..(max - a) /\ u <= a + b => u <= max
  OBVIOUS

LEMMA UnionBound ==
  ASSUME NEW S, NEW T, IsFiniteSet(S), IsFiniteSet(T)
  PROVE  /\ IsFiniteSet(S \cup T)
         /\ Cardinality(S \cup T) <= Cardinality(S) + Cardinality(T)
<1>1. /\ IsFiniteSet(S \cup T)
      /\ Cardinality(S \cup T) = Cardinality(S) + Cardinality(T) - Cardinality(S \cap T)
  BY FS_Union
<1>2. IsFiniteSet(S \cap T)
  BY FS_Subset
<1>3. Cardinality(S) \in Nat /\ Cardinality(T) \in Nat /\ Cardinality(S \cap T) \in Nat
  BY <1>2, FS_CardinalityType
<1> QED
  BY <1>1, <1>3

LEMMA AdmitBound ==
  ASSUME ExecutionInv, WorkerBound, NEW m \in Mission, Admit(m)
  PROVE  WorkerBound'
<1>0. status \in [Task -> Status] /\ IsFiniteSet(Task) /\ MaxWorkers \in Nat
  BY ExecutionAssumption DEF ExecutionInv, TypeOK
<1>1. PICK capacity \in Capacity(m), selected \in SUBSET Planned(m) :
        /\ Cardinality(selected) <= capacity
        /\ status' = [t \in Task |-> IF t \in selected THEN "admitted" ELSE status[t]]
        /\ managed' = IF work[m].managed THEN managed \cup selected ELSE managed \ selected
  BY DEF Admit
<1>2. selected \subseteq Task /\ Active' \subseteq Active \cup selected
  BY <1>0, <1>1 DEF Planned, WaveTasks, TasksOf, Active
<1>3. CASE ~work[m].managed
  BY <1>1, <1>2, <1>3, SmallerBound DEF Occupied
<1>4. CASE work[m].managed /\ selected = {}
  BY <1>1, <1>2, <1>4, SmallerBound DEF Occupied
<1>5. CASE work[m].managed /\ selected # {}
  <2>1. /\ IsFiniteSet(Active) /\ Cardinality(Active) \in Nat
        /\ IsFiniteSet(selected) /\ Cardinality(selected) \in Nat /\ Cardinality(selected) # 0
    BY <1>0, <1>2, <1>5, OccupiedFinite, FS_Subset, FS_CardinalityType, FS_EmptySet
  <2>2. capacity \in 0..(MaxWorkers - Cardinality(Active))
    BY <1>0, <1>1, <1>5, <2>1 DEF Capacity
  <2>3. IsFiniteSet(Active \cup selected)
        /\ Cardinality(Active \cup selected) <= Cardinality(Active) + Cardinality(selected)
    BY <2>1, UnionBound
  <2>4. Cardinality(Occupied') \in Nat
        /\ Cardinality(Occupied') <= Cardinality(Active \cup selected)
        /\ Cardinality(Active \cup selected) \in Nat
    <3>1. Occupied' \subseteq Active \cup selected
      BY <1>2 DEF Occupied
    <3> QED
      BY <2>3, <3>1, FS_Subset, FS_CardinalityType
  <2>5. Cardinality(Active \cup selected) <= MaxWorkers
    BY <1>0, <1>1, <2>1, <2>2, <2>3, <2>4, Room
  <2>6. Cardinality(Occupied') <= MaxWorkers
    BY <1>0, <2>4, <2>5
  <2> QED
    BY <2>6 DEF WorkerBound, Occupied
<1> QED
  BY <1>3, <1>4, <1>5

LEMMA BoundStep == ExecutionInv /\ WorkerBound /\ [Next]_vars => WorkerBound'
<1> SUFFICES ASSUME ExecutionInv, WorkerBound, [Next]_vars PROVE WorkerBound'
  OBVIOUS
<1>0. status \in [Task -> Status]
  BY DEF ExecutionInv, TypeOK
<1>1. CASE /\ managed' = managed
           /\ \A t \in Task : status'[t] \in ActiveStatus => status[t] \in ActiveStatus
  BY <1>1, SmallerBound DEF Occupied, Active, ActiveStatus
<1>2. CASE OrdinaryStep
  BY <1>1, <1>2 DEF OrdinaryStep, Ordinary
<1>3. ASSUME NEW m \in Mission, SpecialStep(m)
      PROVE  WorkerBound'
  <2>1. CASE NothingToAdmit(m) \/ AdvanceWave(m)
    BY <1>1, <2>1 DEF NothingToAdmit, AdvanceWave, tasks
  <2>2. CASE Record(m) \/ RecordResult(m)
    <3>1. managed' = managed
      BY <2>2 DEF Record, RecordResult
    <3>2. status' = status \/ status' = [status EXCEPT ![work[m].task] = "done"]
      BY <2>2 DEF Record, RecordResult, Done, SetStatus
    <3> QED
      BY <1>0, <1>1, <3>1, <3>2 DEF ActiveStatus
  <2>3. CASE CancelMission(m) \/ ResumeMission(m)
    BY <1>0, <1>1, <2>3 DEF CancelMission, ResumeMission, ActiveStatus
  <2>4. ASSUME NEW t \in TasksOf(m), ResumeWorker(m, t) \/ RetryWorker(t)
        PROVE  WorkerBound'
    BY <1>0, <1>1, <2>4 DEF ResumeWorker, RetryWorker, SetStatus, ActiveStatus
  <2> QED
    BY <1>3, <2>1, <2>2, <2>3, <2>4, AdmitBound DEF SpecialStep
<1> QED
  BY <1>2, <1>3, Steps

\* The tasks that were admitted for a runtime worker and have not ended never
\* exceed workerPolicy.maxWorkers, over all missions: worker_admission_reserved
\* counts again inside its transaction.
THEOREM ExecutionWorkerBound == Spec => []WorkerBound
<1>1. Init => WorkerBound
  <2> SUFFICES ASSUME Init PROVE WorkerBound
    OBVIOUS
  <2>1. Active \cap managed = {}
    BY DEF Init
  <2>2. Cardinality(Active \cap managed) = 0
    BY <2>1, FS_EmptySet
  <2> QED
    BY <2>2, ExecutionAssumption DEF WorkerBound
<1> QED
  BY <1>1, BoundStep, ExecutionInvariance, PTL DEF Spec

-----------------------------------------------------------------------------
(* Refinement *)

IntegratedTasks == {t \in Task : status[t] = "done"}

LEMMA RefineInit == Init => Journal!Init
  BY DEF Init, Journal!Init

LEMMA RefineStep == ExecutionInv /\ [Next]_vars => [Journal!Next]_(Journal!results)
<1> SUFFICES ASSUME ExecutionInv, [Next]_vars, UNCHANGED Journal!results => FALSE
             PROVE  Journal!Next
  BY DEF Journal!results
<1>0. /\ status \in [Task -> Status] /\ wave \in [Mission -> Nat]
      /\ complete \subseteq Mission /\ cancelled \subseteq Mission
  BY DEF ExecutionInv, TypeOK
<1>1. ASSUME UNCHANGED <<wave, complete, cancelled>>,
             \A t \in Task : status'[t] = "done" <=> status[t] = "done"
      PROVE  FALSE
  <2>1. IntegratedTasks' = IntegratedTasks
    BY <1>1 DEF IntegratedTasks
  <2> QED
    BY <1>1, <2>1 DEF Journal!results, IntegratedTasks
<1>2. ~OrdinaryStep
  BY <1>1 DEF OrdinaryStep, Ordinary, missions
<1>3. PICK m \in Mission : SpecialStep(m)
  BY <1>2, Steps
<1>4. MissionInv(m)
  BY DEF ExecutionInv
<1>5. ~Admit(m)
  BY <1>0, <1>1 DEF Admit, Planned, missions
<1>6. ~ResumeMission(m) /\ \A t \in TasksOf(m) : ~ResumeWorker(m, t) /\ ~RetryWorker(t)
  <2>1. ~ResumeMission(m)
    BY <1>0, <1>1 DEF ResumeMission
  <2>2. ASSUME NEW t \in TasksOf(m), ResumeWorker(m, t) \/ RetryWorker(t)
        PROVE  FALSE
    BY <1>0, <1>1, <2>2 DEF ResumeWorker, RetryWorker, SetStatus
  <2> QED
    BY <2>1, <2>2
<1>7. CASE NothingToAdmit(m)
  <2>1. UNCHANGED <<status, wave, cancelled>>
    BY <1>7 DEF NothingToAdmit, tasks
  <2>2. complete' # complete
    BY <1>1, <2>1
  <2>3. complete' = complete \cup {m} /\ m \notin cancelled /\ m \notin complete
    BY <1>0, <1>7, <2>2 DEF NothingToAdmit
  <2>4. \A t \in Task : MissionOf[t] = m => status[t] = "done"
    <3>1. MissionInv(m)'
      BY <1>4, <1>7, NothingToAdmitInv DEF ExecutionInv
    <3>2. Finished(m)'
      BY <3>1 DEF MissionInv, Waves
    <3> QED
      BY <2>1, <2>3, <3>2 DEF Finished, TasksOf
  <2>5. Journal!Complete(m)
    BY <2>1, <2>3, <2>4 DEF Journal!Complete
  <2> QED
    BY <2>5 DEF Journal!Next
<1>8. CASE Record(m) \/ RecordResult(m)
  <2>1. UNCHANGED <<wave, complete, cancelled>>
    BY <1>8 DEF Record, RecordResult, missions
  <2>2. status' # status
    BY <1>1, <2>1
  <2>3. m \notin cancelled /\ status' = [status EXCEPT ![work[m].task] = "done"]
    BY <1>8, <2>2 DEF Record, RecordResult, Done, SetStatus
  <2>4. PICK t \in TasksOf(m) : t = work[m].task /\ WaveOf[t] = wave[m]
    BY <1>4, <1>8 DEF Record, RecordResult, MissionInv, Calls, Caller, Integrating
  <2>5. status[t] # "done"
    BY <1>0, <2>2, <2>3, <2>4 DEF TasksOf
  <2>6. m \notin complete
    BY <1>4, <2>5 DEF MissionInv, Waves, Finished
  <2>7. IntegratedTasks' = IntegratedTasks \cup {t}
    BY <1>0, <2>3, <2>4 DEF IntegratedTasks, TasksOf
  <2>8. t \in Task /\ MissionOf[t] = m /\ t \notin IntegratedTasks
    BY <2>4, <2>5 DEF TasksOf, IntegratedTasks
  <2>9. Journal!Integrate(t)
    BY <2>1, <2>3, <2>4, <2>6, <2>7, <2>8 DEF Journal!Integrate, IntegratedTasks
  <2> QED
    BY <2>8, <2>9 DEF Journal!Next
<1>9. CASE AdvanceWave(m)
  <2>1. UNCHANGED <<status, complete, cancelled>>
    BY <1>9 DEF AdvanceWave, tasks
  <2>2. wave' # wave
    BY <1>1, <2>1
  <2>3. /\ m \notin cancelled /\ wave' = [wave EXCEPT ![m] = @ + 1]
        /\ \A t \in WaveTasks(m) : status[t] = "done"
    BY <1>9, <2>2 DEF AdvanceWave
  <2>4. Journal!Advance(m)
    BY <2>1, <2>3 DEF Journal!Advance, WaveTasks, TasksOf
  <2> QED
    BY <2>4 DEF Journal!Next
<1>10. CASE CancelMission(m)
  <2>1. /\ UNCHANGED <<wave, complete>> /\ cancelled' = cancelled \cup {m}
        /\ \A t \in Task : status'[t] = "done" <=> status[t] = "done"
    BY <1>0, <1>10 DEF CancelMission, Terminal
  <2>2. IntegratedTasks' = IntegratedTasks
    BY <2>1 DEF IntegratedTasks
  <2>3. Journal!Stop(m)
    BY <2>1, <2>2 DEF Journal!Stop, IntegratedTasks
  <2> QED
    BY <2>3 DEF Journal!Next
<1> QED
  BY <1>3, <1>5, <1>6, <1>7, <1>8, <1>9, <1>10 DEF SpecialStep

\* Execution implements Integration: a task is integrated once, in the wave its
\* mission is at, and nothing is integrated after mission_cancel.
THEOREM ExecutionImplementsIntegration == Spec => ImplementsIntegration
  BY RefineInit, RefineStep, ExecutionInvariance, PTL
  DEF Spec, ImplementsIntegration, Journal!Spec
=============================================================================
