--------------------------- MODULE MissionExecution ---------------------------
(***************************************************************************)
(* The execution of the tasks of missions: worker-orchestrator.mjs inside  *)
(* capability-aware-worker-orchestrator.mjs, the calls of app.mjs that     *)
(* reach them, mission_cancel and mission_resume.                          *)
(*                                                                         *)
(* mission_execute, task_result_commit, worker_resume and mission_resume   *)
(* hold the execution lease of their mission, and any other call that      *)
(* wants it is refused: pc[m] and work[m] are of the call that holds it.   *)
(* worker_retry, worker_cancel and mission_cancel run beside it.  A        *)
(* step is one transaction of the store, or what a call does to git        *)
(* between two of them.  A runtime can die at any step, with its workers.  *)
(***************************************************************************)
EXTENDS Integers, FiniteSets, Sequences

CONSTANTS
  Mission, Task,
  NoTask,       \* not a task
  MissionOf,    \* task.missionId
  WaveOf,       \* the index of the task's wave in mission.waves, from 1
  Conflicts,    \* pairs of tasks that want a runtime resource exclusively
  MaxWorkers,   \* workerPolicy.maxWorkers
  RunWorkers,   \* bound: the runWorkers arguments of calls for each mission
  MaxTurns      \* bound: admissions, cancellations, crashes and errors

ASSUME ExecutionAssumption ==
  /\ IsFiniteSet(Task) /\ NoTask \notin Task
  /\ MissionOf \in [Task -> Mission]
  /\ MaxWorkers \in Nat \ {0} /\ MaxTurns \in Nat
  /\ RunWorkers \in [Mission -> SUBSET BOOLEAN]

\* computeWaves leaves no wave empty.
ASSUME WavesAssumption ==
  /\ WaveOf \in [Task -> Nat \ {0}]
  /\ \A t \in Task : \A n \in 1..WaveOf[t] :
       \E u \in Task : MissionOf[u] = MissionOf[t] /\ WaveOf[u] = n

VARIABLES
  status,         \* task.status
  managed,        \* tasks whose last admission was for a runtime worker
  leased,         \* tasks with a task.capabilityLease
  commits,        \* tasks that are done by a commit: task.commitSha
  wave,           \* mission.nextWaveIndex, from 1
  complete,       \* missions whose phase is no longer 'execution'
  cancelled,      \* missions whose status is 'cancelled'
  interruption,   \* missions with interruption.requiresReconciliation
  tree,           \* the worktree of each task; changes that are not committed
                  \* count when the code looks for them
  branch,         \* the commits of the mission branch after its base
  worker,         \* the worker of each task, and how it ended
  pc, work,       \* the call that holds a mission's lease
  retried, ended, \* tasks and missions of worker_retry and mission_cancel calls
                  \* whose second transaction, about leases, is still to come
  lost,           \* history: tasks picked into the branch but not recorded
  turns           \* events counted against MaxTurns

tasks == <<status, managed, leased, commits>>
missions == <<wave, complete, cancelled, interruption>>
git == <<tree, branch>>
calls == <<pc, work>>
vars == <<tasks, missions, git, worker, calls, retried, ended, lost, turns>>

Status == {"planned", "admitted", "dispatched", "executing", "cancelling",
           "interrupted", "done", "failed", "cancelled"}
Terminal == {"done", "failed", "cancelled"}
Outstanding == {"admitted", "dispatched", "executing", "cancelling", "interrupted"}

\* "committed": the HEAD of the worktree is no longer the wave base.
Tree == {"none", "clean", "committed"}
WorkerState == {"none", "working", "succeeded", "failed", "stopped"}

\* mission_execute, then task_result_commit and worker_resume, then mission_resume.
Step == {"idle", "reserve", "admit", "prepare", "work", "record", "record discarded",
         "reconcile", "pick", "record result", "drop", "reconcile resumed"}
        \cup {"discard", "advance"}

\* What a call knows: runWorkers, the tasks it reserved, those it admitted and
\* has not prepared, the task it integrates and the branch before that, and
\* whether it is a call about the result of that task.
NoWork == [managed |-> FALSE, reserved |-> {}, admitted |-> {}, task |-> NoTask,
           base |-> <<>>, result |-> FALSE]
Work == [managed : BOOLEAN, reserved : SUBSET Task, admitted : SUBSET Task,
         task : Task \cup {NoTask}, base : Seq(Task), result : BOOLEAN]

TasksOf(m) == {t \in Task : MissionOf[t] = m}
WaveTasks(m) == {t \in TasksOf(m) : WaveOf[t] = wave[m]}
Planned(m) == {t \in WaveTasks(m) : status[t] = "planned"}
Conflict(t, u) == {t, u} \in Conflicts

Init ==
  /\ status = [t \in Task |-> "planned"]
  /\ managed = {} /\ leased = {} /\ commits = {}
  /\ wave = [m \in Mission |-> 1]
  /\ complete = {} /\ cancelled = {} /\ interruption = {}
  /\ tree = [t \in Task |-> "none"] /\ branch = [m \in Mission |-> <<>>]
  /\ worker = [t \in Task |-> "none"]
  /\ pc = [m \in Mission |-> "idle"] /\ work = [m \in Mission |-> NoWork]
  /\ retried = {} /\ ended = {} /\ lost = {} /\ turns = 0

-----------------------------------------------------------------------------
(* Calls and capacity *)

Goto(m, step) == pc' = [pc EXCEPT ![m] = step]
Knows(m, known) == work' = [work EXCEPT ![m] = known]
Turn == turns < MaxTurns /\ turns' = turns + 1
SetStatus(t, s) == status' = [status EXCEPT ![t] = s]

\* ACTIVE_RUNTIME_WORKER_STATUSES
Active == {t \in Task : status[t] \in {"admitted", "executing", "cancelling", "interrupted"}}

\* Mutant: only the workers of the mission itself count.
Capacity_OwnMission(m) ==
  IF work[m].managed THEN {0} \cup 0..(MaxWorkers - Cardinality(Active \cap TasksOf(m)))
  ELSE {MaxWorkers}

\* missionExecutionCapacity: the free memory and processors of the moment may
\* leave less than the limit on workers.
Capacity(m) ==
  IF work[m].managed THEN {0} \cup 0..(MaxWorkers - Cardinality(Active)) ELSE {MaxWorkers}

\* reconcileInterruptedMission
Reconciled(m, newStatus) ==
  IF \E t \in TasksOf(m) : newStatus[t] = "interrupted"
  THEN interruption \cup {m} ELSE interruption \ {m}

-----------------------------------------------------------------------------
(* mission_execute: reservation and admission *)

Execute(m, runWorkers) ==
  /\ pc[m] = "idle" /\ m \notin cancelled \cup interruption \cup complete
  /\ Goto(m, "reserve") /\ Knows(m, [NoWork EXCEPT !.managed = runWorkers])
  /\ UNCHANGED <<tasks, missions, git, worker, retried, ended, lost, turns>>

\* Mutant: the leases of finished tasks are only ignored.
ActiveLeases_Kept == leased

\* The leases that are left when those of finished tasks are cleared.
ActiveLeases == {t \in leased : status[t] \notin Terminal}

Reservable(m, t) == \A u \in ActiveLeases : u # t /\ status[u] \notin Terminal => ~Conflict(t, u)

\* capability_execution_reserved.  A task can also be kept back for a missing
\* capability or a conflict of write sets.
Reserve(m) ==
  /\ pc[m] = "reserve"
  /\ \E capacity \in Capacity(m) :
     \E selected \in SUBSET {t \in Planned(m) : Reservable(m, t)} :
       /\ Cardinality(selected) <= capacity
       /\ \A t, u \in selected : t # u => ~Conflict(t, u)
       /\ leased' = ActiveLeases \cup selected
       /\ Knows(m, [work[m] EXCEPT !.reserved = selected])
       /\ Goto(m, IF selected = {} /\ capacity > 0 /\ Planned(m) # {}
                  THEN "reconcile" ELSE "admit")
  /\ UNCHANGED <<status, managed, commits, missions, git, worker, retried, ended, lost, turns>>

\* execute of the inner orchestrator, for a wave with planned tasks:
\* worker_admission_reserved.
Admit(m) ==
  /\ pc[m] = "admit" /\ Turn
  /\ m \notin cancelled \cup complete
  /\ Planned(m) # {}
  /\ \A t \in WaveTasks(m) : status[t] \in {"planned", "done"}
  /\ LET reserved == Planned(m) \cap leased
         candidates == IF reserved # {} THEN reserved ELSE Planned(m)
     IN \E capacity \in Capacity(m) : \E selected \in SUBSET candidates :
          /\ Cardinality(selected) <= capacity
          /\ Cardinality(selected) < capacity => selected = candidates
          /\ status' = [t \in Task |-> IF t \in selected THEN "admitted" ELSE status[t]]
          /\ managed' = IF work[m].managed THEN managed \cup selected ELSE managed \ selected
          /\ Knows(m, [work[m] EXCEPT !.admitted = selected])
          /\ Goto(m, IF selected = {} THEN "reconcile" ELSE "prepare")
  /\ UNCHANGED <<leased, commits, missions, git, worker, retried, ended, lost>>

\* execute of the inner orchestrator, otherwise: mission_execution_complete,
\* or a wave that is over, or one with tasks outstanding or to be retried.
NothingToAdmit(m) ==
  /\ pc[m] = "admit"
  /\ \/ /\ WaveTasks(m) = {} /\ m \notin cancelled
        /\ complete' = complete \cup {m} /\ Goto(m, "reconcile")
     \/ /\ WaveTasks(m) # {} /\ \A t \in WaveTasks(m) : status[t] = "done"
        /\ Goto(m, "advance") /\ UNCHANGED complete
     \/ /\ m \in cancelled \/ \E t \in WaveTasks(m) : status[t] \notin {"planned", "done"}
        /\ Goto(m, "reconcile") /\ UNCHANGED complete
  /\ UNCHANGED <<tasks, wave, cancelled, interruption, git, worker, work, retried, ended, lost, turns>>

-----------------------------------------------------------------------------
(* mission_execute: preparation and workers *)

Prepared(m, t, running) ==
  /\ Knows(m, [work[m] EXCEPT !.admitted = @ \ {t}])
  /\ Goto(m, IF work[m].admitted # {t} THEN "prepare"
             ELSE IF running THEN "work" ELSE "reconcile")

Working(m) == {t \in TasksOf(m) : worker[t] = "working"}

\* createTaskWorktree and worker_dispatched
Dispatch(m, t) ==
  /\ pc[m] = "prepare" /\ t \in work[m].admitted
  /\ m \notin cancelled /\ status[t] = "admitted"
  /\ tree' = [tree EXCEPT ![t] = "clean"]
  /\ SetStatus(t, IF work[m].managed THEN "executing" ELSE "dispatched")
  /\ worker' = [worker EXCEPT ![t] = IF work[m].managed THEN "working" ELSE "none"]
  /\ Prepared(m, t, work[m].managed)
  /\ UNCHANGED <<managed, leased, commits, missions, branch, retried, ended, lost, turns>>

\* An error before the end of worker_dispatched, which itself throws when the
\* mission is cancelled: worker_admission_released.
PrepareFails(m, t) ==
  /\ pc[m] = "prepare" /\ t \in work[m].admitted
  /\ \/ m \in cancelled /\ UNCHANGED turns
     \/ Turn
  /\ status' = [status EXCEPT ![t] = IF @ = "admitted" THEN "planned" ELSE @]
  /\ tree' = [tree EXCEPT ![t] = "none"]
  /\ Prepared(m, t, Working(m) # {})
  /\ UNCHANGED <<managed, leased, commits, missions, branch, worker, retried, ended, lost>>

\* The changes found in a worktree, if there are any, are committed there.
CommitTree(t) == tree[t] = "clean" /\ \E found \in {"clean", "committed"} : tree' = [tree EXCEPT ![t] = found]

\* The worker ends by itself.
WorkerSucceeds(m, t) ==
  /\ pc[m] = "work" /\ t \in Working(m)
  /\ worker' = [worker EXCEPT ![t] = "succeeded"]
  /\ CommitTree(t)
  /\ UNCHANGED <<tasks, missions, branch, calls, retried, ended, lost, turns>>

\* It fails or times out, or is stopped: worker_cancel and mission_cancel
\* signal it when they run in its runtime.
WorkerEnds(m, t) ==
  /\ pc[m] = "work" /\ t \in Working(m)
  /\ \/ /\ m \in cancelled \/ status[t] = "cancelling"
        /\ worker' = [worker EXCEPT ![t] = "stopped"] /\ UNCHANGED turns
     \/ /\ Turn /\ worker' = [worker EXCEPT ![t] = "failed"]
  /\ UNCHANGED <<tasks, missions, git, calls, retried, ended, lost>>

-----------------------------------------------------------------------------
(* mission_execute: integration, when all its workers have ended *)

Ended(m, t, end) == pc[m] = "work" /\ Working(m) = {} /\ t \in TasksOf(m) /\ worker[t] = end

Forget(t) == worker' = [worker EXCEPT ![t] = "none"]

\* The transactions of a failed task look at the mission, not at the task.
Unsuccessful(m, t) ==
  /\ SetStatus(t, IF m \in cancelled \/ worker[t] = "stopped" THEN "cancelled" ELSE "failed")
  /\ Forget(t)

\* worker_failed, worker_timed_out, worker_cancelled
RecordFailure(m, t) ==
  /\ Ended(m, t, "failed") \/ Ended(m, t, "stopped")
  /\ Unsuccessful(m, t)
  /\ UNCHANGED <<managed, leased, commits, missions, git, calls, retried, ended, lost, turns>>

\* The cherry-pick of the task's commit, if it has made one.
PickInto(m, t, next) ==
  /\ branch' = [branch EXCEPT ![m] = IF tree[t] = "committed" THEN Append(@, t) ELSE @]
  /\ Knows(m, [work[m] EXCEPT !.task = t, !.base = branch[m]])
  /\ Goto(m, next)

Pick(m, t) ==
  /\ Ended(m, t, "succeeded")
  /\ PickInto(m, t, "record")
  /\ UNCHANGED <<tasks, missions, tree, worker, retried, ended, lost, turns>>

\* task_integration_failed
PickFails(m, t) ==
  /\ Ended(m, t, "succeeded") /\ tree[t] = "committed" /\ Turn
  /\ Unsuccessful(m, t)
  /\ UNCHANGED <<managed, leased, commits, missions, git, calls, retried, ended, lost>>

\* Mutant: the task gets the status of its dispatch.
Done_Integrated(t) ==
  /\ SetStatus(t, "integrated")
  /\ commits' = IF tree[t] = "committed" THEN commits \cup {t} ELSE commits
  /\ tree' = [tree EXCEPT ![t] = "none"]

Done(t) ==
  /\ SetStatus(t, "done")
  /\ commits' = IF tree[t] = "committed" THEN commits \cup {t} ELSE commits
  /\ tree' = [tree EXCEPT ![t] = "none"]

\* Mutant: the mission may have been cancelled.
Record_Cancelled(m) ==
  /\ pc[m] = "record"
  /\ Done(work[m].task) /\ Forget(work[m].task)
  /\ Goto(m, "work") /\ Knows(m, [work[m] EXCEPT !.task = NoTask])
  /\ UNCHANGED <<managed, leased, missions, branch, retried, ended, lost, turns>>

\* task_integrated, and the removal of the task's worktree
Record(m) ==
  /\ pc[m] = "record"
  /\ LET t == work[m].task
     IN \/ /\ m \in cancelled
           /\ Goto(m, "discard")
           /\ UNCHANGED <<status, commits, tree, worker, work>>
        \/ /\ m \notin cancelled
           /\ Done(t) /\ Forget(t)
           /\ Goto(m, "work") /\ Knows(m, [work[m] EXCEPT !.task = NoTask])
  /\ UNCHANGED <<managed, leased, missions, branch, retried, ended, lost, turns>>

\* Mutant: the commit stays.
Discard_Keeps(m) ==
  /\ pc[m] = "discard"
  /\ Goto(m, IF work[m].result THEN "drop" ELSE "record discarded")
  /\ UNCHANGED <<tasks, missions, git, worker, work, retried, ended, lost, turns>>

\* Mutant: the reset goes back to the base of the mission.
Discard_ToBase(m) ==
  /\ pc[m] = "discard"
  /\ branch' = [branch EXCEPT ![m] = <<>>]
  /\ Goto(m, IF work[m].result THEN "drop" ELSE "record discarded")
  /\ UNCHANGED <<tasks, missions, tree, worker, work, retried, ended, lost, turns>>

\* git reset --hard to what the branch was before the cherry-pick
Discard(m) ==
  /\ pc[m] = "discard"
  /\ branch' = [branch EXCEPT ![m] = work[m].base]
  /\ Goto(m, IF work[m].result THEN "drop" ELSE "record discarded")
  /\ UNCHANGED <<tasks, missions, tree, worker, work, retried, ended, lost, turns>>

\* worker_result_discarded_after_mission_cancel
RecordDiscarded(m) ==
  /\ pc[m] = "record discarded"
  /\ SetStatus(work[m].task, "cancelled") /\ Forget(work[m].task)
  /\ Goto(m, "work") /\ Knows(m, [work[m] EXCEPT !.task = NoTask])
  /\ UNCHANGED <<managed, leased, commits, missions, git, retried, ended, lost, turns>>

Integrated(m) == pc[m] = "work" /\ \A t \in TasksOf(m) : worker[t] = "none"

\* Mutant: the first task that is done completes the wave.
AdvanceWave_First(m) ==
  /\ pc[m] = "advance" \/ Integrated(m)
  /\ wave' = IF m \notin cancelled /\ \E t \in WaveTasks(m) : status[t] = "done"
             THEN [wave EXCEPT ![m] = @ + 1] ELSE wave
  /\ Goto(m, IF work[m].result THEN "drop" ELSE "reconcile")
  /\ UNCHANGED <<tasks, complete, cancelled, interruption, git, worker, work, retried, ended, lost, turns>>

\* mission_wave_completed
AdvanceWave(m) ==
  /\ pc[m] = "advance" \/ Integrated(m)
  /\ wave' = IF /\ m \notin cancelled /\ WaveTasks(m) # {}
                /\ \A t \in WaveTasks(m) : status[t] = "done"
             THEN [wave EXCEPT ![m] = @ + 1] ELSE wave
  /\ Goto(m, IF work[m].result THEN "drop" ELSE "reconcile")
  /\ UNCHANGED <<tasks, complete, cancelled, interruption, git, worker, work, retried, ended, lost, turns>>

\* capability_execution_released, and the release of the mission's lease
Reconcile(m) ==
  /\ pc[m] = "reconcile"
  /\ leased' = leased \ {t \in work[m].reserved : status[t] \notin Outstanding}
  /\ Goto(m, "idle") /\ Knows(m, NoWork)
  /\ UNCHANGED <<status, managed, commits, missions, git, worker, retried, ended, lost, turns>>

-----------------------------------------------------------------------------
(* task_result_commit and worker_resume *)

ResultCall(m, t) == [NoWork EXCEPT !.task = t, !.base = branch[m], !.result = TRUE]

CommitResult(m, t) ==
  /\ pc[m] = "idle" /\ MissionOf[t] = m /\ m \notin cancelled
  /\ status[t] \in {"dispatched", "interrupted"}
  /\ CommitTree(t)
  /\ Knows(m, ResultCall(m, t)) /\ Goto(m, "pick")
  /\ UNCHANGED <<tasks, missions, branch, worker, retried, ended, lost, turns>>

PickResult(m) ==
  /\ pc[m] = "pick"
  /\ PickInto(m, work[m].task, "record result")
  /\ UNCHANGED <<tasks, missions, tree, worker, retried, ended, lost, turns>>

\* external_task_result_integrated
RecordResult(m) ==
  /\ pc[m] = "record result"
  /\ \/ /\ m \in cancelled
        /\ Goto(m, "discard")
        /\ UNCHANGED <<status, commits, tree, interruption>>
     \/ /\ m \notin cancelled
        /\ Done(work[m].task)
        /\ interruption' = Reconciled(m, status')
        /\ Goto(m, "advance")
  /\ UNCHANGED <<managed, leased, wave, complete, cancelled, branch, worker, work,
                 retried, ended, lost, turns>>

\* worker_resume of a task whose worktree has no changes retries it.
ResumeWorker(m, t) ==
  /\ pc[m] = "idle" /\ MissionOf[t] = m /\ m \notin cancelled
  /\ status[t] = "interrupted" /\ tree[t] = "clean"
  /\ SetStatus(t, "planned") /\ interruption' = Reconciled(m, status')
  /\ Knows(m, ResultCall(m, t)) /\ Goto(m, "drop")
  /\ UNCHANGED <<managed, leased, commits, wave, complete, cancelled, git, worker,
                 retried, ended, lost, turns>>

\* Either of them throws before it has done anything, as the task is in another
\* status, the mission cancelled, the worktree gone, its HEAD moved, its
\* changes partial or out of scope; the finally block drops the lease.
RefuseResult(m, t) ==
  /\ pc[m] = "idle" /\ MissionOf[t] = m
  /\ leased' = leased \ {t}
  /\ UNCHANGED <<status, managed, commits, missions, git, worker, calls, retried, ended, lost, turns>>

\* capability_task_released, in the same finally block
Drop(m) ==
  /\ pc[m] = "drop"
  /\ leased' = leased \ {work[m].task}
  /\ Goto(m, "idle") /\ Knows(m, NoWork)
  /\ UNCHANGED <<status, managed, commits, missions, git, worker, retried, ended, lost, turns>>

-----------------------------------------------------------------------------
(* Calls without the lease, and mission_resume *)

\* Mutant: one retry ends the interruption of the mission.
RetryWorker_Clears(t) ==
  /\ status[t] \in {"failed", "interrupted", "cancelled"} /\ MissionOf[t] \notin cancelled
  /\ SetStatus(t, "planned") /\ interruption' = interruption \ {MissionOf[t]}
  /\ retried' = retried \cup {t}
  /\ UNCHANGED <<managed, leased, commits, wave, complete, cancelled, git, worker, calls,
                 ended, lost, turns>>

\* worker_retry_scheduled
RetryWorker(t) ==
  /\ status[t] \in {"failed", "interrupted", "cancelled"} /\ MissionOf[t] \notin cancelled
  /\ SetStatus(t, "planned") /\ interruption' = Reconciled(MissionOf[t], status')
  /\ retried' = retried \cup {t}
  /\ UNCHANGED <<managed, leased, commits, wave, complete, cancelled, git, worker, calls,
                 ended, lost, turns>>

\* capability_task_released
DropRetried(t) ==
  /\ t \in retried /\ retried' = retried \ {t}
  /\ leased' = leased \ {t}
  /\ UNCHANGED <<status, managed, commits, missions, git, worker, calls, ended, lost, turns>>

\* worker_cancel_requested
CancelWorker(t) ==
  /\ status[t] = "executing" /\ Turn
  /\ SetStatus(t, "cancelling")
  /\ UNCHANGED <<managed, leased, commits, missions, git, worker, calls, retried, ended, lost>>

\* mission_cancelled
CancelMission(m) ==
  /\ Turn
  /\ cancelled' = cancelled \cup {m}
  /\ status' = [t \in Task |-> IF MissionOf[t] # m \/ status[t] \in Terminal THEN status[t]
                               ELSE IF status[t] = "executing" THEN "cancelling" ELSE "cancelled"]
  /\ leased' = leased \ {t \in TasksOf(m) : status[t] \notin Terminal \cup {"executing"}}
  /\ ended' = ended \cup {m}
  /\ UNCHANGED <<managed, commits, wave, complete, interruption, git, worker, calls, retried, lost>>

\* reconcileMission
Unleased(m) == leased \ {t \in TasksOf(m) : status[t] \in Terminal \cup {"planned"}}

\* capability_mission_reconciled, of mission_cancel
ReconcileCancelled(m) ==
  /\ m \in ended /\ ended' = ended \ {m}
  /\ leased' = Unleased(m)
  /\ UNCHANGED <<status, managed, commits, missions, git, worker, calls, retried, lost, turns>>

\* mission_resumed, with the lease
ResumeMission(m) ==
  /\ pc[m] = "idle" /\ m \notin cancelled
  /\ status' = [t \in Task |-> IF MissionOf[t] # m THEN status[t]
                               ELSE IF status[t] = "admitted" THEN "planned"
                               ELSE IF status[t] \in {"executing", "cancelling"} THEN "interrupted"
                               ELSE status[t]]
  /\ interruption' = Reconciled(m, status')
  /\ Goto(m, "reconcile resumed")
  /\ UNCHANGED <<managed, leased, commits, wave, complete, cancelled, git, worker, work,
                 retried, ended, lost, turns>>

\* capability_mission_reconciled, of mission_resume
ReconcileResumed(m) ==
  /\ pc[m] = "reconcile resumed" /\ Goto(m, "idle")
  /\ leased' = Unleased(m)
  /\ UNCHANGED <<status, managed, commits, missions, git, worker, work, retried, ended, lost, turns>>

-----------------------------------------------------------------------------
(* Errors and crashes *)

\* The task whose commit is in the branch, but not recorded.
Unrecorded(m) ==
  IF pc[m] \in {"record", "record result", "discard"} /\ tree[work[m].task] = "committed"
  THEN {work[m].task} ELSE {}

Abandon(m) ==
  /\ worker' = [t \in Task |-> IF MissionOf[t] = m THEN "none" ELSE worker[t]]
  /\ lost' = lost \cup Unrecorded(m)

\* git, the store, a service or the evidence of a failed worker throws.  The
\* call's other workers, which run on in the code, end here.
Fails(m) ==
  /\ pc[m] \notin {"idle", "reconcile", "drop", "reconcile resumed"} /\ Turn
  /\ Abandon(m)
  /\ Goto(m, IF work[m].result THEN "drop" ELSE "reconcile")
  /\ UNCHANGED <<tasks, missions, git, work, retried, ended>>

\* The runtime of the lease's holder dies; its lease is reclaimed when the
\* next call finds the process gone.
Crash(m) ==
  /\ pc[m] # "idle" /\ Turn
  /\ Abandon(m)
  /\ Goto(m, "idle") /\ Knows(m, NoWork)
  /\ UNCHANGED <<tasks, missions, git, retried, ended>>

\* The second transaction of worker_retry or mission_cancel fails.
Forgets ==
  /\ retried \cup ended # {} /\ Turn
  /\ retried' = {} /\ ended' = {}
  /\ UNCHANGED <<tasks, missions, git, worker, calls, lost>>

ExecuteStep(m) ==
  \/ \E runWorkers \in RunWorkers[m] : Execute(m, runWorkers)
  \/ Reserve(m) \/ Admit(m) \/ NothingToAdmit(m)
  \/ \E t \in Task :
       \/ Dispatch(m, t) \/ PrepareFails(m, t)
       \/ WorkerSucceeds(m, t) \/ WorkerEnds(m, t)
       \/ RecordFailure(m, t) \/ Pick(m, t) \/ PickFails(m, t)
  \/ Record(m) \/ Discard(m) \/ RecordDiscarded(m) \/ AdvanceWave(m) \/ Reconcile(m)

ResultStep(m) ==
  \/ \E t \in Task : CommitResult(m, t) \/ ResumeWorker(m, t) \/ RefuseResult(m, t)
  \/ PickResult(m) \/ RecordResult(m) \/ Drop(m)

Next ==
  \/ \E m \in Mission :
       \/ ExecuteStep(m) \/ ResultStep(m)
       \/ CancelMission(m) \/ ReconcileCancelled(m)
       \/ ResumeMission(m) \/ ReconcileResumed(m)
       \/ Fails(m) \/ Crash(m)
  \/ \E t \in Task : RetryWorker(t) \/ DropRetried(t) \/ CancelWorker(t)
  \/ Forgets

Spec == Init /\ [][Next]_vars

-----------------------------------------------------------------------------
(* Properties *)

\* The variables keep their types.
TypeOK ==
  /\ status \in [Task -> Status] /\ tree \in [Task -> Tree] /\ worker \in [Task -> WorkerState]
  /\ managed \subseteq Task /\ leased \subseteq Task /\ commits \subseteq Task
  /\ wave \in [Mission -> Nat] /\ branch \in [Mission -> Seq(Task)]
  /\ complete \subseteq Mission /\ cancelled \subseteq Mission /\ interruption \subseteq Mission
  /\ pc \in [Mission -> Step] /\ work \in [Mission -> Work]
  /\ retried \subseteq Task /\ ended \subseteq Mission /\ lost \subseteq Task /\ turns \in Nat

\* Two leases that count never conflict, although leases of failed tasks
\* linger until someone clears them and a retry makes their task live again.
LeasesExclude ==
  \A t, u \in leased : t # u /\ {status[t], status[u]} \cap Terminal = {} => ~Conflict(t, u)

\* However calls of several missions interleave, crash and are retried, the
\* tasks that occupy a worker never exceed the limit.
WorkerBound == Cardinality(Active \cap managed) <= MaxWorkers

\* A commit that a task was recorded as done by stays in the mission branch:
\* no reset of a discarded result takes it away.
RecordedStays ==
  \A t \in commits : status[t] = "done" /\ \E i \in DOMAIN branch[MissionOf[t]] : branch[MissionOf[t]][i] = t

\* Every commit of the branch is recorded, about to be recorded or withdrawn,
\* or was left behind by an error or a crash between the two; only after one
\* of those is a task picked a second time.
BranchIsAccounted ==
  \A m \in Mission : \A i, j \in DOMAIN branch[m] :
    LET t == branch[m][i]
    IN /\ t \in commits \cup lost \cup Unrecorded(m)
       /\ i # j /\ branch[m][j] = t => t \in lost

\* The branch follows the waves: no task is picked before one of an earlier wave.
WaveOrder ==
  \A m \in Mission : \A i, j \in DOMAIN branch[m] :
    i < j => WaveOf[branch[m][i]] <= WaveOf[branch[m][j]]

\* A mission with an interrupted task is one that no execution starts in.
InterruptionIsFlagged == \A t \in Task : status[t] = "interrupted" => MissionOf[t] \in interruption

\* Execution implements Integration.
Journal == INSTANCE Integration WITH
  integrated <- {t \in Task : status[t] = "done"},
  at <- wave, finished <- complete, stopped <- cancelled
ImplementsIntegration == Journal!Spec

\* Tasks that want the same resource exclusively are not outstanding together.
ResourceExclusion ==
  \A t, u \in Task :
    t # u /\ {status[t], status[u]} \subseteq Outstanding => ~Conflict(t, u)

=============================================================================
