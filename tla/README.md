# A verification of Veteran Engineering Studio in TLA+

Veteran Engineering Studio (`src/src/*.mjs`) is a runtime that plans and executes software
missions: an operator, through an MCP client, registers a project, plans a mission of tasks,
lets workers execute the tasks in git worktrees, has the result validated and reviewed, and
gets a merge proposal of an immutable candidate commit. Many runtimes may share one durable
state, every tool call may be repeated, interrupted or run beside others, and the runtime
may die anywhere.

This directory holds TLA+ models of the parts of it where that is hard, the TLC
configurations that check them on small instances, and TLAPS proofs of their main safety
properties for every value of their constants. `PROJECT.json` maps each definition to
the lines it was translated from, and lists the runs, the hazards and the theorems.

## 1. The system

### 1.1 Components, their state, their operations

| component (files in `src/src`) | state it keeps | operations that change it | what makes it correct |
| --- | --- | --- | --- |
| state lock (`state-store` 114-170, `process-lifecycle-authority`) | one lock file with pid and token | `acquireLock`, release | exclusion; the lock of a live owner is never reclaimed, that of a dead one is |
| local JSON store (`state-store`) | `state.json`, `state.json.bak`, `audit.jsonl` (hash chain) | `init`, `transaction`, `reconcilePendingAudit`, recovery in `read` | one commit at a time; every commit audited once and in order; no durable commit reported as a failure; the backup never lags by more than one commit |
| PostgreSQL store (`postgres-state-backend`) | one row of state, a table of audit lines | the same interface | the same, with lost COMMIT answers |
| request ledger (`app` `callTool`, `idempotency`) | `state.requests` | `beginRequest`, `completeRequest`, `failRequest`, `markRequestUnknown`, start-up reconciliation | a request is executed once at most; the record never contradicts what became of it |
| mission lifecycle (`mission-service`, `mission-advance*`) | `state.missions`: phase, status, waves, proofs, active candidate and proposal | `mission_plan`, `mission_advance`, `mission_cancel`, `mission_resume` | only proven commits are proposed; a cancelled mission stays so; drift supersedes |
| review and remediation (`review-service`) | `mission.review`, `.semanticReview`, appended waves | `review_run`, `semantic_review_run`, `remediation_plan` | a remediation answers the review that failed, once |
| candidates (`candidate-service`) | `runtime.candidates`, git refs `refs/veteran/candidates/*`, `runtime.mergeProposals` | `candidate_refresh`, advance in the candidate and finalize phases | candidates are immutable; refs and records agree; one proposal stands |
| mission execution (`worker-orchestrator`, `mission-execution-lease`, `worktree-manager`) | task statuses and dispatches, admissions, the lease file, worktrees and branches | `mission_execute`, `worker_cancel`, `worker_retry`, `worker_resume`, `task_result_commit` | a task is integrated once; waves in order; admissions bounded and given back |
| resource leases (`capability-aware-worker-orchestrator`, `capability-plane`) | `task.capabilityLease` | reserve, reconcile | conflicting tasks do not run together; leases of dead tasks are returned |
| runtime feedback (`feedback-aware-worker-orchestrator`, `runtime-feedback-service`) | `mission.runtimeFeedback`, repair waves | after each wave; at checkpoints | one repair wave per failed round, only for the current head |
| validation (`validation-service`, `validation-scheduler`, `mission-advance-core` 120-260) | `mission.validation`, the running batch in memory | `validation_run`, advance | capabilities that conflict do not overlap, tiers follow each other; a failure drains what runs and starts nothing more |
| live validation sessions (`live-validation-session-manager`, `browser-validation-session-manager`) | leases in the store, sessions, worktrees and timers in memory | `acquire`, `finish`, `releaseMission`, `releaseAll`, idle timers | one owner for each key and endpoint; only leases of dead runtimes are reaped; a release leaves nothing of its scope |
| worker processes (`worker-adapter`, `worker-supervisor`, `container-worker`) | runs and cancellations in memory, a supervisor and a process group for each run | `run`, `cancel`, `cancelMission`, time limits | nothing is forked for what was cancelled; a result means that the group is gone; no group is left behind |
| runtime status and cleanup (`runtime-service`) | worktrees and candidate refs on disk | `runtime_cleanup` | nothing is removed that a call still needs |
| project bootstrap (`bootstrap-executor`, `project-*`) | bootstrap receipts | authorized bootstrap before a wave | runs once per authorization |
| evidence, experience (`evidence-service`, `experience-*`) | append-only records | record, confirm, retract | plain transactions |
| remote host (`remote-host-service`, `-server`, `-config`, `-tunnel`) | `service.json`, `control.json`, `pid.json`, `supervisor.lock`, a supervisor and its host process | `start`, `pause`, `stop`, `install`, `uninstall`, the supervisor's loop | one supervisor; it takes its host with it; the last command is heard |
| machine actions (`machine-action-service`) | sessions and time limits in memory, process groups, files of the user | `process.start`, `process.stop`, `shutdown`, file operations | no process is forgotten or without a limit; a shutdown is true |
| native agent, MCP server, tool catalog, planning, configuration, installer | processes, files, tables | see `PROJECT.json` | mostly I/O and tables |

The files under `skills/.../plugin-runtime-starter` are a copy of `src/` for distribution and
are not looked at separately.

### 1.2 How they interact

Every tool call enters `callTool` (`app.mjs` 240-316). A mutating call is bracketed by the request
ledger: `beginRequest` before the handler, a status transaction after it. Handlers change durable state
only through `store.transaction(name, mutate, meta)`; between two transactions they run git,
workers, reviewers and validators for minutes, and what they have read before may have
become untrue. `mission_execute`, `mission_resume`, `task_result_commit`, `worker_resume` and, in the execution
phase, `mission_advance` hold the execution lease of the mission; nothing else excludes another call.
The store serializes transactions between runtimes by the state lock (local JSON) or by an
advisory lock (PostgreSQL). A transaction whose audit record is in doubt throws
`STATE_COMMIT_AUDIT_OUTCOME_UNKNOWN`, which the ledger turns into a request of unknown outcome.

### 1.3 What is hard here

* lock files judged by two system calls and removed by name;
* crashes between the rename of the state and the append to the log, backups, torn lines;
* errors in a finally block after a commit; errors that are swallowed while another is reported;
* repeated requests on several runtimes, in doubt about their own first transaction;
* long calls that commit late into a mission that was cancelled, remediated, drifted or finalized;
* cherry-picks and git refs made beside, not in, the transaction that records them;
* cleanup beside running calls;
* COMMIT answers that are lost, and commits that land after they were given up;
* processes with their groups, supervisors and timers, which outlive each other in any order;
* sessions, leases and lock files of runtimes that may be dead.

`PROJECT.json` lists these hazards one by one, at their lines, with the properties that are about them.

## 2. Modules

| module | models | theorems in |
| --- | --- | --- |
| `StateLock` | `acquireLock` and its release | `StateLock_proofs` |
| `AuditedJournal` | abstract: what a durable store promises | |
| `StateStore` | `init`, `transaction`, `reconcilePendingAudit`, recovery, audit log | `StateStore_proofs` |
| `RequestLedger` | `callTool` around a handler | `RequestLedger_proofs` |
| `MissionLifecycle` | a mission from its first wave to its merge proposal | `MissionLifecycle_proofs` |
| `Integration` | abstract: what execution promises about the results of tasks | |
| `MissionExecution` | the tasks of several missions in waves: admission, leases, workers, integration, recovery | `MissionExecution_proofs` |
| `RevisionedStore` | abstract: what a store shared by several runtimes promises its callers | |
| `PostgresStore` | the backend on PostgreSQL: `transaction`, `compareAndCommit`, reconciliation, lost answers | `MCServices_proofs` |
| `RuntimeCleanup` | `runtime_cleanup` beside the operations that use worktrees and refs | `MCServices_proofs` |
| `ValidationPlan` | tiers, batches and the loop of the final validation | `MCProcesses_proofs` |
| `LiveSessions` | live validation sessions of several runtimes | `MCProcesses_proofs` |
| `WorkerProcess` | the runs of workers, their supervisors and process groups | `WorkerService_proofs` |
| `WorkerService` | the instance of `WorkerProcess` that the two sums below share | `WorkerService_proofs` |
| `RemoteHostService` | supervisors of the remote host and the commands to them | `MCProcesses_proofs` |
| `MachineActions` | the processes and sessions of `machine_act` | `MCProcesses_proofs` |

Each `MC...` module makes an instance for TLC of one of them or of several; each `.cfg` is one run.
`MCServices` and `MCProcesses` are sums: they hold the variables of several services that share none, the initial state chooses the
`service` that runs, and the variables of the others rest at one of their initial states. The behaviours are those of the services, one after the
other, so each property says of its service what a run of its own would say. The workers are in both: `MCServices` has the safety of several runs in one task, `MCProcesses` the liveness of one.
The modules are layered as the program is: `StateStore` takes the exclusion that
`StateLock` examines for granted (`holder`), `RequestLedger` takes from `StateStore` that a transaction ends in
one of five ways (`Ending`: committed, refused, raised, unknown, lost), and `MissionLifecycle` takes a transaction as
one atomic step. `MissionExecution` opens the execution phase that `MissionLifecycle` has as one step of a call, again with
atomic transactions. What a layer establishes is what the next one assumes, with two
exceptions that the violation runs show: the lock can be stolen, and an error of its release
hides a commit.

### 2.1 StateLock

`lock` is the lock file: who created it, with which pid and token, whether its payload is written and
whether it is older than `lockStaleMs`. One action is one file system call: `Create` is `open('wx')`,
`WritePayload` the `writeFile` and `sync` after it, `Stat` and `ReadPayload` the two inspections (in
either order, since the code starts both), `Judge` the decision with the answer of `process.kill(pid, 0)`, `Reclaim`
the unlink by name, `Timeout` and `Sleep` the rest of the loop, `ReleaseRead` and `ReleaseUnlink` the
release closure. `Age` lets a lock grow old while its owner is in one of `SlowPhase`; `Crash` and
`Restart` end and begin a process with a new pid. `stolen` is history: some unlink removed the lock of a live owner.

### 2.2 StateStore and AuditedJournal

A commit is a number from a counter; a state file is the sequence of commits in it, which is how
the model tells one JSON document from another. `audit` is the sequence of commits the log tells of and
`chain` whether its last line is torn. An operation of a process runs through the phases of
`pc`: read, restore, log, reconcile, mutate, copy, rename, append, release; each is one action, with its error paths beside it.
A failing append may leave nothing, half a line or the whole line (`AppendFault`). `read()` takes the backup after any error: of a damaged state file, and of a
call that fails for a moment on a sound one (`ReadBackup`, at the cost of a fault). `Crash` leaves the files as they
are; `CopyStart`/`CopyEnd` are the non-atomic copy to the backup; `Damage` is a state file that
became unreadable. `outcome` and `undone` are history: what the caller of each commit was told, and
which commits a recovery from the backup lost (`Restore`). Before the backup is read, `pathExists` calls access(2); that it finds a file that exists is taken for granted.

`AuditedJournal` has two variables: the commits of the durable state and those of the log. It may
commit when the last commit is audited, audit the last commit, and roll back to a prefix.
`ImplementsJournal` is the refinement with `Durable` (what a reader would find) for the first.

### 2.3 RequestLedger

`records` is `state.requests`, `pc` and `told` where each call is and what it was answered. The store is abstracted
to the `Ending` of each transaction; a handler is abstracted to whether it returned, rejected
or met a transaction of unknown outcome, and to what it makes of the last: it throws it on to `callTool` (`HandlerThrows`), or keeps it to itself (`HandlerSwallows`) and then
returns, or throws another error, as a release of a lease in a finally block does. `concealed` is history: the doubtful calls of whose doubt `callTool` was not told. `Start` is the reconciliation of started requests at start-up of any
runtime, also beside live ones; `Crash` ends the calls of a runtime.

### 2.4 MissionLifecycle

One mission. `phase`, `cancelled`, `proof`, `active`, `proposed` are its fields, `candidates` and `proposals` the
runtime's tables, `sourceHead` and `missionHead` the two git heads. A tool call is a slot `a \in Call` with a step
`pc[a]` and what it knows, `work[a]`. A call takes a snapshot (`Advance`, `CallReview`, `CallRemediate`, `CallRefresh`,
`CallExecute`), runs outside the store (`Examine`, `Preflight`, `Compare`: what they saw goes into `work`), and commits
(`RecordValidation`, `RecordReview`, `MarkReviewed`, `Remediate`, `RecordCandidate`, `CandidateReady`, `Propose`, `ScheduleRepair`, `ExecutionComplete`) with exactly the checks
that the code makes inside the transaction. `Fails` ends a call anywhere. Advance's review records its proof and moves the
phase in two transactions, so they are two actions.

Abstracted: a wave is planned or integrated as a whole; statuses 'skipped' and 'passed' of a proof are one;
of the mission's statuses only 'cancelled' is kept; interruption and reconciliation, evidence, findings, git refs and the lease
are left out, the lease up to its exclusion of a second execution.
A commit is the head of the mission branch or the merge made for one candidate, so that two
candidates without drift share a commit, as they do in git.

### 2.5 MissionExecution and Integration

Missions whose tasks lie in waves (`MissionOf`, `WaveOf`); `Conflicts` says which tasks want a runtime resource exclusively.
`status`, `leased` (a `capabilityLease`), `managed` (the last admission was for a runtime worker) and `commits` are fields of the tasks,
`wave`, `complete`, `cancelled` and `interruption` of the missions. Beside the store are git, with a `tree` for each task and
the mission `branch` as the sequence of tasks picked into it, and the `worker` of each task.
At most one call holds the execution lease of a mission: `pc[m]` is its step and `work[m]` what it has in memory.

* `mission_execute`: `Execute`, then `Reserve` (leases, in the outer orchestrator), `Admit` (slots, in the inner one) or `NothingToAdmit`,
  `Dispatch` or `PrepareFails` for each admitted task, `WorkerSucceeds` or `WorkerEnds` for each worker, and when all have ended
  `Pick`, `Record` and, if the mission was cancelled, `Discard` and `RecordDiscarded`, or `PickFails`, or `RecordFailure`; then `AdvanceWave` and
  `Reconcile`. The cherry-pick and the transaction that records it are two steps, as are the refusal of a record and the reset of the branch.
* `task_result_commit` and `worker_resume` of a changed worktree: `CommitResult`, `PickResult`, `RecordResult`, `AdvanceWave`, and `Drop`, which is their finally block;
  `ResumeWorker` of an unchanged one; `RefuseResult` when they throw early, which drops the task's lease too.
* `mission_resume`: `ResumeMission`, `ReconcileResumed`.
* Without the lease: `worker_retry` (`RetryWorker`, and `DropRetried` as its second transaction), `worker_cancel` (`CancelWorker`),
  `mission_cancel` (`CancelMission`, `ReconcileCancelled`).
* `Fails` is an error of git, the store or a service at any step; `Crash` ends the runtime of the call that holds the lease, with its workers.
  `Forgets` is the loss of a second transaction.

`lost` is history: tasks whose commit was in the branch when an error or a crash came between pick and record.
`Integration` has four variables: the tasks integrated, the wave each mission is at, the missions that left execution and those stopped. `ImplementsIntegration`
maps `status[t] = "done"`, `wave`, `complete` and `cancelled` to them.

Abstracted: capacity is any number up to the limit less the active workers (memory and processors decide it); reservation may keep any task back
(missing capability, conflict of write sets); the mission worktree failing before any task is prepared is `PrepareFails` for each;
removal of a worktree is part of the record; project snapshots, bootstrap and the checks of the source before a dispatch are errors of `Fails`;
attempts, evidence, experience and the packets for workers are left out, and so are repair waves, which `MissionLifecycle` has.
When one worker's error handling throws, `Promise.all` rejects and the lease is released while the other workers of the call run on (`worker-orchestrator.mjs` 336, 394). In `Fails` they end there. In the code
they may still commit in their own worktrees and record evidence, but nobody reads their results any more: such commits are left in the worktree as those of a crashed call are.
A result call of a crashed runtime may find commits in the worktree of its task and is then refused, as in the code.

### 2.6 PostgresStore and RevisionedStore

`row` is the row of an instance (revision and state, the state as the sequence of the calls whose commits are in it), `log` its audit table. Each call
has a client (`stage`, `view`, `reply`) and a session on the server (`status`): `ReadSnapshot`, `Lock`, the mutator's outcomes, `Write`, `SendCommit`, then the answer
(`Acknowledged`), or a lost connection (`CommitFails`) and the look into the log on a new one (`Resolve`). `ServerCommits`,
`CommitIsLost` and `ServerAborts` are what the server does meanwhile or later.
`RevisionedStore` has the commits and what each caller was told: a commit is appended once, right behind the revision that its caller expected, "ok" means
committed and "refused" means never. `KeepsPromise` is the refinement.

### 2.7 RuntimeCleanup

Directories and refs on disk, the fields of the state that refer to them, operations on them, and
the cleanup as the steps of its handler: read the state, list directories, check and remove one after the other, prune, list refs, check and remove.
What the cleanup knows is what it has read last; operations begin, commit, crash and end at any time between.
An operation has a `kind`, which is what it does (a task in its worktree, a validation in a worktree of its own, a live session, a candidate, an integration in the worktree of the mission), and a
`tool`, which is whose request it is. `Does` says which tools do what: `mission_advance` executes tasks and validates, in live sessions, too, as `mission_execute` does, and makes candidates; a request that does several of these is several operations.
The cleanup waits for tools, `mission_execute` and `validation_run` for directories (`Fenced`) and `candidate_refresh` and `mission_advance` for refs (`Producing`). Of directories it keeps in addition what the state refers to, whoever works there (`KeptFor`).
A live session has its lease from the reservation on, before its worktree exists and until after it is removed (`Leased`, `Unlease`), also when an old worktree of its key is reclaimed first (`reclaim`) or a start is undone.

### 2.8 ValidationPlan

A catalog (the tier of each capability and the pairs that conflict) and a limit are chosen initially. `Batches`, `Queue` and `Tiers` are the planner as folds and recursive
functions; `StartTier`, `Admit`, `RunEnds`, `Turn` and `TierEnds` are the loop of `runValidationPlan`, in which runs end in any order while the loop waits.

### 2.9 LiveSessions

Several runtimes with their maps of sessions, starts and releases, and the leases in the store that they share. A thread is an observation (`Acquire` to
`Finish`), a release of a mission or of everything (`BeginRelease` to `EndRelease`), or an idle timer (`Fire`). Locks of keys, the global lock of `Reserve`, restarts,
and the failures of a start with their undoing are actions; a runtime may crash anywhere and transactions may fail before or after their commit.

### 2.10 WorkerProcess

The runs of one runtime: `Claim`, `Prepare`, `Fork`, `Start`, then cancellation, time limit, the report of the pid, the supervisor's signals, timers and reaping, the end of the leader, of its
group and of its output, and what the adapter makes of it (`Close`, `CloseLost`). A message to a supervisor that is gone fails, whether it is the start or a termination, and ends the run with its claim (`SendFails`)
before the end of the supervisor is dealt with (`CloseFailed`). The runtime or a supervisor may die at any point.

### 2.11 RemoteHostService

`pc[s]` is where supervisor `s` is between its lock, the polls of the control file and its finally block; `host[s]` is its child. Operators give one command each, whose writes, reads, signals and
calls of Windows' scheduler are steps (`Give` to `Register`). A write to the log that fails breaks the chain of promises behind it (`mute`), after which the finally block
stops at its next line: `Close` then leads to `lingering`, where the process waits for its child. `raced` and `missed` are history.
A spawn that throws is tried again; one that reports its error after the call ends the process with its files in place, since nobody listens for it yet (`Serve`).

### 2.12 MachineActions

Calls of `process.start` from the check of the limit (`Prune`) over `Spawn` to the registered session or the one-shot process (`Keep`), close events and time limits, `process.stop`,
and the `shutdown` of the service with its grace period and its SIGKILL. A process is a leader, the rest of its group and perhaps one that has left it with the output.

## 3. Runs

| run | instance | states, time | shows |
| --- | --- | --- | --- |
| `lock_protocol` | 2 runtimes, 2 calls each, 1 crash, restart, 1 failed write, stalls in every phase | 114 k, 25 s | `TypeOK`, `ExclusionUnlessStolen`, `TheftOnlyByRace`, `AcquireEnds` |
| `lock_stolen` | 2 runtimes, no crash | counterexample | `MutualExclusion` does not hold |
| `store_journal` | 2 processes, 3 commits, 2 faults, 1 crash, 1 damage | 437 k, 100 s | `AuditInOrder`, `OneCommitBehind`, `AnswersAreTrue`, `ImplementsJournal`, `OperationEnds` |
| `store_release_error` | 1 process, 2 commits | counterexample | `ErrorsHideNoCommit` does not hold |
| `request_ledger` | ledger: 3 calls, 1 request identity, 2 payloads, 2 runtimes, 3 faults, 1 crash; PostgreSQL: 3 calls, 2 lost connections; cleanup: 6 pairs of operations with their tools, 1 crash; workers: 2 runs, 1 loss | 800 k, 190 s | `RunOnce`, `ResultIsDurable`, `DoubtIsUnknown`, `SettledForGood`, `LogTellsTheTruth`, `KeepsPromise`, `RemovesOnlyOrphans`, `GroupsAreContained`, `CancelledNeverForks` |
| `ledger_foreign_replay` | 2 calls | counterexample | `ReplayIsOwn` does not hold |
| `mission_lifecycle` | 2 concurrent calls, 1 source move, 2 waves, 2 candidates, 2 proposals, 2 detours | 1.08 M, 60 s | `ProposalIsProven`, `ProposalExpectsItsHeads`, `NamedProposalStands`, `CancelledIsFrozen` |
| `lifecycle_stale_proposal` | the same | counterexample | `ProposalFollowsCandidate` does not hold |
| `lifecycle_cancelled_revived` | the same | counterexample | `CancelledIsFinal` does not hold |
| `mission_execution` | 2 missions, 3 tasks in 2 waves and 1 task, 2 conflicts between missions, 2 workers, 3 turns | 735 k, 60 s | `LeasesExclude`, `WorkerBound`, `RecordedStays`, `BranchIsAccounted`, `WaveOrder`, `InterruptionIsFlagged`, `ImplementsIntegration` |
| `execution_unleased` | the same | counterexample | `ResourceExclusion` does not hold |
| `processes` | validation: 3 capabilities in every catalog; sessions: 2 observations, 1 release, 2 runtimes, 1 endpoint, 1 fault; workers: 1 run, 1 loss; remote host: 3 supervisors, 2 commands, 1 fault; machine actions: 2 starts, 1 session, 1 shutdown | 411 k, 180 s | `PlanIsRespected`, `NothingStartsAfterFailure`, `SessionsAreOwned`, `HostIsSupervised`, `ProcessesAreKept`, `EverythingEnds` |

Every property of a passing run has a mutant in its module, marked by a comment: a definition changed
as a plausible bug would, with which TLC finds the property violated.

### 3.1 The bounds and why they are enough

*Lock.* Two runtimes are enough for a thief and an owner; two calls each let a released lock
be followed by a new one of the same owner, which is what a torn inspection needs. One crash with restart
leaves a lock whose pid is gone; one failed write leaves an unwritten payload.
*Store.* Two processes are an actor that dies and one that repairs; three commits let the backup be
behind, be restored and be followed by a new commit; two faults let an append and its repair both fail.
*Ledger.* Three calls on one identity are a first, a repetition and one of another payload; the
two runtimes let one be started while the other works.
*Lifecycle.* Two concurrent calls are a late one and the one it is late for; slots are reused, so any number of calls follow each other.
Two candidates and one source move are a drift and its refresh, two proposals a superseded one and its successor.
`MaxTurns` bounds the detours (failed examinations, other calls than advance and execute, source moves): each finding needs two at most,
and the proofs hold without any bound.
*Execution.* The first mission has two siblings and a successor, so that a sibling can fail, be retried or be interrupted while the other is integrated, and waves have an order;
the task of the second wants the resource of both siblings and competes for the two slots. `MaxTurns` bounds admissions, cancellations, errors and crashes
together: three are an admission, its failure and a second admission, or admissions of both missions and a cancellation, and every step of every call is taken; the second wave is
reached through results of the first. The siblings are symmetric.
`RunWorkers` lets the first mission mix runtime workers and external results and gives the second runtime workers only.
*Services.* In PostgreSQL, three calls are one whose COMMIT is lost, one that commits in between and one that expects a revision. A cleanup meets two
operations: one that it waits for and one that begins behind its back, or one of each tool in the same kind of directory (`Pairs`). Two runs of workers are a first and its successor in the same task; with fairness one run is enough, since
runs share nothing but the cancellation. Three capabilities are two that conflict and one that overtakes them. Two observations and a release are a start, a use and a
release that misses or meets it; the two runtimes have one endpoint, for which they compete. The commands to the remote host are the pairs whose steps meet (`Commands`); the third supervisor is that of
the log-on. Two starts exceed a limit of one session.
The counters are bounds in guards only; where a bound is reached the program goes on but the model stops, hence `CHECK_DEADLOCK FALSE` in every cfg.

### 3.2 Fairness

`StateLock` and `StateStore` state weak fairness of each process's own steps: a process that is neither crashed nor waiting for a file system call
that never returns takes its next step, as the event loop does. Crashes, restarts, damage and ageing are never fair.
The lock also needs strong fairness of `Timeout`: the deadline of a
contender is a point in time, which it passes in some turn of its loop however often the lock changes hands in between.
The store's liveness is about the operation inside the lock.
In `processes` each service has the fairness of its own loop: the validation's loop goes on and each of its runs ends, since each has a time limit; threads of live sessions go on, and health checks
time out; the adapter's and the supervisor's timers fire and signals arrive, while a worker need not end by itself; supervisors poll and commands go on, while no host need exit and no command be given; calls, events and
timers of machine actions go on, while no process need end. `EverythingEnds` is about one service at a time, by `CASE`. `RequestLedger` and `MissionLifecycle` have no
fairness: handlers may hang, and a mission advances only when an operator calls it. Nor has `MissionExecution`: workers and their
tasks wait for an operator's retry, commit or resume.

### 3.3 What the violations mean

1. *Lock* (`lock_stolen`). `stat` sees an old lock, the owner releases it, a new one is created, `readFile` sees its
   empty payload: the two halves together look like an abandoned partial lock and the young lock is unlinked.
   It takes an operation slower than `lockStaleMs` (30 s), so it is rare; proved is that nothing else loses exclusion.
2. *Store* (`store_release_error`). An error of the release, thrown from `finally`, replaces the result of a committed transaction.
3. *Ledger* (`ledger_foreign_replay`). After a doubtful `beginRequest` the replay does not compare operation and fingerprint.
4. *Lifecycle* (`lifecycle_stale_proposal`). `mission_finalize_proposed` rechecks cancellation, not the candidate.
5. *Lifecycle* (`lifecycle_cancelled_revived`). The repair wave of a runtime feedback sets a cancelled mission to ready.
6. *Execution* (`execution_unleased`). A reservation that finds no capacity leaves no lease, and the admission after it, which computes capacity anew, may
   find some and admits without one. There are three more ways to conflicting tasks without leases, which the model has too: a refused `task_result_commit` or `worker_resume`
   drops the lease of a task that goes on; the second transaction of `worker_retry` may come after a new reservation; a second `mission_cancel`
   clears the lease of a task whose worker is still being stopped. `LeasesExclude`, which holds, is the part that the leases themselves guarantee.

Each is quoted with the document it contradicts under "findings" in `PROJECT.json`.

### 3.4 What the passing properties except, and why

Some properties carry an exception, because the code does not promise more. Each of these cases is reachable in the models.

* *State store.* An acknowledged commit can be undone without any damage: an error that passes (too many open files, an I/O error) while a sound `state.json` is read makes `read()` write the backup over it (`state-store.mjs` 183-191).
  `AnswersAreTrue` excepts the commits that a recovery has undone. By `OneCommitBehind` the backup is behind by one commit at most, so each recovery undoes the last one at most.
* *Request ledger.* "If a handler mutation may already have committed, the request becomes `unknown`, not falsely `failed`" (`README.md` 398) is kept for an unknown outcome that reaches `callTool`. Some do not. `runValidationCapability`
  (`mission-advance-core.mjs` 124-144), `runAfterWaveSafe` and `runCheckpointSafe` (`runtime-feedback-service.mjs` 635-) make a result of any error, so that the request is `completed`; a release of the execution lease that throws in a finally block
  (`app.mjs` 110-118, `mission-advance.mjs` 17-21) replaces the error, so that the request is `failed`. `DoubtIsUnknown` and `ResultIsDurable` except exactly the handlers that conceal their doubt in one of these ways (`concealed`).
* *Cleanup.* `mission_advance`, `worker_resume` and `task_result_commit` are not among the tools that the cleanup of worktrees waits for (`runtime-service.mjs` 16), although `mission_advance` executes tasks and validates (`mission-advance-core.mjs` 257, `validation-service.mjs` 264-284).
  Their directories are safe while the state refers to them: a task worktree from `task_dispatched` on, a session with its lease, the worktree of an open mission. They can go while it does not: a validation's `validation-<id>`, to which no field ever refers,
  a task worktree before its dispatch is recorded, the worktree of a mission that has been closed, what a dead session has left. `tests/runtime-cleanup-worktree-fencing.test.mjs` 69 fences the operations that are listed. A candidate whose creation throws after its commit loses its ref (`candidate-service.mjs` 207).
* *PostgreSQL.* `POSTGRES_COMMIT_NOT_APPLIED` is told when the log does not show the commit; a COMMIT that is still on its way may land afterwards (`early`).
* *Workers.* A process that has left the group and holds the output open makes a run endless. After the loss of a supervisor, noticed by its end or by a message that fails, its group lives up to three seconds longer than the run's answer, beside which a second worker of the task can start.
* *Live sessions.* An idle timer that was set by one observation can stop the session under another.
* *Remote host.* Two supervisors are possible after a lock file was removed that had been replaced since it was read, was still empty, or belonged to an uninstallation. A start is lost if it relies on a supervisor that is leaving. A leaving supervisor removes the `pid.json` of its
  successor. After an uninstallation, a supervisor that survived it takes the missing control file for "running". A forced installation writes back the desired state it has read, over a stop given meanwhile. A supervisor that dies leaves its host, and one whose log fails keeps its lock until its host ends by itself, whatever the control file says.
* *Machine actions.* The limit of sessions can be exceeded by calls that are checked before either is registered. A start in flight is not found by a shutdown. A descendant that has closed its output is found by nobody once its leader has exited.

## 4. Proofs

Each proof module extends its component, or a sum of components, and proves, for every value of the constants (any number of
processes, calls, requests, candidates; bounds in the guards arbitrary), that an inductive invariant holds
initially and is preserved by every action, then each property from it. The assumptions are the
`ASSUME`s of the modules: bounds are naturals, and the model values for "nobody" are not members of the sets they are to be outside of.

* `StateLock_proofs`: `LockTypes`, `LockExclusion`, `LockTheft`. `ExclusionUnlessStolen` is not inductive: it says nothing of
  what contenders have in hand. `LockInv` adds that a file bears a token its owner has drawn and, while that token is current and its owner's call under way, the owner is inside
  with the pid of the file (`AllFresh`); that until a theft whoever is inside owns the file (`OwnersHoldFile`); and that a contender
  about to unlink has read a payload whose call, if it was written, is over (`JudgedOver`).
* `StateStore_proofs`: `StoreTypes`, `StoreAuditInOrder`, `StoreOneCommitBehind`, `StoreAnswersAreTrue`, and `StoreImplementsJournal`, the
  refinement, for which every step is a commit, an audit, a rollback or a stutter of the journal. `StoreInv` says who may be inside an operation (`HolderWorks`), that
  log and backup are ordered and drawn (`LogInv`), that only the state's last commit may be unaudited and is then the youngest
  (`StateInv`), and what the operation has in memory in each phase (`InMemory`), since the memory becomes the next state.
  For the answers, `AnswerInv` says of each commit where it can be: not yet drawn and untold (`UndrawnUntold`), in the hands of the operation that will tell of it (`Pending`), in the state, the backup and every copy that
  may become one of them (`Everywhere`, `Kept`). A recovery from the backup, over a damaged file or a sound one, leaves what the backup has, and `undone` grows by the rest.
* `RequestLedger_proofs`: `LedgerTypes`, `LedgerRunOnce`, `LedgerResultIsDurable`, `LedgerDoubtIsUnknown`, `LedgerSettledForGood`. `LedgerInv` adds that
  a record names a call of its request (`Owned`), that whoever entered a handler owns its record (`RunnerOwns`), what a record says
  while its call is at work (`Unsettled`), and that only a returned handler completes (`Earned`). The doubt of a call is `Known` unless its handler has concealed it.
* `MissionLifecycle_proofs`: `LifecycleTypes`, `LifecycleProven`, `LifecycleHeads`, `LifecycleNamed`, `LifecycleFrozen`. `LifecycleInv`
  adds what each call knows at each of its steps (`Knowing`): a call that is going to propose knows a recorded candidate, its commit, its heads and that they are
  proven, and none of this can become untrue because candidates are immutable and `passed` only grows (`Grows`,
  `NamesStays`, `KnowingStays`). That is why a late proposal is still a proven one, though it may be of a replaced candidate.

* `MissionExecution_proofs`: `ExecutionTypes`, `ExecutionRecordedStays`, `ExecutionAccounted`, `ExecutionWaveOrder`, `ExecutionFlags`, `ExecutionLeases`, `ExecutionWorkerBound`
  and the refinement `ExecutionImplementsIntegration`. `ExecutionInv` (theorem `ExecutionInvariance`) is the type invariant and, of each mission, three groups: where tasks may stand
  relative to the wave (`Placed`, `Finished`); what a call may rely on at each step (`AtWork`, `Caller`, `Integrating`: a live worker is of the current wave and of the call that holds the lease,
  and its task can meanwhile be cancelled but not be retried, since only failed, interrupted and cancelled tasks are); and what the branch is (`Picked`, `Follows`, `Recorded`, `Accounted`, `Ordered`: above all that at the
  steps between pick and record the branch is the base in memory, extended by the task). A step changes one mission, so lemmas `Elsewhere`, `Moved` and `Beside` carry the rest over.
  The refinement follows: what `Record` integrates is of the current wave and not done before. Leases and flags are inductive with the types (`Disjoint`, `FlagStep`); the bound on workers is
  `Cardinality(Active \cap managed) <= MaxWorkers` across a step that admits by the count of all active tasks (`BoundStep`, which needs that `Task` is finite).
  The proofs also use `WavesAssumption`: no wave before a task's is empty, which is why a mission without tasks in its wave is finished.

The other three proof modules are about services that are composed. Each service has an invariant of its own initial states and steps, and the theorems
say of `ServicesSpec` and `ProcessesSpec` what the runs `request_ledger` and `processes` check of them.
`ServicesSteps` and `ProcessesSteps` carry it over: a step of the sum is a step or a stutter of every service, so that
each behaviour of the sum is one of every service (`ServicesImplement`, `ProcessesImplement`). Where an instance gives constants that its
module cannot name, the assumption on them is an operator in the hypothesis of the theorem: `PgConstants` and `CleanConstants` (the names for nobody, for a commit from before, for a stray or a mission's directory
are no calls and no operations), `LiveConstants` (observations, releases and timers are distinct and nobody is none of them), `HostConstants` and `PlanConstants` (counts are naturals, of capabilities at least one). The configurations satisfy them.

* `WorkerService_proofs`: `WorkerInv`, used by both sums. It adds to the types that a task is claimed by one run at a time (`OneClaim`) and where supervisor and group of a run can be at each of its steps (`RunInv`): a result comes only from a
  supervisor that has finished, before whose answer everything in the group is gone, and a run whose task was fenced has been asked to stop.
* `MCServices_proofs`:
  * PostgreSQL: `PostgresInvariance`, `AuditTellsTheTruth`, and the refinement `PostgresKeepsPromise` of `RevisionedStore`, as `BackendKeepsPromise` in the sum. `PgInv` says that the sessions of the server
    exclude each other, what the transaction of a call will write when it commits, and what its client may conclude of it at each stage, above all that a client which has looked into the log under the lock knows the fate of every COMMIT that is not still on its way.
  * Cleanup: `CleanupInvariance`, `CleanupRemovesOnlyOrphans`. `RemovesOnlyOrphans` is about what is gone and says nothing of what a cleanup has found and not yet removed; `CleanInv` does: a directory about to be removed is of no operation of a fenced tool at work, and the state refers to it for nobody else, unless that has come after the last look at the state
    (`DirectoryGoes`, `Spared`, `ReferencesAreLate`), and a ref about to be removed is of an operation that is over and recorded no candidate (`RefGoes`, `RefInv`). It rests on what a request says while its operation works (`RequestInv`), on who can meet in a directory (`DirInv`) and on the leases (`LeaseInv`).
    This proof found an error of an earlier version of the model: a session counted as leased only once it worked, so that the invariant did not survive a cleanup between its reservation and its worktree. The code holds the lease from the one to the other, and so does the model now (`Leased`).
  * Workers: `WorkersInvariance`, `WorkersAreContained` and the action property `CancelledStaysCancelled`. Types of all four: `ServicesTypes`.
* `MCProcesses_proofs`:
  * Live sessions: `LiveInvariance`, `LiveSessionsAreOwned`, for any number of observations, releases, runtimes, keys and endpoints. `LiveInv` says that a session is in the map under its runtime and key and runs only there (`MapFits`); that a lease of a
    live runtime belongs to a session that is there, is being made, or is being given back, or that a failed transaction has leaked it (`LeasesFit`); that a lease lasts from the reservation until after the removal (`LiveLeased`); that a thread works under the lock of its key on a session of its own runtime (`ThreadFits`);
    that nothing in the program refers to the session of an observation before it is made (`ObservationFits`), which is why a thread that comes late cannot release or use another's; and that a release which has begun lets nothing start in its scope and has all of it ahead of it or behind (`ReleaserFits`).
    TLC checked `LiveInv` on instances with two and three observations before it was proved.
  * Remote host: `HostInvariance`, `RemoteHostIsSupervised`. `HostInv` says that a supervisor has no host before its first spawn and after its finally block, and that without a race the lock file is of the supervisor that holds it, and one found stale is of a dead supervisor.
  * Machine actions: `MachineInvariance`, `MachineProcessesAreKept`. `MachineInv` adds that a closed process is not busy any more, that sessions are of registered calls, and that what a shutdown has dealt with is gone.
  * Validation: `ValidationStopsAtFailure` (an action property) and `ValidationRunsTogether` for every catalog, limit and content of the queues, from what `Kept` says: what is active runs or has ended unseen, goes together and within the limit, and nothing has failed before the loop waits.
    `ValidationRespectsPlan` adds that tiers come one after the other and that the verdict is about every capability, from `PlanInv`, whose `TierByTier` splits a tier between its queue and what has started. Its hypothesis is `[]QueueIsTheTier`: a tier begins with each of its capabilities in the queue, once.
    This is a fact about `Queue`, which sorts and folds, for which a proof needs induction over data; TLC checks it for every catalog of three capabilities as the last conjunct of `PlanIsRespected` in the run `processes`. `ProcessesTypes` has the same hypothesis, for the type of the queue.

No theorem needs fairness, and none is about instances of a bounded size.

Only model-checked: liveness (`AcquireEnds`, `OperationEnds`, `EverythingEnds`), which needs fairness and ENABLED, and `QueueIsTheTier`. Every other property of a passing run is
stated by a theorem.

## 5. Plan

Modelled: the stores, the lock, the request ledger, the lifecycle and the execution of missions, cleanup, the final validation, live sessions, worker processes, the service of
the remote host and the processes of machine actions. What would come next, most important first:

1. **Execution and lifecycle composed** on phase and waves: repair waves and remediation appended while a wave is executed, and the unleased second execution of `mission-advance.mjs` 13.
2. **Runtime feedback**: rounds, checkpoints and resumption (`runtime-feedback-service.mjs`), of which only the repair wave is modelled.
3. **StateStore with readers** that recover without the lock (`state-store.mjs` 173).
4. **Machine actions, files**: `fs.replace` and its digests beside writers between its last fingerprint and its rename.
5. **Layers joined by proof**: that `Ending`, which `RequestLedger` takes for granted, is what `StateStore` and `PostgresStore` answer, as a refinement.

## 6. Not modelled, and why

Drivers of browsers, Electron, observability and container tools, the language-model agent, the remote host's server and tunnel, repository acquisition, bootstrap,
installer and configuration are I/O around external programs with little shared state. The read-only operations of machine actions, and its file operations, which are a check and a system call each, are left out, too.
The MCP server and the tool catalog are tables and schemas. Planning strategy, experience retrieval and
worker performance are heuristics: they choose among legal alternatives that the models leave nondeterministic.
`verifyAudit` and status queries read only. The distribution copy of `src/` under `skills/`, half of the repository's lines, is the same program. Backends other than the two do not exist.

## 7. Running it

    tlc -config lock_protocol.cfg MCStateLock.tla
    tlapm StateLock_proofs.tla

and so on for the other runs and proof modules; each run needs no more than 5 minutes on two cores.
