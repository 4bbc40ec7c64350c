---------------------------- MODULE WorkerProcess ----------------------------
(***************************************************************************)
(* The runs of workers in one runtime (WorkerAdapter of                    *)
(* worker-adapter.mjs), each with a supervisor process                     *)
(* (worker-supervisor.mjs) between the runtime and the worker's process    *)
(* group: claims, cancellation before and after the fork, time limits,     *)
(* SIGTERM and SIGKILL, and the death of the runtime or of a supervisor.   *)
(*                                                                         *)
(* A worker is the leader of its group, the rest of the group, and perhaps *)
(* a process that has left the group and keeps the worker's output open.   *)
(* SIGTERM may end any of the group, SIGKILL ends it.  Messages to a       *)
(* supervisor arrive in order, the start first.  All runs are of one       *)
(* mission; POSIX.                                                         *)
(***************************************************************************)
EXTENDS Naturals, FiniteSets

CONSTANTS
  Runs,        \* the number of calls of run; 1..Runs in the order of the calls
  Task,
  MaxLosses    \* bound: supervisors that die

Run == 1..Runs

VARIABLES
  task,        \* the task of each run
  alive,       \* the runtime lives
  pc,          \* where each run is
  told,        \* what it has returned or thrown
  fenced,      \* the mission is in cancelledMissions
  asked,       \* the reason of its termination
  known,       \* the adapter knows the worker's pid
  killTimer,   \* the adapter's forceTimer
  supervisor,
  inbox,       \* the signals it has been sent and has not dealt with
  forceTimer,  \* the supervisor's forceTimer
  leader, rest, escaped,
  losses

adapter == <<pc, told, fenced, asked, known, killTimer>>
worker == <<leader, rest, escaped>>
workerVars == <<task, alive, adapter, supervisor, inbox, forceTimer, worker, losses>>

Init ==
  /\ task \in [Run -> Task]
  /\ alive = TRUE /\ fenced = FALSE
  /\ pc = [r \in Run |-> "idle"]
  /\ told = [r \in Run |-> "none"]
  /\ asked = [r \in Run |-> "none"]
  /\ known = [r \in Run |-> FALSE]
  /\ killTimer = [r \in Run |-> "off"]
  /\ supervisor = [r \in Run |-> "none"]
  /\ inbox = [r \in Run |-> {}]
  /\ forceTimer = [r \in Run |-> "off"]
  /\ leader = [r \in Run |-> "none"]
  /\ rest = [r \in Run |-> FALSE]
  /\ escaped = [r \in Run |-> FALSE]
  /\ losses = 0

Goto(r, s) == pc' = [pc EXCEPT ![r] = s]
Ends(r, answer) == Goto(r, "done") /\ told' = [told EXCEPT ![r] = answer]
Claimed(r) == pc[r] \in {"preparing", "packet", "running"}
Connected(r) == supervisor[r] \in {"forked", "up"}
GroupLives(r) == leader[r] = "alive" \/ rest[r]

\* What a SIGTERM and a SIGKILL to the group do.
Terminates(r) ==
  /\ leader' \in {leader} \cup {[leader EXCEPT ![r] = "exited"] : x \in {leader[r]} \cap {"alive"}}
  /\ rest' \in {rest, [rest EXCEPT ![r] = FALSE]}
  /\ UNCHANGED escaped
Kills(r) ==
  /\ leader' = [leader EXCEPT ![r] = IF @ = "alive" THEN "exited" ELSE @]
  /\ rest' = [rest EXCEPT ![r] = FALSE]
  /\ UNCHANGED escaped

\* A supervisor's process ends: its timer and what it has not received go.
SupervisorEnds(r, how) ==
  /\ supervisor' = [supervisor EXCEPT ![r] = how]
  /\ inbox' = [inbox EXCEPT ![r] = {}]
  /\ forceTimer' = [forceTimer EXCEPT ![r] = "off"]

-----------------------------------------------------------------------------
(* A run, up to the fork *)

Called(r) == pc[r] = "idle" /\ \A q \in 1..(r - 1) : pc[q] # "idle"

\* run: nothing for a cancelled mission; one claim for a task.
Claim(r) ==
  /\ alive /\ Called(r)
  /\ IF fenced THEN Ends(r, "cancelled")
     ELSE IF \E q \in Run : task[q] = task[r] /\ Claimed(q) THEN Ends(r, "refused")
     ELSE Goto(r, "preparing") /\ UNCHANGED told
  /\ UNCHANGED <<task, alive, fenced, asked, known, killTimer, supervisor, inbox, forceTimer,
                 worker, losses>>

\* The profile is made, or an error ends the run; a cancellation in the
\* meantime ends it too.
Prepare(r) ==
  /\ alive /\ pc[r] = "preparing"
  /\ \/ Ends(r, "error")
     \/ asked[r] # "none" /\ Ends(r, "cancelled")
     \/ asked[r] = "none" /\ Goto(r, "packet") /\ UNCHANGED told
  /\ UNCHANGED <<task, alive, fenced, asked, known, killTimer, supervisor, inbox, forceTimer,
                 worker, losses>>

\* Mutant: a cancellation is looked for before the packet is written only.
Fork_Unchecked(r) ==
  /\ alive /\ pc[r] = "packet"
  /\ supervisor' = [supervisor EXCEPT ![r] = "forked"] /\ Goto(r, "running")
  /\ UNCHANGED <<task, alive, told, fenced, asked, known, killTimer, inbox, forceTimer, worker,
                 losses>>

\* The packet is written, and the supervisor forked and sent the start in one
\* turn.
Fork(r) ==
  /\ alive /\ pc[r] = "packet"
  /\ \/ Ends(r, "error") /\ UNCHANGED supervisor
     \/ asked[r] # "none" /\ Ends(r, "cancelled") /\ UNCHANGED supervisor
     \/ /\ asked[r] = "none"
        /\ supervisor' = [supervisor EXCEPT ![r] = "forked"]
        /\ Goto(r, "running") /\ UNCHANGED told
  /\ UNCHANGED <<task, alive, fenced, asked, known, killTimer, inbox, forceTimer, worker, losses>>

-----------------------------------------------------------------------------
(* The supervisor and the worker *)

\* startWorker: the worker with its group, or no worker.
Start(r) ==
  /\ supervisor[r] = "forked"
  /\ \/ /\ supervisor' = [supervisor EXCEPT ![r] = "up"] /\ UNCHANGED <<inbox, forceTimer>>
        /\ leader' = [leader EXCEPT ![r] = "alive"]
        /\ rest' \in {rest, [rest EXCEPT ![r] = TRUE]}
        /\ escaped' \in {escaped, [escaped EXCEPT ![r] = TRUE]}
     \/ SupervisorEnds(r, "finished") /\ UNCHANGED worker
  /\ UNCHANGED <<task, alive, adapter, losses>>

\* The runtime hears of the pid.
Learn(r) ==
  /\ alive /\ pc[r] \in {"running", "failed"} /\ leader[r] # "none" /\ ~known[r]
  /\ known' = [known EXCEPT ![r] = TRUE]
  /\ UNCHANGED <<task, alive, pc, told, fenced, asked, killTimer, supervisor, inbox, forceTimer,
                 worker, losses>>

LeaderExits(r) ==
  /\ leader[r] = "alive"
  /\ leader' = [leader EXCEPT ![r] = "exited"]
  /\ UNCHANGED <<task, alive, adapter, supervisor, inbox, forceTimer, rest, escaped, losses>>

\* scheduleForceKill
Arms(r) == forceTimer' = [forceTimer EXCEPT ![r] = IF @ = "off" THEN "set" ELSE @]

\* terminateWorker, for a message and for the end of the connection.
Terminate(r) ==
  /\ supervisor[r] = "up"
  /\ \E signal \in inbox[r] :
       /\ inbox' = [inbox EXCEPT ![r] = @ \ {signal}]
       /\ IF signal = "SIGKILL" THEN Kills(r) /\ UNCHANGED forceTimer
          ELSE IF GroupLives(r) THEN Terminates(r) /\ Arms(r)
          ELSE UNCHANGED <<worker, forceTimer>>
  /\ UNCHANGED <<task, alive, adapter, supervisor, losses>>

\* reapExitedWorkerGroup, and its polls until the group is gone.
Reap(r) ==
  /\ supervisor[r] = "up" /\ leader[r] = "exited" /\ rest[r] /\ forceTimer[r] = "off"
  /\ Terminates(r) /\ Arms(r)
  /\ UNCHANGED <<task, alive, adapter, supervisor, inbox, losses>>

ForceKill(r) ==
  /\ supervisor[r] = "up" /\ forceTimer[r] = "set"
  /\ forceTimer' = [forceTimer EXCEPT ![r] = "fired"]
  /\ Kills(r)
  /\ UNCHANGED <<task, alive, adapter, supervisor, inbox, losses>>

\* Mutant: the exit of the leader is the end.
Finish_AtExit(r) ==
  /\ supervisor[r] = "up" /\ leader[r] = "exited" /\ ~escaped[r]
  /\ SupervisorEnds(r, "finished")
  /\ UNCHANGED <<task, alive, adapter, worker, losses>>

\* maybeFinishWorkerOutcome: the leader has exited, its group is gone and its
\* output closed.
Finish(r) ==
  /\ supervisor[r] = "up" /\ leader[r] = "exited" /\ ~rest[r] /\ ~escaped[r]
  /\ SupervisorEnds(r, "finished")
  /\ UNCHANGED <<task, alive, adapter, worker, losses>>

\* The connection ends before the start has been dealt with.
ExitUnstarted(r) ==
  /\ ~alive /\ supervisor[r] = "forked"
  /\ SupervisorEnds(r, "finished")
  /\ UNCHANGED <<task, alive, adapter, worker, losses>>

SupervisorDies(r) ==
  /\ Connected(r) /\ losses < MaxLosses
  /\ losses' = losses + 1
  /\ SupervisorEnds(r, "lost")
  /\ UNCHANGED <<task, alive, adapter, worker>>

-----------------------------------------------------------------------------
(* A run, after the fork *)

Reason(rs, why) ==
  asked' = [r \in Run |-> IF r \in rs /\ asked[r] = "none" THEN why ELSE asked[r]]

\* #terminateRunning of runs whose supervisor is connected: a message, and a
\* SIGKILL later.  Of one whose supervisor is gone, the end follows at once.
Sends(rs) ==
  LET there == {r \in rs : pc[r] = "running" /\ Connected(r)}
  IN /\ inbox' = [r \in Run |-> IF r \in there THEN inbox[r] \cup {"SIGTERM"} ELSE inbox[r]]
     /\ killTimer' = [r \in Run |->
          IF r \in there /\ killTimer[r] = "off" THEN "set" ELSE killTimer[r]]

\* The time limit.
Timeout(r) ==
  /\ alive /\ pc[r] = "running" /\ killTimer[r] = "off" /\ Connected(r)
  /\ Reason({r}, "timeout") /\ Sends({r})
  /\ UNCHANGED <<task, alive, pc, told, fenced, known, supervisor, forceTimer, worker, losses>>

\* cancel
Cancel(r) ==
  /\ alive /\ Claimed(r) /\ asked[r] = "none"
  /\ Reason({r}, "operator-cancel") /\ Sends({r})
  /\ UNCHANGED <<task, alive, pc, told, fenced, known, supervisor, forceTimer, worker, losses>>

\* cancelMission
CancelMission ==
  /\ alive /\ ~fenced
  /\ fenced' = TRUE
  /\ LET claimed == {r \in Run : Claimed(r)}
     IN Reason(claimed, "operator-cancel") /\ Sends(claimed)
  /\ UNCHANGED <<task, alive, pc, told, known, supervisor, forceTimer, worker, losses>>

\* Mutant: the adapter's kill goes through the supervisor only.
KillLater_ByMessage(r) ==
  /\ alive /\ killTimer[r] = "set"
  /\ killTimer' = [killTimer EXCEPT ![r] = "fired"]
  /\ inbox' = [inbox EXCEPT ![r] = IF Connected(r) THEN @ \cup {"SIGKILL"} ELSE @]
  /\ UNCHANGED <<task, alive, pc, told, fenced, asked, known, supervisor, forceTimer, worker,
                 losses>>

\* The SIGKILL three seconds later, through the supervisor and directly; while
\* the worker's pid is unknown it hits the supervisor.
KillLater(r) ==
  /\ alive /\ killTimer[r] = "set"
  /\ killTimer' = [killTimer EXCEPT ![r] = "fired"]
  /\ IF known[r]
     THEN /\ Kills(r) /\ UNCHANGED <<supervisor, forceTimer>>
          /\ inbox' = [inbox EXCEPT ![r] = IF Connected(r) THEN @ \cup {"SIGKILL"} ELSE @]
     ELSE /\ UNCHANGED worker
          /\ IF Connected(r) THEN SupervisorEnds(r, "lost")
             ELSE UNCHANGED <<supervisor, inbox, forceTimer>>
  /\ UNCHANGED <<task, alive, pc, told, fenced, asked, known, losses>>

\* Mutant: what the supervisor was is taken for the outcome.
Close_Status(r) ==
  /\ alive /\ pc[r] = "running" /\ supervisor[r] = "finished"
  /\ Ends(r, supervisor[r])
  /\ killTimer' = [killTimer EXCEPT ![r] = "off"]
  /\ known' = [known EXCEPT ![r] = FALSE]
  /\ UNCHANGED <<task, alive, fenced, asked, supervisor, inbox, forceTimer, worker, losses>>

\* The supervisor has ended after the outcome.
Close(r) ==
  /\ alive /\ pc[r] = "running" /\ supervisor[r] = "finished"
  /\ Ends(r, IF leader[r] = "none" THEN "error" ELSE "outcome")
  /\ killTimer' = [killTimer EXCEPT ![r] = "off"]
  /\ known' = [known EXCEPT ![r] = FALSE]
  /\ UNCHANGED <<task, alive, fenced, asked, supervisor, inbox, forceTimer, worker, losses>>

\* It has ended without one (WORKER_SUPERVISOR_LOST): the group is signalled, if
\* its leader is known, and killed later.
CloseLost(r) ==
  /\ alive /\ pc[r] = "running" /\ supervisor[r] = "lost"
  /\ Ends(r, "error")
  /\ Reason({r}, "supervisor-lost")
  /\ IF known[r] /\ GroupLives(r)
     THEN Terminates(r) /\ killTimer' = [killTimer EXCEPT ![r] = "set"]
     ELSE UNCHANGED worker /\ killTimer' = [killTimer EXCEPT ![r] = "off"]
  /\ UNCHANGED <<task, alive, fenced, known, supervisor, inbox, forceTimer, losses>>

\* A message that is sent to a supervisor that is gone fails, with the start as
\* with a termination, and the run with it: the claim is given up before the end
\* of the supervisor is dealt with.
SendFails(r) ==
  /\ alive /\ pc[r] = "running"
  /\ \/ supervisor[r] = "lost" /\ leader[r] = "none"
     \/ supervisor[r] \in {"finished", "lost"} /\ asked[r] # "none"
  /\ told' = [told EXCEPT ![r] = "error"]
  /\ IF supervisor[r] = "lost" THEN Goto(r, "failed") /\ UNCHANGED known
     ELSE Goto(r, "done") /\ known' = [known EXCEPT ![r] = FALSE]
  /\ Reason({r}, "adapter-error")
  /\ killTimer' = [killTimer EXCEPT ![r] = "off"]
  /\ IF known[r] /\ GroupLives(r) THEN Terminates(r) ELSE UNCHANGED worker
  /\ UNCHANGED <<task, alive, fenced, supervisor, inbox, forceTimer, losses>>

\* The end of that supervisor; a group it has lost is still looked after.
CloseFailed(r) ==
  /\ alive /\ pc[r] = "failed"
  /\ Goto(r, "done")
  /\ IF known[r] /\ GroupLives(r)
     THEN Terminates(r) /\ killTimer' = [killTimer EXCEPT ![r] = "set"] /\ UNCHANGED known
     ELSE UNCHANGED <<worker, killTimer>> /\ known' = [known EXCEPT ![r] = FALSE]
  /\ UNCHANGED <<task, alive, told, fenced, asked, supervisor, inbox, forceTimer, losses>>

\* The runtime dies; supervisors see the end of the connection.
RuntimeDies ==
  /\ alive
  /\ alive' = FALSE
  /\ inbox' = [r \in Run |-> IF Connected(r) THEN inbox[r] \cup {"SIGTERM"} ELSE inbox[r]]
  /\ UNCHANGED <<task, adapter, supervisor, forceTimer, worker, losses>>

-----------------------------------------------------------------------------

Adapt(r) ==
  \/ Claim(r) \/ Prepare(r) \/ Fork(r) \/ Timeout(r) \/ KillLater(r) \/ Close(r) \/ CloseLost(r)
  \/ SendFails(r) \/ CloseFailed(r)

Supervise(r) ==
  \/ Start(r) \/ Terminate(r) \/ Reap(r) \/ ForceKill(r) \/ Finish(r) \/ ExitUnstarted(r)

Next ==
  \/ \E r \in Run : Adapt(r) \/ Learn(r) \/ Supervise(r) \/ Cancel(r) \/ LeaderExits(r)
                    \/ SupervisorDies(r)
  \/ CancelMission \/ RuntimeDies

\* The runtime and the supervisors go on and their timers fire; a worker need
\* not end by itself.
Fairness ==
  \A r \in Run : WF_workerVars(Adapt(r)) /\ WF_workerVars(Supervise(r)) /\ WF_workerVars(Learn(r))

Spec == Init /\ [][Next]_workerVars /\ Fairness

-----------------------------------------------------------------------------
(* Properties *)

\* Types of the variables.
TypeOK ==
  /\ task \in [Run -> Task]
  /\ alive \in BOOLEAN /\ fenced \in BOOLEAN
  /\ pc \in [Run -> {"idle", "preparing", "packet", "running", "failed", "done"}]
  /\ told \in [Run -> {"none", "cancelled", "refused", "error", "outcome"}]
  /\ asked \in [Run -> {"none", "operator-cancel", "timeout", "supervisor-lost", "adapter-error"}]
  /\ known \in [Run -> BOOLEAN]
  /\ killTimer \in [Run -> {"off", "set", "fired"}]
  /\ supervisor \in [Run -> {"none", "forked", "up", "finished", "lost"}]
  /\ inbox \in [Run -> SUBSET {"SIGTERM", "SIGKILL"}]
  /\ forceTimer \in [Run -> {"off", "set", "fired"}]
  /\ leader \in [Run -> {"none", "alive", "exited"}]
  /\ rest \in [Run -> BOOLEAN] /\ escaped \in [Run -> BOOLEAN]
  /\ losses \in Nat

\* No worker's supervisor is forked after cancelMission, nor after a cancel of
\* the task that was accepted while the run was being prepared.
CancelledNeverForks ==
  [][\A r \in Run : supervisor[r] = "none" /\ supervisor'[r] # "none" =>
       ~fenced /\ asked[r] = "none"]_workerVars

\* "successful worker exit reaps background descendants before adapter
\* completion" (tests/worker-supervisor-loss.test.mjs): a run returns a result
\* when nothing of its worker's group is left.
ResultMeansGroupIsGone == \A r \in Run : told[r] = "outcome" => ~GroupLives(r)

\* Two workers of one task live together only when the supervisor of one was
\* lost.
OneGroupPerTask ==
  \A r, q \in Run : r # q /\ task[r] = task[q] /\ GroupLives(r) /\ GroupLives(q) =>
    "lost" \in {supervisor[r], supervisor[q]}

\* A task's workers are contained: each group ends before its result is told and
\* before a second worker of the task, unless a supervisor is lost.
GroupsAreContained == ResultMeansGroupIsGone /\ OneGroupPerTask

AllRunsEnded == \A r \in Run : Claimed(r) => ~alive \/ escaped[r]

\* Every run that has been claimed ends, by its time limit at the latest,
\* unless a process that has left the worker's group keeps its output open.
RunsEnd == <>[]AllRunsEnded

\* "SIGKILL of the runtime parent cannot leave supervised worker descendants"
\* (tests/worker-runtime-crash-containment.test.mjs): whatever the order in
\* which a cancellation, the time limit and the ends of the runtime and of the
\* supervisor come, the worker's group ends, unless its supervisor is lost and
\* the runtime is gone or never heard of the worker's pid.
NoGroupLives ==
  \A r \in Run : (asked[r] # "none" \/ ~alive) /\ GroupLives(r) =>
    supervisor[r] = "lost" /\ (~alive \/ ~known[r])
NoGroupIsLeftBehind == <>[]NoGroupLives

=============================================================================
