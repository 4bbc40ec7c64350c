----------------------------- MODULE MCProcesses -----------------------------
(***************************************************************************)
(* An instance for TLC, with its fairness, of five services that share no  *)
(* variable: the final validation, the live sessions, the workers, the     *)
(* remote host and the processes of machine actions.  The initial state    *)
(* chooses the service that runs; the variables of the others keep the     *)
(* values of one of their initial states.  Its behaviours are those of the *)
(* five specifications, one after the other.                               *)
(***************************************************************************)
EXTENDS WorkerService, Naturals, Sequences, FiniteSets

VARIABLE service

\* The final validation
CONSTANTS Count, MaxLimit
VARIABLES tier, conflicts, limit, stage, current, pending, active, running, completed,
          report, results, failed, verdict

Plan == INSTANCE ValidationPlan

\* The live sessions
CONSTANTS v1, x1, m1, k1, Observation, Releaser, Runtime, Key, Endpoint, Nobody, MaxSessions,
          MaxFaults
VARIABLES home, key, endpoint, scope, living, leases, endpoints, trees, sessions, starting,
          releasing, releaseLock, lock, up, timer, pc, target, using, waiting, reclaimed,
          leaked, faults

Live == INSTANCE LiveSessions WITH alive <- living

\* The service of the remote host
CONSTANT Operators
VARIABLES installed, control, hostLock, snapshot, hostPc, attempt, seen, aborted, mute, host,
          step, command, looked, saved, left, hostFaults, killed, raced, missed

Host == INSTANCE RemoteHostService WITH lock <- hostLock, pc <- hostPc, faults <- hostFaults

\* The processes of machine actions
CONSTANTS Launch, SessionLimit
VARIABLES persistent, at, machineSessions, ended, timeLimit, machineLeader, machineRest,
          machineEscaped, shutdown, stopping, stopped

Machine == INSTANCE MachineActions WITH
  MaxSessions <- SessionLimit, sessions <- machineSessions, timer <- timeLimit,
  leader <- machineLeader, rest <- machineRest, escaped <- machineEscaped

planVars == <<tier, conflicts, limit, stage, current, pending, active, running, completed,
              report, results, failed, verdict>>
liveVars == <<home, key, endpoint, scope, living, leases, endpoints, trees, sessions, starting,
              releasing, releaseLock, lock, up, timer, pc, target, using, waiting, reclaimed,
              leaked, faults>>
hostVars == <<installed, control, hostLock, snapshot, hostPc, attempt, seen, aborted, mute, host,
              step, command, looked, saved, left, hostFaults, killed, raced, missed>>
machineVars == <<persistent, at, machineSessions, ended, timeLimit, machineLeader,
                 machineRest, machineEscaped, shutdown, stopping, stopped>>
processVars == <<service, planVars, liveVars, workerVars, hostVars, machineVars>>

-----------------------------------------------------------------------------

\* One initial state for each service that does not run.  Observations and
\* runtimes are interchangeable: v1 and the release are of m1, and v1 has k1.
PlanRests == tier = [c \in Plan!Capability |-> 0] /\ conflicts = {} /\ limit = MaxLimit
\* The commands of two operators whose steps meet.
Commands ==
  {<<"stop", "start">>, <<"pause", "start">>, <<"repair", "stop">>, <<"uninstall", "install">>}
LiveRests ==
  /\ \A t \in DOMAIN home : home[t] = m1
  /\ \A o \in Observation : key[o] = k1
  /\ endpoint = [k \in Key |-> CHOOSE e \in Endpoint : TRUE]
  /\ \A x \in Releaser : scope[x] = Key

ProcessesInit ==
  /\ service \in {"validation", "sessions", "workers", "host", "machine"}
  /\ Plan!Init /\ (service # "validation" => PlanRests)
  /\ Live!Init /\ home[v1] = m1 /\ home[x1] = m1 /\ key[v1] = k1
  /\ (service # "sessions" => LiveRests)
  /\ Workers!Init /\ (service # "workers" => task = [r \in 1..Runs |-> CHOOSE t \in Task : TRUE])
  /\ Host!Init /\ command \in IF service = "host" THEN Commands ELSE {<<"stop", "start">>}
  /\ Machine!Init /\ (service # "machine" => persistent = {})

PlanOnly ==
  service = "validation" /\ UNCHANGED <<service, liveVars, workerVars, hostVars, machineVars>>
LiveOnly ==
  service = "sessions" /\ UNCHANGED <<service, planVars, workerVars, hostVars, machineVars>>
WorkersOnly ==
  service = "workers" /\ UNCHANGED <<service, planVars, liveVars, hostVars, machineVars>>
HostOnly ==
  service = "host" /\ UNCHANGED <<service, planVars, liveVars, workerVars, machineVars>>
MachineOnly ==
  service = "machine" /\ UNCHANGED <<service, planVars, liveVars, workerVars, hostVars>>

ProcessesNext ==
  \/ PlanOnly /\ Plan!Next
  \/ LiveOnly /\ Live!Next
  \/ WorkersOnly /\ Workers!Next
  \/ HostOnly /\ Host!Next
  \/ MachineOnly /\ Machine!Next

\* The fairness of each service, where it is the one that runs.
PlanFairness ==
  /\ WF_planVars(service = "validation" /\ Plan!Loop)
  /\ \A c \in Plan!Capability : WF_planVars(service = "validation" /\ Plan!RunEnds(c))
LiveFairness ==
  /\ \A o \in Observation : WF_liveVars(service = "sessions" /\ Live!Observe(o))
  /\ \A x \in Releaser : WF_liveVars(service = "sessions" /\ Live!ReleaseScope(x))
  /\ \A s \in Observation : WF_liveVars(service = "sessions" /\ Live!ReleaseSession(Live!Timer(s)))
WorkersFairness ==
  \A r \in 1..Runs :
    /\ WF_workerVars(service = "workers" /\ Workers!Adapt(r))
    /\ WF_workerVars(service = "workers" /\ Workers!Supervise(r))
    /\ WF_workerVars(service = "workers" /\ Workers!Learn(r))
HostFairness ==
  /\ \A s \in Host!Supervisor : WF_hostVars(service = "host" /\ Host!Supervise(s))
  /\ \A o \in Host!Operator : WF_hostVars(service = "host" /\ Host!Operate(o))

MachineFairness ==
  /\ \A c \in Launch : WF_machineVars(service = "machine" /\ Machine!Proceed(c))
  /\ WF_machineVars(service = "machine" /\ Machine!ShutDown)

ProcessesSpec ==
  /\ ProcessesInit /\ [][ProcessesNext]_processVars
  /\ PlanFairness /\ LiveFairness /\ WorkersFairness /\ HostFairness /\ MachineFairness

-----------------------------------------------------------------------------
(* The properties, under their names in the modules they come from *)

\* The types of all variables.
TypeOK == Plan!TypeOK /\ Live!TypeOK /\ Workers!TypeOK /\ Host!TypeOK /\ Machine!TypeOK

\* Capabilities that conflict never run together, tiers come one after the
\* other, and the verdict is about everything that ran.
PlanIsRespected == Plan!PlanIsRespected

\* Nothing starts after a failure.
NothingStartsAfterFailure == Plan!NothingStartsAfterFailure

\* A service runs under its leases and in its worktree, a lease belongs to a
\* session, and a release leaves no session of its scope.
SessionsAreOwned == Live!SessionsAreOwned

\* The remote host has one supervisor, which takes its host with it.
HostIsSupervised == Host!HostIsSupervised

\* No process of a machine action is forgotten, none runs without a limit, and a
\* shutdown is true.
ProcessesAreKept == Machine!ProcessesAreKept

\* Every plan comes to a verdict, observations and releases of live sessions
\* end, so does every run of a worker and the group of one that was cancelled or
\* has lost its runtime, the last command to the remote host is heard, and the
\* processes of machine actions end (PlanEnds, ThreadsEnd, RunsEnd,
\* NoGroupIsLeftBehind, ControlIsHeard and ProcessesEnd).
EverythingEnds ==
  <>[](CASE service = "validation" -> Plan!Decided
         [] service = "sessions" -> Live!AllEnded
         [] service = "workers" -> Workers!AllRunsEnded /\ Workers!NoGroupLives
         [] service = "host" -> Host!Heard
         [] service = "machine" -> Machine!AllAnswered)
=============================================================================
