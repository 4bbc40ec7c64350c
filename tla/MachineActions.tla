--------------------------- MODULE MachineActions ---------------------------
(***************************************************************************)
(* The processes of machine_act (machine-action-service.mjs): calls of     *)
(* process.start, one-shot or persistent, the sessions of the persistent   *)
(* ones, their time limits, process.stop, and the shutdown of the service. *)
(*                                                                         *)
(* A process is the leader of its group, the rest of the group, which may  *)
(* have closed its output ("quiet") or not ("open"), and perhaps a process *)
(* that has left the group and keeps the output open.  SIGTERM may end any *)
(* of the group, SIGKILL ends it.  The runtime lives; POSIX.               *)
(***************************************************************************)
EXTENDS Naturals, FiniteSets

CONSTANTS
  Launch,      \* the calls of process.start
  MaxSessions  \* limits.maxSessions

VARIABLES
  persistent,  \* the calls that ask for a session
  at,          \* where each call is; "kept" once its session is registered
  sessions,    \* the map of the sessions
  ended,       \* the processes whose close event has been seen
  timer,       \* the time limits that are running
  leader, rest, escaped,
  shutdown,    \* where the shutdown is
  stopping,    \* the sessions it has found running
  stopped      \* the sessions it has verified

process == <<leader, rest, escaped>>
shutdownVars == <<shutdown, stopping, stopped>>
machineVars == <<persistent, at, sessions, ended, timer, process, shutdownVars>>

Init ==
  /\ persistent \in SUBSET Launch
  /\ at = [c \in Launch |-> "idle"]
  /\ sessions = {} /\ ended = {} /\ timer = {}
  /\ leader = [c \in Launch |-> "none"]
  /\ rest = [c \in Launch |-> "none"]
  /\ escaped = {}
  /\ shutdown = "idle" /\ stopping = {} /\ stopped = {}

GoTo(c, place) == at' = [at EXCEPT ![c] = place]

\* What processes of the group do by themselves or after SIGTERM, and after SIGKILL.
Wane(C) ==
  /\ \E gone \in SUBSET C : leader' = [c \in Launch |->
       IF c \in gone /\ leader[c] = "alive" THEN "exited" ELSE leader[c]]
  /\ \E gone \in SUBSET C : rest' = [c \in Launch |-> IF c \in gone THEN "none" ELSE rest[c]]
  /\ UNCHANGED escaped
Kill(C) ==
  /\ leader' = [c \in Launch |-> IF c \in C /\ leader[c] = "alive" THEN "exited" ELSE leader[c]]
  /\ rest' = [c \in Launch |-> IF c \in C THEN "none" ELSE rest[c]]
  /\ UNCHANGED escaped

Running(c) == c \in sessions \ ended

\* Mutant: the oldest sessions make room, whether they run or not.
Prune_Oldest(c) ==
  /\ at[c] = "idle"
  /\ \E room \in SUBSET sessions :
       /\ Cardinality(sessions \ room) < MaxSessions
       /\ \A less \in SUBSET room : less # room => Cardinality(sessions \ less) >= MaxSessions
       /\ sessions' = sessions \ room /\ timer' = timer \ room
  /\ GoTo(c, "checked")
  /\ UNCHANGED <<persistent, ended, process, shutdownVars>>

\* #pruneSessions, before the call waits for anything: finished sessions make
\* room, no more than needed, or the call is refused.
Prune(c) ==
  /\ at[c] = "idle"
  /\ \E room \in SUBSET (sessions \cap ended) :
       /\ sessions' = sessions \ room /\ timer' = timer \ room
       /\ \A less \in SUBSET room : less # room => Cardinality(sessions \ less) >= MaxSessions
       /\ \/ Cardinality(sessions \ room) < MaxSessions /\ GoTo(c, "checked")
          \/ room = sessions \cap ended /\ Cardinality(sessions \ room) >= MaxSessions
             /\ GoTo(c, "refused")
  /\ UNCHANGED <<persistent, ended, process, shutdownVars>>

\* The checks of the command, the directory and the repository, and spawn.
Spawn(c) ==
  /\ at[c] = "checked"
  /\ \/ GoTo(c, "refused") /\ UNCHANGED process
     \/ /\ GoTo(c, "spawned")
        /\ leader' = [leader EXCEPT ![c] = "alive"]
        /\ \E r \in {"none", "quiet", "open"} : rest' = [rest EXCEPT ![c] = r]
        /\ escaped' \in {escaped, escaped \cup {c}}
  /\ UNCHANGED <<persistent, sessions, ended, timer, shutdownVars>>

\* After the spawn event the time limit runs; only a persistent process gets a session.
Keep(c) ==
  /\ at[c] = "spawned"
  /\ timer' = timer \cup {c}
  /\ IF c \in persistent
     THEN GoTo(c, "kept") /\ sessions' = sessions \cup {c}
     ELSE GoTo(c, "waiting") /\ UNCHANGED sessions
  /\ UNCHANGED <<persistent, ended, process, shutdownVars>>

\* The close event: the leader has exited, and nobody has its output open.
Closed(c) ==
  /\ at[c] \in {"kept", "waiting"} /\ c \notin ended
  /\ leader[c] = "exited" /\ rest[c] # "open" /\ c \notin escaped
  /\ ended' = ended \cup {c} /\ timer' = timer \ {c}
  /\ IF at[c] = "waiting" THEN GoTo(c, "done") ELSE UNCHANGED at
  /\ UNCHANGED <<persistent, sessions, process, shutdownVars>>

\* The time limit kills the group.
Timeout(c) ==
  /\ c \in timer /\ timer' = timer \ {c}
  /\ Kill({c})
  /\ UNCHANGED <<persistent, at, sessions, ended, shutdownVars>>

\* Processes end by themselves ...
Live(c) ==
  /\ \/ Wane({c})
     \/ escaped' = escaped \ {c} /\ UNCHANGED <<leader, rest>>
  /\ UNCHANGED <<persistent, at, sessions, ended, timer, shutdownVars>>

\* ... or because of process.stop, which only sends the signal.
Stop(c) ==
  /\ Running(c)
  /\ Wane({c}) \/ Kill({c})
  /\ UNCHANGED <<persistent, at, sessions, ended, timer, shutdownVars>>

-----------------------------------------------------------------------------
(* The shutdown of the service *)

\* The sessions that run are listed once; their time limits end.
Shutdown ==
  /\ shutdown = "idle"
  /\ stopping' = {c \in Launch : Running(c)}
  /\ shutdown' = IF stopping' = {} THEN "done" ELSE "grace"
  /\ timer' = timer \ stopping'
  /\ Wane(stopping')
  /\ UNCHANGED <<persistent, at, sessions, ended, stopped>>

\* Mutant: a closed session counts as stopped, whatever is left of its group.
Verified_Closed(c) == c \in ended

\* #sessionShutdownState: the close event has been seen, and the group is gone.
Verified(c) == c \in ended /\ leader[c] # "alive" /\ rest[c] = "none"

\* The grace period is over, or all sessions are verified: what is not, is killed.
GraceEnds ==
  /\ shutdown = "grace"
  /\ \E seen \in SUBSET stopping :
       /\ \A c \in seen : Verified(c)
       /\ stopped' = seen
       /\ Kill(stopping \ seen)
       /\ shutdown' = IF seen = stopping THEN "done" ELSE "forced"
  /\ UNCHANGED <<persistent, at, sessions, ended, timer, stopping>>

\* What is still not verified then is reported as remaining.
ForceEnds ==
  /\ shutdown = "forced"
  /\ \E seen \in SUBSET (stopping \ stopped) :
       /\ \A c \in seen : Verified(c)
       /\ stopped' = stopped \cup seen
  /\ shutdown' = "done"
  /\ UNCHANGED <<persistent, at, sessions, ended, timer, process, stopping>>

-----------------------------------------------------------------------------

Proceed(c) == Spawn(c) \/ Keep(c) \/ Closed(c) \/ Timeout(c)
ShutDown == GraceEnds \/ ForceEnds

Next ==
  \/ \E c \in Launch : Prune(c) \/ Proceed(c) \/ Live(c) \/ Stop(c)
  \/ Shutdown \/ ShutDown

\* Calls, events and timers go on; no process need end by itself, nothing need
\* be called.
Fairness == (\A c \in Launch : WF_machineVars(Proceed(c))) /\ WF_machineVars(ShutDown)

Spec == Init /\ [][Next]_machineVars /\ Fairness

-----------------------------------------------------------------------------
(* Properties *)

\* Types of the variables.
TypeOK ==
  /\ persistent \subseteq Launch
  /\ at \in [Launch -> {"idle", "checked", "spawned", "kept", "waiting", "refused", "done"}]
  /\ sessions \subseteq Launch /\ ended \subseteq Launch /\ timer \subseteq Launch
  /\ leader \in [Launch -> {"none", "alive", "exited"}]
  /\ rest \in [Launch -> {"none", "quiet", "open"}]
  /\ escaped \subseteq Launch
  /\ shutdown \in {"idle", "grace", "forced", "done"}
  /\ stopping \subseteq Launch /\ stopped \subseteq Launch

Busy(c) == leader[c] = "alive" \/ rest[c] = "open"

\* A session is not forgotten while its leader lives or its group has the output
\* open: it is in the map and runs, so that it can be stopped and is found by a
\* shutdown, whatever makes room for whom.
NoneIsForgotten ==
  \A c \in persistent : at[c] = "kept" /\ Busy(c) => Running(c)

\* The same processes always have somebody who ends them: the time limit, or the
\* shutdown that has taken over from it and not yet sent its SIGKILL.
EveryoneIsLimited ==
  \A c \in Launch : at[c] \in {"kept", "waiting"} /\ Busy(c) =>
    c \in timer \/ (shutdown = "grace" /\ c \in stopping)

\* "machine shutdown waits for persistent sessions to reach verified terminal
\* state" (tests/machine-action-service.test.mjs:377): what it reports as
\* stopped has no process of its group left, and what it does not so report has
\* none left when it returns either.
ShutdownIsVerified ==
  /\ \A c \in stopped : leader[c] # "alive" /\ rest[c] = "none"
  /\ shutdown = "done" => \A c \in stopping : leader[c] # "alive" /\ rest[c] = "none"

ProcessesAreKept == NoneIsForgotten /\ EveryoneIsLimited /\ ShutdownIsVerified

\* A shutdown returns, calls return unless a process that has left its group
\* keeps the output, and every process comes to its end.
AllAnswered ==
  /\ shutdown \notin {"grace", "forced"}
  /\ \A c \in Launch :
       /\ at[c] \notin {"checked", "spawned"}
       /\ at[c] = "waiting" => c \in escaped
       /\ ~Busy(c)
ProcessesEnd == <>[]AllAnswered

=============================================================================
