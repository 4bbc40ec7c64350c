---------------------------- MODULE LiveSessions ----------------------------
(***************************************************************************)
(* Persistent live validation sessions                                     *)
(* (live-validation-session-manager.mjs): a service in a worktree of its   *)
(* own, kept between observations of one capability of one mission.  Each  *)
(* runtime has a map of its sessions and locks of its own; the leases on a *)
(* session's key and on its endpoint are in the shared state.              *)
(*                                                                         *)
(* A session is named for the observation that started it: an observation  *)
(* starts one at most.  Threads are observations (acquire, use, finish),   *)
(* releases (releaseMission, releaseAll) and the idle timers of sessions.  *)
(* The promise chains of #withLock are locks that any waiter may take;     *)
(* what the code does under the lifecycle lock is one step.                *)
(***************************************************************************)
EXTENDS Naturals, FiniteSets

CONSTANTS
  Observation,   \* observations of a live service
  Releaser,      \* releaseMission and releaseAll
  Runtime,       \* runtimes, with a manager each
  Key,           \* project, mission and capability
  Endpoint,      \* ports of readiness URLs
  Nobody,        \* no session, and no thread
  MaxSessions,   \* maxSessions
  MaxFaults      \* bound: transactions and runtimes that fail

VARIABLES
  home,        \* the runtime of an observation or of a release
  key,         \* the key of an observation
  endpoint,    \* the endpoint of each key
  scope,       \* the keys of a release: those of a mission, or all
  alive,       \* runtimes whose process is there
  leases,      \* liveValidationLeases.sessions
  endpoints,   \* liveValidationLeases.endpoints
  trees,       \* keys whose worktree exists
  sessions,    \* the map of each runtime
  starting,    \* startingSessions: the observations that start a session
  releasing,   \* the scope whose release is in progress in each runtime
  releaseLock, \* the holder of each runtime's release lock
  lock,        \* the holder of each key's lock in each runtime
  up,          \* sessions whose service runs
  timer,       \* sessions whose idle timer is set
  pc,          \* where each thread is
  target,      \* the session a thread releases
  using,       \* the session an observation uses
  waiting,     \* the starts, then the sessions, that a release waits for
  reclaimed,   \* observations that have reaped the lease of their worktree
  leaked,      \* history: sessions whose lease the runtime could not give back
  faults

config == <<home, key, endpoint, scope>>
shared == <<leases, endpoints>>
manager == <<sessions, starting, releasing, releaseLock, lock>>
thread == <<pc, target, using, waiting, reclaimed>>
liveVars == <<config, alive, shared, trees, manager, up, timer, thread, leaked, faults>>

Session == Observation
Timer(s) == <<s>>
Thread == Observation \cup Releaser \cup {Timer(s) : s \in Session}

RuntimeOf(t) == IF t \in Observation \cup Releaser THEN home[t] ELSE home[t[1]]

Init ==
  /\ home \in [Observation \cup Releaser -> Runtime]
  /\ key \in [Observation -> Key]
  /\ endpoint \in [Key -> Endpoint]
  /\ scope \in [Releaser -> {Key} \cup {{k} : k \in Key}]
  /\ alive = Runtime
  /\ leases = [k \in Key |-> Nobody] /\ endpoints = [e \in Endpoint |-> Nobody]
  /\ trees = {}
  /\ sessions = [r \in Runtime |-> [k \in Key |-> Nobody]]
  /\ starting = {}
  /\ releasing = [r \in Runtime |-> {}]
  /\ releaseLock = [r \in Runtime |-> Nobody]
  /\ lock = [r \in Runtime |-> [k \in Key |-> Nobody]]
  /\ up = {} /\ timer = {}
  /\ pc = [t \in Thread |-> "idle"]
  /\ target = [t \in Thread |-> Nobody]
  /\ using = [o \in Observation |-> Nobody]
  /\ waiting = [x \in Releaser |-> {}]
  /\ reclaimed = {} /\ leaked = {}
  /\ faults = 0

Goto(t, s) == pc' = [pc EXCEPT ![t] = s]
At(t, s) == pc[t] = s /\ RuntimeOf(t) \in alive
Fault == faults < MaxFaults /\ faults' = faults + 1

TakeLock(t, k) ==
  /\ lock[RuntimeOf(t)][k] = Nobody
  /\ lock' = [lock EXCEPT ![RuntimeOf(t)][k] = t]
FreeLock(t) ==
  lock' = [lock EXCEPT ![RuntimeOf(t)] = [k \in Key |-> IF @[k] = t THEN Nobody ELSE @[k]]]

InMap(s) == sessions[home[s]][key[s]] = s

-----------------------------------------------------------------------------
(* Leases *)

Dead(s) == s # Nobody /\ home[s] \notin alive

\* Mutant: every lease on the key of another runtime is taken for a dead one.
Reaped_Foreign(s) == {k \in Key : leases[k] # Nobody /\ home[leases[k]] # home[s]}

\* reapDeadLeases: the keys whose lease belongs to a process that is gone.
Reaped(s) == {k \in Key : Dead(leases[k])}

\* #reserveLease: refused for the key, the endpoint or the limit; or committed;
\* or an error of the transaction, before its commit or after it.
Reserve(o) ==
  LET k == key[o]
      kept == [q \in Key |-> IF q \in Reaped(o) THEN Nobody ELSE leases[q]]
      free == [e \in Endpoint |->
                 IF endpoints[e] # Nobody /\ kept[key[endpoints[e]]] = endpoints[e]
                 THEN endpoints[e] ELSE Nobody]
      refused == \/ kept[k] # Nobody \/ free[endpoint[k]] # Nobody
                 \/ Cardinality({q \in Key : kept[q] # Nobody}) >= MaxSessions
  IN /\ At(o, "reserve")
     /\ \/ /\ (refused /\ UNCHANGED faults) \/ Fault
           /\ Goto(o, "start fails")
           /\ UNCHANGED <<shared, reclaimed, leaked>>
        \/ /\ ~refused
           /\ leases' = [kept EXCEPT ![k] = o]
           /\ endpoints' = [free EXCEPT ![endpoint[k]] = o]
           /\ reclaimed' = IF k \in Reaped(o) THEN reclaimed \cup {o} ELSE reclaimed
           /\ \/ Goto(o, "create") /\ UNCHANGED <<leaked, faults>>
              \/ Fault /\ Goto(o, "start fails") /\ leaked' = leaked \cup {o}
     /\ UNCHANGED <<config, alive, trees, manager, up, timer, target, using, waiting>>

GivesBack(s) ==
  /\ leases' = [k \in Key |-> IF leases[k] = s THEN Nobody ELSE leases[k]]
  /\ endpoints' = [e \in Endpoint |-> IF endpoints[e] = s THEN Nobody ELSE endpoints[e]]

-----------------------------------------------------------------------------
(* Observations *)

\* acquire: the key's lock, and the session of the map if its service runs (it
\* may have died, or be configured otherwise by now) and its source can be moved.
Acquire(o) ==
  LET s == sessions[home[o]][key[o]]
  IN /\ At(o, "idle")
     /\ TakeLock(o, key[o])
     /\ \/ s = Nobody /\ Goto(o, "begin") /\ UNCHANGED <<target, using>>
        \/ /\ s # Nobody
           /\ target' = [target EXCEPT ![o] = s]
           /\ Goto(o, "restart") /\ UNCHANGED using
        \/ /\ s \in up
           /\ using' = [using EXCEPT ![o] = s]
           /\ Goto(o, "ready") /\ UNCHANGED target
     /\ timer' = timer \ {s}
     /\ UNCHANGED <<config, alive, shared, trees, sessions, starting, releasing, releaseLock,
                    up, waiting, reclaimed, leaked, faults>>

\* #beginStart
Begin(o) ==
  /\ At(o, "begin")
  /\ IF key[o] \in releasing[home[o]]
     THEN FreeLock(o) /\ Goto(o, "done") /\ UNCHANGED starting
     ELSE starting' = starting \cup {o} /\ Goto(o, "reserve") /\ UNCHANGED lock
  /\ UNCHANGED <<config, alive, shared, trees, sessions, releasing, releaseLock, up, timer,
                 target, using, waiting, reclaimed, leaked, faults>>

\* The worktree and the service; a worktree that is there is taken over only
\* with its lease.  What was made is undone when a step fails.
Create(o) ==
  /\ At(o, "create")
  /\ \/ /\ key[o] \notin trees \/ o \in reclaimed
        /\ trees' = trees \cup {key[o]}
        /\ up' = up \cup {o}
        /\ sessions' = [sessions EXCEPT ![home[o]][key[o]] = o]
        /\ using' = [using EXCEPT ![o] = o]
        /\ Goto(o, "started")
     \/ /\ key[o] \notin trees \/ o \in reclaimed
        /\ trees' \in {trees, trees \ {key[o]}}
        /\ Goto(o, "undo") /\ UNCHANGED <<up, sessions, using>>
     \/ /\ key[o] \in trees /\ o \notin reclaimed
        /\ Goto(o, "undo") /\ UNCHANGED <<trees, up, sessions, using>>
  /\ UNCHANGED <<config, alive, shared, starting, releasing, releaseLock, lock, timer, target,
                 waiting, reclaimed, leaked, faults>>

\* The lease of a session that did not start is given back; an error of it is
\* swallowed.
Undo(o) ==
  /\ At(o, "undo")
  /\ \/ GivesBack(o) /\ UNCHANGED <<leaked, faults>>
     \/ Fault /\ leaked' = leaked \cup {o} /\ UNCHANGED shared
  /\ Goto(o, "start fails")
  /\ UNCHANGED <<config, alive, trees, manager, up, timer, target, using, waiting, reclaimed>>

\* Mutant: only a start that succeeds is reported.
FinishStart_OnSuccess(o) ==
  /\ At(o, "started") \/ At(o, "start fails")
  /\ IF pc[o] = "started" THEN Goto(o, "ready") /\ starting' = starting \ {o} /\ UNCHANGED lock
     ELSE FreeLock(o) /\ Goto(o, "done") /\ UNCHANGED starting
  /\ UNCHANGED <<config, alive, shared, trees, sessions, releasing, releaseLock, up, timer,
                 target, using, waiting, reclaimed, leaked, faults>>

\* #finishStart, whether the start has failed or not.
FinishStart(o) ==
  /\ At(o, "started") \/ At(o, "start fails")
  /\ starting' = starting \ {o}
  /\ IF pc[o] = "started" THEN Goto(o, "ready") /\ UNCHANGED lock
     ELSE FreeLock(o) /\ Goto(o, "done")
  /\ UNCHANGED <<config, alive, shared, trees, sessions, releasing, releaseLock, up, timer,
                 target, using, waiting, reclaimed, leaked, faults>>

\* waitForValidationReadiness: ready, or not ready when the session is new;
\* not ready and to be started again when it was reused; or an error.
Ready(o) ==
  /\ At(o, "ready")
  /\ \/ Goto(o, "using") /\ FreeLock(o) /\ UNCHANGED <<target, using>>
     \/ /\ target' = [target EXCEPT ![o] = using[o]]
        /\ using' = [using EXCEPT ![o] = Nobody]
        /\ Goto(o, "release") /\ UNCHANGED lock
     \/ /\ using[o] # o
        /\ target' = [target EXCEPT ![o] = using[o]]
        /\ using' = [using EXCEPT ![o] = Nobody]
        /\ Goto(o, "restart") /\ UNCHANGED lock
  /\ UNCHANGED <<config, alive, shared, trees, sessions, starting, releasing, releaseLock, up,
                 timer, waiting, reclaimed, leaked, faults>>

\* finish, without the lock: nothing for a session that is gone; the idle timer
\* for one that is kept; and a release.
Finish(o) ==
  /\ At(o, "using")
  /\ \/ ~InMap(using[o]) /\ Goto(o, "done") /\ UNCHANGED <<target, timer>>
     \/ /\ InMap(using[o]) /\ using[o] \in up
        /\ timer' = timer \cup {using[o]}
        /\ Goto(o, "done") /\ UNCHANGED target
     \/ /\ InMap(using[o])
        /\ target' = [target EXCEPT ![o] = using[o]]
        /\ Goto(o, "want") /\ UNCHANGED timer
  /\ UNCHANGED <<config, alive, shared, trees, manager, up, using, waiting, reclaimed, leaked,
                 faults>>

-----------------------------------------------------------------------------
(* Releasing a session *)

\* The idle timer fires; it cannot be cleared any more.
Fire(s) ==
  /\ At(Timer(s), "idle") /\ s \in timer
  /\ timer' = timer \ {s}
  /\ target' = [target EXCEPT ![Timer(s)] = s]
  /\ Goto(Timer(s), "want")
  /\ UNCHANGED <<config, alive, shared, trees, manager, up, using, waiting, reclaimed, leaked,
                 faults>>

\* A thread that releases a session takes its key's lock.
Want(t) ==
  /\ At(t, "want")
  /\ TakeLock(t, key[target[t]])
  /\ Goto(t, "release")
  /\ UNCHANGED <<config, alive, shared, trees, sessions, starting, releasing, releaseLock, up,
                 timer, target, using, waiting, reclaimed, leaked, faults>>

\* After it an observation starts a session, ends, or goes on with the error; a
\* release goes on to the next session; a timer may be set again.
Continue(t, from) ==
  /\ target' = [target EXCEPT ![t] = Nobody]
  /\ IF from \in {"restart", "restart lease"} THEN Goto(t, "begin") /\ UNCHANGED lock
     ELSE /\ FreeLock(t)
          /\ Goto(t, CASE t \in Observation -> "done"
                       [] t \in Releaser -> "targets"
                       [] OTHER -> "idle")

\* #releaseSession: nothing for a session that is not in the map any more;
\* else its service is stopped.
Stop(t) ==
  LET s == target[t]
  IN /\ At(t, "release") \/ At(t, "restart")
     /\ IF InMap(s)
        THEN /\ up' = up \ {s} /\ timer' = timer \ {s}
             /\ Goto(t, IF pc[t] = "restart" THEN "restart remove" ELSE "remove")
             /\ UNCHANGED <<target, lock>>
        ELSE Continue(t, pc[t]) /\ UNCHANGED <<up, timer>>
  /\ UNCHANGED <<config, alive, shared, trees, sessions, starting, releasing, releaseLock,
                 using, waiting, reclaimed, leaked, faults>>

\* The worktree is removed and the session deleted from the map.
Remove(t) ==
  LET s == target[t]
  IN /\ At(t, "remove") \/ At(t, "restart remove")
     /\ trees' = trees \ {key[s]}
     /\ sessions' = [sessions EXCEPT ![home[s]][key[s]] = Nobody]
     /\ Goto(t, IF pc[t] = "remove" THEN "lease" ELSE "restart lease")
     /\ UNCHANGED <<config, alive, shared, starting, releasing, releaseLock, lock, up, timer,
                    target, using, waiting, reclaimed, leaked, faults>>

\* #releaseLease, or its error, which ends an observation, a timer and a release.
GiveBack(t) ==
  LET s == target[t]
  IN /\ At(t, "lease") \/ At(t, "restart lease")
     /\ \/ GivesBack(s) /\ Continue(t, pc[t]) /\ UNCHANGED <<leaked, faults>>
        \/ /\ Fault /\ leaked' = leaked \cup {s}
           /\ UNCHANGED shared \/ GivesBack(s)
           /\ target' = [target EXCEPT ![t] = Nobody]
           /\ FreeLock(t)
           /\ Goto(t, CASE t \in Observation -> "done"
                        [] t \in Releaser -> "abort"
                        [] OTHER -> "idle")
     /\ UNCHANGED <<config, alive, trees, sessions, starting, releasing, releaseLock, up, timer,
                    using, waiting, reclaimed>>

-----------------------------------------------------------------------------
(* Releasing a scope *)

\* #releaseScope, #beginRelease: the starts in progress are to be waited for.
BeginRelease(x) ==
  /\ At(x, "idle") /\ releaseLock[home[x]] = Nobody
  /\ releaseLock' = [releaseLock EXCEPT ![home[x]] = x]
  /\ releasing' = [releasing EXCEPT ![home[x]] = scope[x]]
  /\ waiting' = [waiting EXCEPT ![x] =
       {o \in starting : home[o] = home[x] /\ key[o] \in scope[x]}]
  /\ Goto(x, "settle")
  /\ UNCHANGED <<config, alive, shared, trees, sessions, starting, lock, up, timer, target,
                 using, reclaimed, leaked, faults>>

\* Mutant: the starts in progress are not waited for.
Targets_Now(x) ==
  /\ At(x, "settle")
  /\ waiting' = [waiting EXCEPT ![x] = {sessions[home[x]][k] : k \in scope[x]} \ {Nobody}]
  /\ Goto(x, "targets")
  /\ UNCHANGED <<config, alive, shared, trees, manager, up, timer, target, using, reclaimed,
                 leaked, faults>>

\* All of them have settled: the sessions of the scope.
Targets(x) ==
  /\ At(x, "settle") /\ waiting[x] \cap starting = {}
  /\ waiting' = [waiting EXCEPT ![x] = {sessions[home[x]][k] : k \in scope[x]} \ {Nobody}]
  /\ Goto(x, "targets")
  /\ UNCHANGED <<config, alive, shared, trees, manager, up, timer, target, using, reclaimed,
                 leaked, faults>>

NextTarget(x) ==
  /\ At(x, "targets")
  /\ \E s \in waiting[x] :
       /\ waiting' = [waiting EXCEPT ![x] = @ \ {s}]
       /\ target' = [target EXCEPT ![x] = s]
  /\ Goto(x, "want")
  /\ UNCHANGED <<config, alive, shared, trees, manager, up, timer, using, reclaimed, leaked,
                 faults>>

\* #endRelease, after the last session and after an error.
EndRelease(x) ==
  /\ (At(x, "targets") /\ waiting[x] = {}) \/ At(x, "abort")
  /\ releasing' = [releasing EXCEPT ![home[x]] = {}]
  /\ releaseLock' = [releaseLock EXCEPT ![home[x]] = Nobody]
  /\ waiting' = [waiting EXCEPT ![x] = {}]
  /\ Goto(x, "done")
  /\ UNCHANGED <<config, alive, shared, trees, sessions, starting, lock, up, timer, target,
                 using, reclaimed, leaked, faults>>

-----------------------------------------------------------------------------
(* The environment *)

\* A runtime dies; its services may go on.
Crash(r) ==
  /\ r \in alive
  /\ Fault
  /\ alive' = alive \ {r}
  /\ UNCHANGED <<config, shared, trees, manager, up, timer, thread, leaked>>

-----------------------------------------------------------------------------

ReleaseSession(t) == Want(t) \/ Stop(t) \/ Remove(t) \/ GiveBack(t)

Observe(o) ==
  \/ Acquire(o) \/ Begin(o) \/ Reserve(o) \/ Create(o) \/ Undo(o) \/ FinishStart(o)
  \/ Ready(o) \/ Finish(o) \/ ReleaseSession(o)

ReleaseScope(x) ==
  \/ BeginRelease(x) \/ Targets(x) \/ NextTarget(x) \/ EndRelease(x) \/ ReleaseSession(x)

Next ==
  \/ \E o \in Observation : Observe(o)
  \/ \E x \in Releaser : ReleaseScope(x)
  \/ \E s \in Session : Fire(s) \/ ReleaseSession(Timer(s))
  \/ \E r \in Runtime : Crash(r)

\* Threads go on, locks are handed over, and what a step waits for (a
\* transaction, git, readiness, the end of a service) has a time limit.
Fairness ==
  /\ \A o \in Observation : WF_liveVars(Observe(o))
  /\ \A x \in Releaser : WF_liveVars(ReleaseScope(x))
  /\ \A s \in Session : WF_liveVars(ReleaseSession(Timer(s)))

Spec == Init /\ [][Next]_liveVars /\ Fairness

-----------------------------------------------------------------------------
(* Properties *)

\* Types of the variables.
TypeOK ==
  LET SessionOrNobody == Session \cup {Nobody}
      ThreadOrNobody == Thread \cup {Nobody}
  IN /\ alive \subseteq Runtime
     /\ leases \in [Key -> SessionOrNobody] /\ endpoints \in [Endpoint -> SessionOrNobody]
     /\ trees \subseteq Key
     /\ sessions \in [Runtime -> [Key -> SessionOrNobody]]
     /\ starting \subseteq Observation
     /\ releasing \in [Runtime -> SUBSET Key]
     /\ releaseLock \in [Runtime -> Releaser \cup {Nobody}]
     /\ lock \in [Runtime -> [Key -> ThreadOrNobody]]
     /\ up \subseteq Session /\ timer \subseteq Session
     /\ target \in [Thread -> SessionOrNobody]
     /\ using \in [Observation -> SessionOrNobody]
     /\ waiting \in [Releaser -> SUBSET Session]
     /\ reclaimed \subseteq Observation /\ leaked \subseteq Session

\* The service of a runtime that lives runs under the session's leases in the
\* shared state and in a worktree that is there: no two runtimes have a service
\* on one key or on one endpoint, in the worktree of another.
ServiceHasItsLeases ==
  \A s \in up : home[s] \in alive =>
    leases[key[s]] = s /\ endpoints[endpoint[key[s]]] = s /\ key[s] \in trees

\* The lease of a runtime that lives belongs to a session of its map, or to one
\* that a thread is starting or releasing; only a transaction that failed
\* leaves a lease behind, and endpoints go with sessions.
LeaseHasItsSession ==
  /\ \A k \in Key : leases[k] # Nobody /\ home[leases[k]] \in alive =>
       LET s == leases[k]
       IN \/ InMap(s) \/ pc[s] \in {"create", "undo"} \/ s \in leaked
          \/ \E t \in Thread : target[t] = s /\ pc[t] \in {"lease", "restart lease"}
  /\ \A e \in Endpoint : endpoints[e] # Nobody => leases[key[endpoints[e]]] = endpoints[e]

\* Leases, sessions, services and worktrees fit, at any time and in any runtime.
LeasesFitSessions == ServiceHasItsLeases /\ LeaseHasItsSession

\* When releaseMission or releaseAll ends without an error, no session of its
\* scope is left, and none is being started.
ReleaseLeavesNothing ==
  \A x \in Releaser : At(x, "targets") /\ waiting[x] = {} =>
    /\ \A k \in scope[x] : sessions[home[x]][k] = Nobody
    /\ \A o \in starting : home[o] = home[x] => key[o] \notin scope[x]

\* Whatever starts, restarts, times out, fails and dies meanwhile: services run
\* under their own leases, and a release leaves nothing of its scope.
SessionsAreOwned == LeasesFitSessions /\ ReleaseLeavesNothing

AllEnded ==
  \A t \in Observation \cup Releaser : pc[t] = "done" \/ RuntimeOf(t) \notin alive

\* Observations and releases end, whatever locks they wait for in each other.
ThreadsEnd == <>[]AllEnded

=============================================================================
