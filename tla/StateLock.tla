------------------------------ MODULE StateLock ------------------------------
(***************************************************************************)
(* The cross-process lock of the local JSON store: StateStore.acquireLock  *)
(* and the release closure it returns (src/src/state-store.mjs).           *)
(*                                                                         *)
(* The lock is one file.  A runtime owns the lock by having created the    *)
(* file with the exclusive flag; only later does it write the payload      *)
(* {pid, token} into it.  A contender that finds the file inspects its age *)
(* (stat) and its payload (read), which are two system calls, and unlinks  *)
(* a file it judged stale by path: the unlink does not look again at what  *)
(* it removes.  Every file system call is one action here.                 *)
(***************************************************************************)
EXTENDS Naturals, FiniteSets

CONSTANTS
  Runtime,       \* operating system processes that share one store directory
  MaxCalls,      \* bound: acquireLock calls per runtime
  MaxCrashes,    \* bound: crashes of runtimes, all together
  MaxFailures,   \* bound: payload writes that fail
  MayRestart,    \* may a crashed runtime come back with another pid?
  NoLock,        \* the absence of a lock file
  SlowPhase      \* phases in which a runtime may spend more than lockStaleMs

LockFile == [owner : Runtime, token : Nat, pid : Nat,
             payload : {"partial", "full"}, old : BOOLEAN]

ASSUME LockAssumption ==
  /\ NoLock \notin LockFile
  /\ MaxCalls \in Nat /\ MaxCrashes \in Nat /\ MaxFailures \in Nat
  /\ MayRestart \in BOOLEAN
  /\ SlowPhase \subseteq {"write", "inspect", "held", "removing"}

VARIABLES
  lock,     \* the lock file, or NoLock
  pc,       \* where each runtime is in acquireLock / release
  calls,    \* acquireLock calls made by each runtime: its current token
  pid,      \* the process id of each runtime's current incarnation
  stat,     \* what this turn of the loop learnt from fs.stat, or NoLock
  body,     \* what this turn of the loop learnt from fs.readFile, or NoLock
  crashes,  \* crashes so far
  failures, \* failed payload writes so far
  stolen    \* history: some unlink removed the lock of a live owner

vars == <<lock, pc, calls, pid, stat, body, crashes, failures, stolen>>

Phase == {"idle", "open", "write", "held", "removing",
          "inspect", "reclaim", "wait", "dead"}

\* A runtime is inside from the exclusive creation of its file to the end
\* of the release; its critical section proper is "held".
Inside(r) == pc[r] \in {"write", "held", "removing"}

\* The file r created in its current acquireLock call.
IsMine(f, r) == f # NoLock /\ f.owner = r /\ f.token = calls[r]

OwnerAlive(f) == pc[f.owner] # "dead" /\ pid[f.owner] = f.pid

\* The lock of a runtime that still relies on it.
InUse(f) == f # NoLock /\ Inside(f.owner) /\ IsMine(f, f.owner)

Init ==
  /\ lock = NoLock
  /\ pc = [r \in Runtime |-> "idle"]
  /\ calls = [r \in Runtime |-> 0]
  /\ pid = [r \in Runtime |-> 0]
  /\ stat = [r \in Runtime |-> NoLock]
  /\ body = [r \in Runtime |-> NoLock]
  /\ crashes = 0
  /\ failures = 0
  /\ stolen = FALSE

-----------------------------------------------------------------------------
(* acquireLock *)

Goto(r, phase) == pc' = [pc EXCEPT ![r] = phase]

\* A new turn of the loop knows nothing of the file.
Forget(r) ==
  /\ stat' = [stat EXCEPT ![r] = NoLock]
  /\ body' = [body EXCEPT ![r] = NoLock]

Call(r) ==
  /\ pc[r] = "idle" /\ calls[r] < MaxCalls
  /\ calls' = [calls EXCEPT ![r] = @ + 1]
  /\ Goto(r, "open")
  /\ UNCHANGED <<lock, pid, stat, body, crashes, failures, stolen>>

\* Mutant: the file is opened with 'w', over an existing one.
Create_Overwrites(r) ==
  /\ pc[r] = "open"
  /\ lock' = [owner |-> r, token |-> calls[r], pid |-> pid[r],
              payload |-> "partial", old |-> FALSE]
  /\ Goto(r, "write")
  /\ UNCHANGED <<calls, pid, stat, body, crashes, failures, stolen>>

\* fs.open(lockPath, 'wx') creates the file, still empty.
Create(r) ==
  /\ pc[r] = "open" /\ lock = NoLock
  /\ lock' = [owner |-> r, token |-> calls[r], pid |-> pid[r],
              payload |-> "partial", old |-> FALSE]
  /\ Goto(r, "write")
  /\ UNCHANGED <<calls, pid, stat, body, crashes, failures, stolen>>

\* ... or fails with EEXIST.
Exists(r) ==
  /\ pc[r] = "open" /\ lock # NoLock
  /\ Goto(r, "inspect")
  /\ UNCHANGED <<lock, calls, pid, stat, body, crashes, failures, stolen>>

\* The payload reaches the file r created, if it still has a name.
WritePayload(r) ==
  /\ pc[r] = "write"
  /\ lock' = IF IsMine(lock, r)
             THEN [lock EXCEPT !.payload = "full", !.old = FALSE] ELSE lock
  /\ Goto(r, "held")
  /\ UNCHANGED <<calls, pid, stat, body, crashes, failures, stolen>>

\* writeFile or sync throws: acquireLock throws and leaves the file behind.
WriteFails(r) ==
  /\ pc[r] = "write" /\ failures < MaxFailures
  /\ failures' = failures + 1
  /\ Goto(r, "idle")
  /\ UNCHANGED <<lock, calls, pid, stat, body, crashes, stolen>>

\* fs.stat and fs.readFile run side by side; ENOENT of either starts over.
Vanished(r) ==
  /\ pc[r] = "inspect" /\ lock = NoLock
  /\ stat[r] = NoLock \/ body[r] = NoLock
  /\ Goto(r, "open") /\ Forget(r)
  /\ UNCHANGED <<lock, calls, pid, crashes, failures, stolen>>

Stat(r) ==
  /\ pc[r] = "inspect" /\ stat[r] = NoLock /\ lock # NoLock
  /\ stat' = [stat EXCEPT ![r] = lock]
  /\ UNCHANGED <<lock, pc, calls, pid, body, crashes, failures, stolen>>

ReadPayload(r) ==
  /\ pc[r] = "inspect" /\ body[r] = NoLock /\ lock # NoLock
  /\ body' = [body EXCEPT ![r] = lock]
  /\ UNCHANGED <<lock, pc, calls, pid, stat, crashes, failures, stolen>>

\* probeProcess: signal 0 to a dead pid is normally ESRCH, but the pid may
\* be in use again, or the probe may fail for another reason.
Probe(f) == IF OwnerAlive(f) THEN {"alive"} ELSE {"missing", "unknown"}

\* Mutant: age alone makes a lock stale; its owner is not probed.
Judge_AgeOnly(r) ==
  /\ pc[r] = "inspect" /\ stat[r] # NoLock /\ body[r] # NoLock
  /\ Goto(r, IF stat[r].old THEN "reclaim" ELSE "wait")
  /\ UNCHANGED <<lock, calls, pid, stat, body, crashes, failures, stolen>>

Judge(r) ==
  /\ pc[r] = "inspect" /\ stat[r] # NoLock /\ body[r] # NoLock
  /\ \E probe \in Probe(body[r]) :
       LET stale == stat[r].old /\ (body[r].payload = "full" => probe = "missing")
       IN  Goto(r, IF stale THEN "reclaim" ELSE "wait")
  /\ UNCHANGED <<lock, calls, pid, stat, body, crashes, failures, stolen>>

\* fs.unlink(lockPath) of a file judged stale: it removes whatever bears the
\* name now; ENOENT is ignored.
Reclaim(r) ==
  /\ pc[r] = "reclaim"
  /\ lock' = NoLock
  /\ stolen' = (stolen \/ InUse(lock))
  /\ Goto(r, "open") /\ Forget(r)
  /\ UNCHANGED <<calls, pid, crashes, failures>>

\* Mutant: the loop never looks at its deadline.
Timeout_Never(r) == FALSE /\ UNCHANGED vars

\* lockTimeoutMs has passed: STATE_LOCK_TIMEOUT.
Timeout(r) ==
  /\ pc[r] = "wait"
  /\ Goto(r, "idle") /\ Forget(r)
  /\ UNCHANGED <<lock, calls, pid, crashes, failures, stolen>>

Sleep(r) ==
  /\ pc[r] = "wait"
  /\ Goto(r, "open") /\ Forget(r)
  /\ UNCHANGED <<lock, calls, pid, crashes, failures, stolen>>

-----------------------------------------------------------------------------
(* release *)

\* The release reads the file and goes on to unlink it only if it bears the
\* token.  No file, another token or an unparsable payload end the release.
ReleaseRead(r) ==
  /\ pc[r] = "held"
  /\ Goto(r, IF IsMine(lock, r) /\ lock.payload = "full"
             THEN "removing" ELSE "idle")
  /\ UNCHANGED <<lock, calls, pid, stat, body, crashes, failures, stolen>>

\* Mutant: the release leaves its phase undefined.
ReleaseUnlink_Undefined(r) ==
  /\ pc[r] = "removing"
  /\ lock' = NoLock
  /\ stolen' = (stolen \/ (InUse(lock) /\ ~IsMine(lock, r)))
  /\ Goto(r, "undefined")
  /\ UNCHANGED <<calls, pid, stat, body, crashes, failures>>

ReleaseUnlink(r) ==
  /\ pc[r] = "removing"
  /\ lock' = NoLock
  /\ stolen' = (stolen \/ (InUse(lock) /\ ~IsMine(lock, r)))
  /\ Goto(r, "idle")
  /\ UNCHANGED <<calls, pid, stat, body, crashes, failures>>

-----------------------------------------------------------------------------
(* The world *)

\* lockStaleMs passes since the file was last written, while no runtime is in
\* a phase that is not that slow.
Age ==
  /\ lock # NoLock /\ ~lock.old
  /\ \A r \in Runtime : Inside(r) \/ pc[r] = "inspect" => pc[r] \in SlowPhase
  /\ lock' = [lock EXCEPT !.old = TRUE]
  /\ UNCHANGED <<pc, calls, pid, stat, body, crashes, failures, stolen>>

Crash(r) ==
  /\ pc[r] # "dead" /\ crashes < MaxCrashes
  /\ crashes' = crashes + 1
  /\ Goto(r, "dead") /\ Forget(r)
  /\ UNCHANGED <<lock, calls, pid, failures, stolen>>

Restart(r) ==
  /\ MayRestart /\ pc[r] = "dead"
  /\ pid' = [pid EXCEPT ![r] = @ + 1]
  /\ Goto(r, "idle")
  /\ UNCHANGED <<lock, calls, stat, body, crashes, failures, stolen>>

\* What a runtime does of its own accord once it has called acquireLock.
Advance(r) ==
  \/ Create(r) \/ Exists(r) \/ WritePayload(r)
  \/ Vanished(r) \/ Stat(r) \/ ReadPayload(r) \/ Judge(r) \/ Reclaim(r)
  \/ Timeout(r) \/ Sleep(r)
  \/ ReleaseRead(r) \/ ReleaseUnlink(r)

Next ==
  \/ \E r \in Runtime :
       Call(r) \/ Advance(r) \/ WriteFails(r) \/ Crash(r) \/ Restart(r)
  \/ Age

Spec == Init /\ [][Next]_vars

\* A live runtime keeps taking steps, and the clock of a waiting loop passes
\* its deadline sooner or later.  Nobody is obliged to call, crash or restart.
Fairness == \A r \in Runtime : WF_vars(Advance(r)) /\ SF_vars(Timeout(r))

FairSpec == Spec /\ Fairness

-----------------------------------------------------------------------------
(* Properties *)

\* Types of the variables (state-store.mjs acquireLock).
TypeOK ==
  /\ lock \in LockFile \cup {NoLock}
  /\ pc \in [Runtime -> Phase]
  /\ calls \in [Runtime -> Nat]
  /\ pid \in [Runtime -> Nat]
  /\ stat \in [Runtime -> LockFile \cup {NoLock}]
  /\ body \in [Runtime -> LockFile \cup {NoLock}]
  /\ crashes \in Nat /\ failures \in Nat
  /\ stolen \in BOOLEAN

\* Two runtimes are never in the critical section at once: what every
\* read-modify-write of StateStore.transaction relies on.
MutualExclusion ==
  \A r, s \in Runtime : (Inside(r) /\ Inside(s)) => r = s

\* Exclusion is lost in no way other than an unlink that removed the lock of
\* a runtime still relying on it: creation, inspection, release, failed
\* payload writes, crashes and restarts are all harmless.
ExclusionUnlessStolen == ~stolen => MutualExclusion

\* A contender takes the lock of a live owner only by a race: the payload it
\* judged was that of another file than the one it unlinks, or not written.
TheftOnlyByRace ==
  [][\A r \in Runtime :
       Reclaim(r) /\ InUse(lock) =>
         \/ body[r].owner # lock.owner \/ body[r].token # lock.token
         \/ body[r].payload = "partial"]_vars

\* Every acquireLock call of a live runtime ends, in the critical section or
\* with an error, and every critical section is left.
AcquireEnds ==
  \A r \in Runtime : pc[r] = "open" ~> pc[r] \in {"held", "idle", "dead"}

=============================================================================
