-------------------------- MODULE RemoteHostService --------------------------
(***************************************************************************)
(* The Windows service of the remote host (remote-host-service.mjs): the   *)
(* supervisors with their lock file, their host process and the control    *)
(* file they poll, and the operators' commands, which write that file and  *)
(* start or signal supervisors.                                            *)
(*                                                                         *)
(* Supervisor 0 is started by the log-on, supervisor o by the /Run of      *)
(* operator o.  A supervisor has one host at a time.  A SIGTERM to a host  *)
(* may make it exit, which it may do at any time, so signals to hosts and  *)
(* the host that pid.json names are left out.                              *)
(***************************************************************************)
EXTENDS Naturals

CONSTANTS
  Operators,   \* bound: commands; operators are 1..Operators
  MaxFaults    \* bound: calls of the file system that fail, supervisors that die

Operator == 1..Operators
Supervisor == 0..Operators
NoSupervisor == Operators + 1
Command == {"start", "pause", "stop", "uninstall", "install", "repair"}

VARIABLES
  installed,   \* service.json exists
  control,     \* control.json: the desired state, or "missing"
  lock,        \* supervisor.lock
  snapshot,    \* pid.json: the supervisor it names, or NoSupervisor
  pc,          \* where each supervisor is
  attempt, seen, \* the attempt at the lock, and the lock file it has probed
  aborted,     \* the supervisors that SIGTERM has reached
  mute,        \* the supervisors whose log has failed: so do all later writes to it
  host,        \* the host of each supervisor
  step, command, \* where each operator is, and what it does
  looked, saved, \* the supervisor and the desired state it has read
  left,        \* the files an uninstallation has still to remove
  faults, killed,
  raced,       \* history: a lock file was removed that was not found stale
  missed       \* history: a start relied on a supervisor that was leaving

processes == <<pc, attempt, seen, aborted, mute, host>>
operators == <<step, command, looked, saved, left>>
history == <<killed, raced, missed>>
hostVars == <<installed, control, lock, snapshot, processes, operators, faults, history>>

NoLock == [owner |-> NoSupervisor, written |-> FALSE]
Files == {"state", "control", "pid", "lock"}

Init ==
  /\ installed = TRUE /\ control = "running"
  /\ lock = NoLock /\ snapshot = NoSupervisor
  /\ pc = [s \in Supervisor |-> IF s = 0 THEN "open" ELSE "absent"]
  /\ attempt = [s \in Supervisor |-> 1]
  /\ seen = [s \in Supervisor |-> NoLock]
  /\ aborted = {} /\ mute = {}
  /\ host = [s \in Supervisor |-> "none"]
  /\ step = [o \in Operator |-> "idle"]
  /\ command \in [Operator -> Command]
  /\ looked = [o \in Operator |-> NoSupervisor]
  /\ saved = [o \in Operator |-> "running"]
  /\ left = [o \in Operator |-> {}]
  /\ faults = 0 /\ killed = {} /\ raced = FALSE /\ missed = FALSE

Goto(s, phase) == pc' = [pc EXCEPT ![s] = phase]
Fault == faults < MaxFaults /\ faults' = faults + 1
NoFault == UNCHANGED faults
\* The writes to the log form one chain of promises: one that fails fails them all.
LogFails(s) == Fault /\ mute' = mute \cup {s}
LogWorks == NoFault /\ UNCHANGED mute

Alive(s) == s \in Supervisor /\ pc[s] \notin {"absent", "gone"}
\* It has a look at the control file still before it.
Attentive(s) ==
  Alive(s) /\ pc[s] \notin {"closing", "clean", "clean pid", "clean lock", "lingering"}

-----------------------------------------------------------------------------
(* acquireSupervisorLock *)

\* fs.open with wx.
Open(s) ==
  /\ pc[s] = "open"
  /\ IF lock = NoLock
     THEN lock' = [owner |-> s, written |-> FALSE] /\ Goto(s, "write")
     ELSE Goto(s, "probe") /\ UNCHANGED lock
  /\ UNCHANGED <<installed, control, snapshot, attempt, seen, aborted, mute, host, operators,
                 faults, history>>

\* The pid is written to the file that was opened, wherever it is now.
WriteLock(s) ==
  /\ pc[s] = "write"
  /\ \/ /\ NoFault /\ Goto(s, "snapshot")
        /\ lock' = [lock EXCEPT !.written = @ \/ lock.owner = s]
     \/ Fault /\ Goto(s, "gone") /\ UNCHANGED lock
  /\ UNCHANGED <<installed, control, snapshot, attempt, seen, aborted, mute, host, operators,
                 history>>

\* Mutant: the owner is not probed.
Probe_Blind(s) ==
  /\ pc[s] = "probe"
  /\ seen' = [seen EXCEPT ![s] = lock]
  /\ Goto(s, "remove")
  /\ UNCHANGED <<installed, control, lock, snapshot, attempt, aborted, mute, host, operators,
                 faults, history>>

\* The owner is probed; a file without a pid counts as stale.
Probe(s) ==
  /\ pc[s] = "probe"
  /\ seen' = [seen EXCEPT ![s] = lock]
  /\ IF lock.written /\ Alive(lock.owner)
     THEN Goto(s, "gone") /\ missed' = (missed \/ ~Attentive(lock.owner))
     ELSE Goto(s, "remove") /\ UNCHANGED missed
  /\ UNCHANGED <<installed, control, lock, snapshot, attempt, aborted, mute, host, operators,
                 faults, killed, raced>>

\* The file that is removed may be another than the one that was read.
RemoveLock(s) ==
  /\ pc[s] = "remove"
  /\ lock' = NoLock
  /\ raced' = (raced \/ (lock # NoLock /\ (lock # seen[s] \/ ~lock.written)))
  /\ IF attempt[s] = 1
     THEN attempt' = [attempt EXCEPT ![s] = 2] /\ Goto(s, "open") /\ UNCHANGED missed
     ELSE Goto(s, "gone") /\ missed' = TRUE /\ UNCHANGED attempt
  /\ seen' = [seen EXCEPT ![s] = NoLock]
  /\ UNCHANGED <<installed, control, snapshot, aborted, mute, host, operators, faults,
                 killed>>

-----------------------------------------------------------------------------
(* superviseRemoteHostService *)

\* A write of pid.json, with the line of the log that follows it.
Snapshot(s, from, next, failed, broken) ==
  /\ pc[s] = from
  /\ \/ LogWorks /\ snapshot' = s /\ Goto(s, next)
     \/ Fault /\ UNCHANGED <<snapshot, mute>> /\ Goto(s, failed)
     \/ LogFails(s) /\ snapshot' = s /\ Goto(s, broken)
  /\ UNCHANGED <<installed, control, lock, attempt, seen, aborted, host, operators, history>>

\* The first one is written before the try block.
WriteSnapshot(s) ==
  \/ Snapshot(s, "snapshot", "loop", "gone", "gone")
  \/ Snapshot(s, "spawned", "wait", "loop", "closing")
  \/ Snapshot(s, "exited", "loop", "closing", "closing")

\* The top of the loop: readControl, which takes a missing file for "running".
Leave(s) ==
  /\ pc[s] = "loop"
  /\ \/ (s \in aborted \/ control = "stopped") /\ NoFault
     \/ s \notin aborted /\ Fault
  /\ Goto(s, "closing")
  /\ UNCHANGED <<installed, control, lock, snapshot, attempt, seen, aborted, mute, host,
                 operators, history>>

Pause(s) ==
  /\ pc[s] = "loop" /\ s \notin aborted /\ control = "paused" /\ host[s] # "none"
  /\ \/ LogWorks /\ Goto(s, "pausing")
     \/ LogFails(s) /\ Goto(s, "closing")
  /\ UNCHANGED <<installed, control, lock, snapshot, attempt, seen, aborted, host, operators,
                 history>>

\* The host is spawned, or one is there already.  A spawn that throws is tried
\* again; one that reports its error afterwards ends the process, as nobody
\* listens for it yet.
Serve(s) ==
  /\ pc[s] = "loop" /\ s \notin aborted /\ control \in {"running", "missing"}
  /\ \/ /\ host[s] = "none" /\ LogWorks
        /\ host' = [host EXCEPT ![s] = "alive"] /\ Goto(s, "spawned")
     \/ host[s] = "none" /\ Fault /\ UNCHANGED <<host, mute>> /\ (UNCHANGED pc \/ Goto(s, "gone"))
     \/ host[s] # "none" /\ Goto(s, "wait") /\ UNCHANGED host /\ LogWorks
  /\ UNCHANGED <<installed, control, lock, snapshot, attempt, seen, aborted, operators,
                 history>>

\* The race of the host's exit and the poll.
Wait(s) ==
  /\ pc[s] = "wait"
  /\ \/ Goto(s, "loop") /\ UNCHANGED host
     \/ host[s] = "exited" /\ host' = [host EXCEPT ![s] = "none"] /\ Goto(s, "exited")
  /\ UNCHANGED <<installed, control, lock, snapshot, attempt, seen, aborted, mute, operators,
                 faults, history>>

\* stopManagedChild: the host ends after SIGTERM or, after a line of the log,
\* after SIGKILL.
StopHost(s) == host' = [host EXCEPT ![s] = "none"]

PauseHost(s) ==
  /\ pc[s] = "pausing"
  /\ \/ LogWorks /\ StopHost(s) /\ Goto(s, "exited")
     \/ LogFails(s) /\ UNCHANGED host /\ Goto(s, "closing")
  /\ UNCHANGED <<installed, control, lock, snapshot, attempt, seen, aborted, operators, history>>

\* Mutant: the host is stopped only when the desired state asks for it.
Close_WhenStopped(s) ==
  /\ pc[s] = "closing"
  /\ IF control = "stopped" THEN StopHost(s) ELSE UNCHANGED host
  /\ Goto(s, "clean")
  /\ UNCHANGED <<installed, control, lock, snapshot, attempt, seen, aborted, mute, operators,
                 faults, history>>

\* The finally block: the host first ...  Without a log the block ends early,
\* before a SIGKILL and with the files in place.
Close(s) ==
  /\ pc[s] = "closing"
  /\ \/ s \notin mute /\ LogWorks /\ StopHost(s) /\ Goto(s, "clean")
     \/ /\ IF s \in mute THEN LogWorks ELSE LogFails(s)
        /\ StopHost(s) \/ UNCHANGED host
        /\ Goto(s, "lingering")
  /\ UNCHANGED <<installed, control, lock, snapshot, attempt, seen, aborted, operators, history>>

\* The process ends when nothing keeps its event loop alive.
Linger(s) ==
  /\ pc[s] = "lingering" /\ host[s] # "alive"
  /\ Goto(s, "gone")
  /\ UNCHANGED <<installed, control, lock, snapshot, attempt, seen, aborted, mute, host,
                 operators, faults, history>>

\* ... then pid.json and the lock, at the same time.
Clean(s) ==
  /\ \/ pc[s] = "clean" /\ snapshot' = NoSupervisor /\ Goto(s, "clean lock") /\ UNCHANGED lock
     \/ pc[s] = "clean" /\ lock' = NoLock /\ Goto(s, "clean pid") /\ UNCHANGED snapshot
     \/ pc[s] = "clean lock" /\ lock' = NoLock /\ Goto(s, "gone") /\ UNCHANGED snapshot
     \/ pc[s] = "clean pid" /\ snapshot' = NoSupervisor /\ Goto(s, "gone") /\ UNCHANGED lock
  /\ UNCHANGED <<installed, control, attempt, seen, aborted, mute, host, operators, faults,
                 history>>

HostExits(s) ==
  /\ host[s] = "alive"
  /\ host' = [host EXCEPT ![s] = "exited"]
  /\ UNCHANGED <<installed, control, lock, snapshot, pc, attempt, seen, aborted, mute,
                 operators, faults, history>>

\* A supervisor dies; its host may live on.
Dies(s) ==
  /\ Alive(s) /\ Fault
  /\ Goto(s, "gone") /\ killed' = killed \cup {s}
  /\ UNCHANGED <<installed, control, lock, snapshot, attempt, seen, aborted, mute, host,
                 operators, raced, missed>>

-----------------------------------------------------------------------------
(* The commands *)

To(o, phase) == step' = [step EXCEPT ![o] = phase]
Desired(o) ==
  CASE command[o] = "start" -> "running"
    [] command[o] = "pause" -> "paused"
    [] OTHER -> "stopped"

\* The command is given: install, without force, where the service is not
\* installed, and everything else where it is.
Give(o) ==
  /\ step[o] = "idle" /\ (o > 1 => step[o - 1] # "idle")
  /\ installed = (command[o] # "install")
  /\ installed' = TRUE
  /\ To(o, CASE command[o] = "install" -> "restore"
              [] command[o] = "repair" -> "save"
              [] OTHER -> "write")
  /\ UNCHANGED <<control, lock, snapshot, processes, command, looked, saved, left, faults,
                 history>>

\* installRemoteHostService with force keeps the desired state ...
Save(o) ==
  /\ step[o] = "save"
  /\ saved' = [saved EXCEPT ![o] = IF control = "missing" THEN "running" ELSE control]
  /\ To(o, "write")
  /\ UNCHANGED <<installed, control, lock, snapshot, processes, command, looked, left, faults,
                 history>>

\* ... and stops the service meanwhile.
WriteControl(o) ==
  /\ step[o] = "write"
  /\ control' = Desired(o)
  /\ To(o, "look")
  /\ UNCHANGED <<installed, lock, snapshot, processes, command, looked, saved, left, faults,
                 history>>

\* readPidSnapshot
Look(o) ==
  /\ step[o] = "look"
  /\ looked' = [looked EXCEPT ![o] = snapshot]
  /\ To(o, "act")
  /\ UNCHANGED <<installed, control, lock, snapshot, processes, command, saved, left, faults,
                 history>>

\* schtasks /Run: Windows starts no second instance of a task.
TaskRun(o) ==
  \/ /\ Goto(o, IF installed THEN "open" ELSE "gone")
     /\ UNCHANGED missed
  \/ /\ \E s \in Supervisor : Alive(s)
     /\ missed' = (missed \/ \A s \in Supervisor : ~Attentive(s))
     /\ UNCHANGED pc

\* controlRemoteHostService: a start runs the task unless the supervisor of
\* the snapshot lives.
Act(o) ==
  /\ step[o] = "act" /\ command[o] \in {"start", "pause", "stop"}
  /\ IF command[o] = "start"
     THEN IF Alive(looked[o])
          THEN missed' = (missed \/ ~Attentive(looked[o])) /\ UNCHANGED pc
          ELSE TaskRun(o)
     ELSE UNCHANGED <<pc, missed>>
  /\ To(o, "done") /\ looked' = [looked EXCEPT ![o] = NoSupervisor]
  /\ UNCHANGED <<installed, control, lock, snapshot, attempt, seen, aborted, mute, host,
                 command, saved, left, faults, killed, raced>>

\* bestEffortSignalSnapshot and schtasks /End: supervisors are asked to stop,
\* or ended on the spot, or neither.
SignalAndEnd(o) ==
  /\ step[o] = "act" /\ command[o] \in {"uninstall", "repair"}
  /\ aborted' \in {aborted, aborted \cup ({looked[o]} \cap {s \in Supervisor : Alive(s)})}
  /\ \E ended \in SUBSET {s \in Supervisor : Alive(s)} :
       /\ pc' = [s \in Supervisor |-> IF s \in ended THEN "gone" ELSE pc[s]]
       /\ killed' = killed \cup ended
  /\ IF command[o] = "uninstall" THEN To(o, "remove") /\ left' = [left EXCEPT ![o] = Files]
     ELSE To(o, "restore") /\ UNCHANGED left
  /\ looked' = [looked EXCEPT ![o] = NoSupervisor]
  /\ UNCHANGED <<installed, control, lock, snapshot, attempt, seen, mute, host, command,
                 saved, faults, raced, missed>>

\* uninstallRemoteHostService removes its files at the same time.
RemoveFile(o) ==
  /\ step[o] = "remove"
  /\ \E f \in left[o] :
       /\ left' = [left EXCEPT ![o] = @ \ {f}]
       /\ installed' = (installed /\ f # "state")
       /\ control' = IF f = "control" THEN "missing" ELSE control
       /\ snapshot' = IF f = "pid" THEN NoSupervisor ELSE snapshot
       /\ lock' = IF f = "lock" THEN NoLock ELSE lock
       /\ raced' = (raced \/ (f = "lock" /\ Alive(lock.owner)))
       /\ To(o, IF left[o] = {f} THEN "done" ELSE "remove")
  /\ UNCHANGED <<processes, command, looked, saved, faults, killed, missed>>

\* The desired state is restored, and the task registered again.
Restore(o) ==
  /\ step[o] = "restore"
  /\ control' = saved[o]
  /\ To(o, "register")
  /\ UNCHANGED <<installed, lock, snapshot, processes, command, looked, saved, left, faults,
                 history>>

Register(o) ==
  /\ step[o] = "register"
  /\ \/ /\ NoFault /\ UNCHANGED <<installed, control>>
        /\ IF saved[o] = "running" THEN TaskRun(o) ELSE UNCHANGED <<pc, missed>>
     \/ /\ Fault /\ UNCHANGED <<pc, missed>>
        /\ IF command[o] = "install" THEN installed' = FALSE /\ control' = "missing"
           ELSE UNCHANGED <<installed, control>>
  /\ To(o, "done")
  /\ UNCHANGED <<lock, snapshot, attempt, seen, aborted, mute, host, command, looked, saved,
                 left, killed, raced>>

-----------------------------------------------------------------------------

Supervise(s) ==
  \/ Open(s) \/ WriteLock(s) \/ Probe(s) \/ RemoveLock(s) \/ WriteSnapshot(s)
  \/ Leave(s) \/ Pause(s) \/ Serve(s) \/ Wait(s) \/ PauseHost(s) \/ Close(s) \/ Linger(s)
  \/ Clean(s)

Operate(o) ==
  \/ Save(o) \/ WriteControl(o) \/ Look(o) \/ Act(o) \/ SignalAndEnd(o) \/ RemoveFile(o)
  \/ Restore(o) \/ Register(o)

Next ==
  \/ \E s \in Supervisor : Supervise(s) \/ HostExits(s) \/ Dies(s)
  \/ \E o \in Operator : Give(o) \/ Operate(o)

\* Supervisors and commands go on; no host need exit, and no command be given.
Fairness ==
  /\ \A s \in Supervisor : WF_hostVars(Supervise(s))
  /\ \A o \in Operator : WF_hostVars(Operate(o))

Spec == Init /\ [][Next]_hostVars /\ Fairness

-----------------------------------------------------------------------------
(* Properties *)

Lock == [owner : Supervisor \cup {NoSupervisor}, written : BOOLEAN]

\* Types of the variables.
TypeOK ==
  /\ installed \in BOOLEAN /\ control \in {"missing", "running", "paused", "stopped"}
  /\ lock \in Lock /\ snapshot \in Supervisor \cup {NoSupervisor}
  /\ pc \in [Supervisor -> {"absent", "open", "write", "probe", "remove", "snapshot", "loop",
                            "spawned", "wait", "exited", "pausing", "closing", "clean",
                            "clean pid", "clean lock", "lingering", "gone"}]
  /\ attempt \in [Supervisor -> 1..2] /\ seen \in [Supervisor -> Lock]
  /\ aborted \subseteq Supervisor /\ mute \subseteq Supervisor
  /\ killed \subseteq Supervisor
  /\ host \in [Supervisor -> {"none", "alive", "exited"}]
  /\ step \in [Operator -> {"idle", "save", "write", "look", "act", "remove", "restore",
                            "register", "done"}]
  /\ command \in [Operator -> Command]
  /\ looked \in [Operator -> Supervisor \cup {NoSupervisor}]
  /\ saved \in [Operator -> {"running", "paused", "stopped"}]
  /\ left \in [Operator -> SUBSET Files]
  /\ faults \in Nat /\ raced \in BOOLEAN /\ missed \in BOOLEAN

Holds(s) == Alive(s) /\ pc[s] \notin {"open", "probe", "remove", "clean pid"}

\* Two supervisors hold the lock only after a lock file was removed that had
\* not been found stale: it was replaced, or had not been written, when it was
\* removed, or went with an uninstallation.
OneSupervisor ==
  \A s, t \in Supervisor : s # t /\ Holds(s) /\ Holds(t) => raced

\* A supervisor that is not killed takes its host with it before it gives up
\* the lock, whatever fails and whatever the operators do meanwhile.
NoHostIsLeft ==
  \A s \in Supervisor :
    pc[s] \in {"clean", "clean pid", "clean lock", "gone"} /\ s \notin killed => host[s] # "alive"

\* A host has a supervisor, and the service has one supervisor.
HostIsSupervised == OneSupervisor /\ NoHostIsLeft

\* What the last command has written is heard: a stopped service ends, a
\* paused one has no host, unless the supervisor has lost its log, and a running
\* one has a supervisor, unless one died or failed or a start relied on one that
\* was leaving.
Heard ==
  /\ control = "stopped" => \A s \in Supervisor : Alive(s) => s \in mute
  /\ control = "paused" => \A s \in Supervisor : Alive(s) => host[s] = "none" \/ s \in mute
  /\ control = "running" /\ installed =>
       (\E s \in Supervisor : Alive(s)) \/ missed \/ faults # 0 \/ killed \cup aborted # {}
ControlIsHeard == <>[]Heard

=============================================================================
