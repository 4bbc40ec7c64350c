------------------------ MODULE WorkerService_proofs ------------------------
(***************************************************************************)
(* Proofs about the workers of WorkerService, for any number of runs, *)
(* tasks and deaths of supervisors: the types, the invariant WorkerInv     *)
(* that the containment of groups rests on, and what it gives.  The        *)
(* theorems about the compositions are in MCServices_proofs and            *)
(* MCProcesses_proofs. *)
(***************************************************************************)
EXTENDS WorkerService, TLAPS

-----------------------------------------------------------------------------
(* Types *)

RunReason == {"none", "operator-cancel", "timeout", "supervisor-lost", "adapter-error"}
RunTypes ==
  /\ task \in [Workers!Run -> Task] /\ alive \in BOOLEAN /\ fenced \in BOOLEAN
  /\ runPc \in [Workers!Run -> {"idle", "preparing", "packet", "running", "failed", "done"}]
  /\ runTold \in [Workers!Run -> {"none", "cancelled", "refused", "error", "outcome"}]
  /\ asked \in [Workers!Run -> RunReason]
  /\ known \in [Workers!Run -> BOOLEAN]
  /\ killTimer \in [Workers!Run -> {"off", "set", "fired"}]
SupervisorTypes ==
  /\ supervisor \in [Workers!Run -> {"none", "forked", "up", "finished", "lost"}]
  /\ inbox \in [Workers!Run -> SUBSET {"SIGTERM", "SIGKILL"}]
  /\ forceTimer \in [Workers!Run -> {"off", "set", "fired"}]
  /\ leader \in [Workers!Run -> {"none", "alive", "exited"}]
  /\ rest \in [Workers!Run -> BOOLEAN] /\ escaped \in [Workers!Run -> BOOLEAN]
  /\ deaths \in Nat

LEMMA WorkerTypes == /\ Workers!TypeOK <=> RunTypes /\ SupervisorTypes
                     /\ Workers!TypeOK' <=> RunTypes' /\ SupervisorTypes'
  BY DEF Workers!TypeOK, RunTypes, RunReason, SupervisorTypes

LEMMA WorkerTypeInit == Workers!Init => Workers!TypeOK
<1> SUFFICES ASSUME Workers!Init PROVE RunTypes /\ SupervisorTypes
  BY WorkerTypes
<1>1. RunTypes
  BY DEF Workers!Init, RunTypes, RunReason
<1>2. SupervisorTypes
  BY DEF Workers!Init, SupervisorTypes
<1> QED
  BY <1>1, <1>2

\* What is done to a group keeps its types, and raises nobody.
LEMMA GroupEnds ==
  ASSUME SupervisorTypes, NEW r \in Workers!Run,
         Workers!Terminates(r) \/ Workers!Kills(r) \/ UNCHANGED Workers!worker
  PROVE  /\ leader' \in [Workers!Run -> {"none", "alive", "exited"}]
              /\ rest' \in [Workers!Run -> BOOLEAN]
         /\ escaped' = escaped
         /\ \A q \in Workers!Run : Workers!GroupLives(q)' => Workers!GroupLives(q)
         /\ \A q \in Workers!Run : leader'[q] = "none" <=> leader[q] = "none"
<1>1. CASE Workers!Terminates(r)
  <2>1. leader' = leader \/ (leader[r] = "alive" /\ leader' = [leader EXCEPT ![r] = "exited"])
    BY <1>1 DEF Workers!Terminates
  <2> QED
    BY <1>1, <2>1 DEF Workers!Terminates, SupervisorTypes, Workers!GroupLives
<1>2. CASE Workers!Kills(r)
  BY <1>2 DEF Workers!Kills, SupervisorTypes, Workers!GroupLives
<1>3. CASE UNCHANGED Workers!worker
  BY <1>3 DEF Workers!worker, SupervisorTypes, Workers!GroupLives
<1> QED
  BY <1>1, <1>2, <1>3

\* The end of a supervisor, and its messages.
LEMMA SupervisorEnding ==
  ASSUME SupervisorTypes, NEW r \in Workers!Run, NEW how \in {"finished", "lost"},
           Workers!SupervisorEnds(r, how)
  PROVE  /\ supervisor' \in [Workers!Run -> {"none", "forked", "up", "finished", "lost"}]
         /\ inbox' \in [Workers!Run -> SUBSET {"SIGTERM", "SIGKILL"}]
         /\ forceTimer' \in [Workers!Run -> {"off", "set", "fired"}]
         /\ supervisor'[r] = how /\ \A q \in Workers!Run \ {r} : supervisor'[q] = supervisor[q]
  BY DEF Workers!SupervisorEnds, SupervisorTypes

LEMMA Sending ==
  ASSUME RunTypes, SupervisorTypes, NEW rs, Workers!Sends(rs)
  PROVE  /\ inbox' \in [Workers!Run -> SUBSET {"SIGTERM", "SIGKILL"}]
         /\ killTimer' \in [Workers!Run -> {"off", "set", "fired"}]
  BY DEF Workers!Sends, RunTypes, SupervisorTypes

LEMMA Reasoning ==
  ASSUME RunTypes, NEW rs, NEW why \in RunReason \ {"none"},
         Workers!Reason(rs, why)
  PROVE  /\ asked' \in [Workers!Run -> RunReason]
         /\ \A q \in Workers!Run : asked[q] # "none" => asked'[q] # "none"
         /\ \A q \in Workers!Run : q \in rs => asked'[q] # "none"
  BY DEF Workers!Reason, RunTypes, RunReason

LEMMA AdaptTypes ==
  ASSUME RunTypes, SupervisorTypes, NEW r \in Workers!Run, Workers!Adapt(r) \/ Workers!Cancel(r)
  PROVE  RunTypes' /\ SupervisorTypes'
<1>1. CASE Workers!Claim(r) \/ Workers!Prepare(r) \/ Workers!Fork(r)
  <2>1. UNCHANGED <<inbox, forceTimer, Workers!worker, deaths, task, alive, fenced, asked, known,
                    killTimer>>
    BY <1>1 DEF Workers!Claim, Workers!Prepare, Workers!Fork
  <2>2. /\ runPc' \in [Workers!Run -> {"idle", "preparing", "packet", "running", "failed", "done"}]
        /\ runTold' \in [Workers!Run -> {"none", "cancelled", "refused", "error", "outcome"}]
    BY <1>1 DEF Workers!Claim, Workers!Prepare, Workers!Fork, Workers!Ends, Workers!Goto, RunTypes
  <2>3. supervisor' \in [Workers!Run -> {"none", "forked", "up", "finished", "lost"}]
    BY <1>1 DEF Workers!Claim, Workers!Prepare, Workers!Fork, SupervisorTypes
  <2> QED
    BY <2>1, <2>2, <2>3 DEF RunTypes, SupervisorTypes, Workers!worker
<1>2. CASE Workers!Timeout(r) \/ Workers!Cancel(r)
  <2>1. UNCHANGED <<task, alive, runPc, runTold, fenced, known, supervisor, forceTimer,
                    Workers!worker, deaths>>
    BY <1>2 DEF Workers!Timeout, Workers!Cancel
  <2>2. /\ Workers!Sends({r}) /\ (Workers!Reason({r}, "timeout")
             \/ Workers!Reason({r}, "operator-cancel"))
    BY <1>2 DEF Workers!Timeout, Workers!Cancel
  <2>3. asked' \in [Workers!Run -> RunReason]
    BY <2>2, Reasoning DEF RunReason
  <2> QED
    BY <2>1, <2>2, <2>3, Sending DEF RunTypes, SupervisorTypes, Workers!worker
<1>3. CASE Workers!KillLater(r)
  <2>1. UNCHANGED <<task, alive, runPc, runTold, fenced, asked, known, deaths>>
    BY <1>3 DEF Workers!KillLater
  <2>2. killTimer' \in [Workers!Run -> {"off", "set", "fired"}]
    BY <1>3 DEF Workers!KillLater, RunTypes
  <2>3. /\ supervisor' \in [Workers!Run -> {"none", "forked", "up", "finished", "lost"}]
        /\ inbox' \in [Workers!Run -> SUBSET {"SIGTERM", "SIGKILL"}]
        /\ forceTimer' \in [Workers!Run -> {"off", "set", "fired"}]
    BY <1>3, SupervisorEnding DEF Workers!KillLater, SupervisorTypes
  <2>4. Workers!Kills(r) \/ UNCHANGED Workers!worker
    BY <1>3 DEF Workers!KillLater
  <2> QED
    BY <2>1, <2>2, <2>3, <2>4, GroupEnds DEF RunTypes, SupervisorTypes
<1>4. CASE Workers!Close(r) \/ Workers!CloseLost(r) \/ Workers!SendFails(r)
             \/ Workers!CloseFailed(r)
  <2>1. UNCHANGED <<task, alive, fenced, supervisor, inbox, forceTimer, deaths>>
    BY <1>4 DEF Workers!Close, Workers!CloseLost, Workers!SendFails,
               Workers!CloseFailed
  <2>2. /\ runPc' \in [Workers!Run -> {"idle", "preparing", "packet", "running", "failed", "done"}]
        /\ runTold' \in [Workers!Run -> {"none", "cancelled", "refused", "error", "outcome"}]
        /\ known' \in [Workers!Run -> BOOLEAN]
             /\ killTimer' \in [Workers!Run -> {"off", "set", "fired"}]
    BY <1>4 DEF Workers!Close, Workers!CloseLost, Workers!SendFails,
               Workers!CloseFailed, Workers!Ends, Workers!Goto, RunTypes
  <2>3. asked' \in [Workers!Run -> RunReason]
    BY <1>4, Reasoning DEF Workers!Close, Workers!CloseLost, Workers!SendFails,
               Workers!CloseFailed, RunTypes, RunReason
  <2>4. Workers!Terminates(r) \/ UNCHANGED Workers!worker
    BY <1>4 DEF Workers!Close, Workers!CloseLost, Workers!SendFails,
               Workers!CloseFailed
  <2> QED
    BY <2>1, <2>2, <2>3, <2>4, GroupEnds DEF RunTypes, SupervisorTypes
<1> QED
  BY <1>1, <1>2, <1>3, <1>4 DEF Workers!Adapt

LEMMA SuperviseTypes ==
  ASSUME RunTypes, SupervisorTypes, NEW r \in Workers!Run,
         Workers!Supervise(r) \/ Workers!LeaderExits(r) \/ Workers!SupervisorDies(r)
  PROVE  RunTypes' /\ SupervisorTypes'
<1>1. UNCHANGED <<task, alive, Workers!adapter>> /\ deaths' \in Nat
  BY DEF Workers!Supervise, Workers!Start, Workers!Terminate, Workers!Reap, Workers!ForceKill,
         Workers!Finish, Workers!ExitUnstarted, Workers!LeaderExits, Workers!SupervisorDies,
         SupervisorTypes
<1>2. RunTypes'
  BY <1>1 DEF RunTypes, Workers!adapter
<1> SUFFICES SupervisorTypes'
  BY <1>2
<1>3. CASE Workers!Start(r)
  <2>1. CASE Workers!SupervisorEnds(r, "finished") /\ UNCHANGED Workers!worker
    <3>1. supervisor' \in [Workers!Run -> {"none", "forked", "up", "finished", "lost"}]
          /\ inbox' \in [Workers!Run -> SUBSET {"SIGTERM", "SIGKILL"}]
          /\ forceTimer' \in [Workers!Run -> {"off", "set", "fired"}]
      BY <2>1, SupervisorEnding
    <3>2. UNCHANGED <<leader, rest, escaped>>
      BY <2>1 DEF Workers!worker
    <3> QED
      BY <1>1, <3>1, <3>2 DEF SupervisorTypes
  <2>2. CASE ~(Workers!SupervisorEnds(r, "finished") /\ UNCHANGED Workers!worker)
    <3>1. /\ supervisor' = [supervisor EXCEPT ![r] = "up"] /\ UNCHANGED <<inbox, forceTimer>>
          /\ leader' = [leader EXCEPT ![r] = "alive"]
          /\ rest' \in {rest, [rest EXCEPT ![r] = TRUE]}
          /\ escaped' \in {escaped, [escaped EXCEPT ![r] = TRUE]}
      BY <1>3, <2>2 DEF Workers!Start
    <3> QED
      BY <1>1, <3>1 DEF SupervisorTypes
  <2> QED
    BY <2>1, <2>2
<1>4. CASE Workers!Terminate(r) \/ Workers!Reap(r) \/ Workers!ForceKill(r)
  <2>1. Workers!Terminates(r) \/ Workers!Kills(r) \/ UNCHANGED Workers!worker
    BY <1>4 DEF Workers!Terminate, Workers!Reap, Workers!ForceKill
  <2>2. /\ supervisor' = supervisor
        /\ inbox' \in [Workers!Run -> SUBSET {"SIGTERM", "SIGKILL"}]
        /\ forceTimer' \in [Workers!Run -> {"off", "set", "fired"}]
    BY <1>4 DEF Workers!Terminate, Workers!Reap, Workers!ForceKill, Workers!Arms, SupervisorTypes
  <2>3. /\ leader' \in [Workers!Run -> {"none", "alive", "exited"}]
             /\ rest' \in [Workers!Run -> BOOLEAN]
        /\ escaped' = escaped
    BY <2>1, GroupEnds
  <2> QED
    BY <1>1, <2>2, <2>3 DEF SupervisorTypes
<1>5. CASE Workers!Finish(r) \/ Workers!ExitUnstarted(r) \/ Workers!SupervisorDies(r)
  <2>1. (Workers!SupervisorEnds(r, "finished") \/ Workers!SupervisorEnds(r, "lost"))
          /\ UNCHANGED Workers!worker
    BY <1>5 DEF Workers!Finish, Workers!ExitUnstarted, Workers!SupervisorDies
  <2>2. supervisor' \in [Workers!Run -> {"none", "forked", "up", "finished", "lost"}]
        /\ inbox' \in [Workers!Run -> SUBSET {"SIGTERM", "SIGKILL"}]
        /\ forceTimer' \in [Workers!Run -> {"off", "set", "fired"}]
    BY <2>1, SupervisorEnding
  <2>3. UNCHANGED <<leader, rest, escaped>>
    BY <2>1 DEF Workers!worker
  <2> QED
    BY <1>1, <2>2, <2>3 DEF SupervisorTypes
<1>6. CASE Workers!LeaderExits(r)
  BY <1>1, <1>6 DEF Workers!LeaderExits, SupervisorTypes
<1> QED
  BY <1>3, <1>4, <1>5, <1>6 DEF Workers!Supervise

LEMMA WorkerTypeStep == Workers!TypeOK /\ [Workers!Next]_(Workers!workerVars) => Workers!TypeOK'
<1> SUFFICES ASSUME RunTypes, SupervisorTypes, [Workers!Next]_(Workers!workerVars)
             PROVE  RunTypes' /\ SupervisorTypes'
  BY WorkerTypes
<1>1. CASE UNCHANGED Workers!workerVars
  BY <1>1 DEF Workers!workerVars, Workers!adapter, Workers!worker, RunTypes, SupervisorTypes
<1>2. ASSUME NEW r \in Workers!Run, Workers!Learn(r) PROVE RunTypes' /\ SupervisorTypes'
  BY <1>2 DEF Workers!Learn, Workers!worker, RunTypes, SupervisorTypes
<1>3. CASE Workers!CancelMission
  <2>1. UNCHANGED <<task, alive, runPc, runTold, known, supervisor, forceTimer, Workers!worker,
                    deaths>> /\ fenced' = TRUE
    BY <1>3 DEF Workers!CancelMission
  <2>2. \E rs : Workers!Reason(rs, "operator-cancel") /\ Workers!Sends(rs)
    BY <1>3 DEF Workers!CancelMission
  <2> QED
    BY <2>1, <2>2, Reasoning, Sending DEF RunTypes, SupervisorTypes, RunReason, Workers!worker
<1>4. CASE Workers!RuntimeDies
  BY <1>4 DEF Workers!RuntimeDies, Workers!adapter, Workers!worker, RunTypes, SupervisorTypes
<1> QED
  BY <1>1, <1>2, <1>3, <1>4, AdaptTypes, SuperviseTypes DEF Workers!Next

-----------------------------------------------------------------------------
(* The invariant *)

\* Where a run is, where its supervisor is and what lives of its group: a result
\* comes only from a supervisor that has finished, and then nothing lives.
RunInv(r) ==
  /\ runPc[r] \in {"idle", "preparing", "packet"} => supervisor[r] = "none" /\ runTold[r] = "none"
  /\ runPc[r] = "running" => runTold[r] = "none"
  /\ supervisor[r] \in {"forked", "up"} => runPc[r] = "running"
  /\ runPc[r] = "failed" => supervisor[r] \in {"finished", "lost"}
  /\ supervisor[r] \in {"none", "forked"} => leader[r] = "none"
  /\ supervisor[r] \in {"none", "forked", "finished"} => ~Workers!GroupLives(r)
  /\ runTold[r] = "outcome" => supervisor[r] = "finished"
  /\ fenced /\ Workers!Claimed(r) => asked[r] # "none"
\* A task is claimed by one run at a time.
OneClaim ==
  \A r, q \in Workers!Run :
    Workers!Claimed(r) /\ Workers!Claimed(q) /\ task[r] = task[q] => r = q
WorkerInv == Workers!TypeOK /\ OneClaim /\ \A r \in Workers!Run : RunInv(r)

LEMMA WorkerInit == Workers!Init => WorkerInv
<1> SUFFICES ASSUME Workers!Init PROVE WorkerInv
  OBVIOUS
<1>1. OneClaim /\ \A r \in Workers!Run : RunInv(r)
  BY DEF Workers!Init, OneClaim, Workers!Claimed, RunInv, Workers!GroupLives
<1> QED
  BY <1>1, WorkerTypeInit DEF WorkerInv
\* A step that leaves a run where it is, and raises nobody of its group.
RunStays(q) ==
  /\ UNCHANGED <<runPc[q], runTold[q], supervisor[q]>>
  /\ asked[q] # "none" => asked'[q] # "none"
  /\ leader[q] = "none" => leader'[q] = "none"
  /\ Workers!GroupLives(q)' => Workers!GroupLives(q)

LEMMA StayingKeepsRun ==
  ASSUME NEW q \in Workers!Run, RunInv(q), RunStays(q), fenced' = fenced
  PROVE  RunInv(q)' /\ (Workers!Claimed(q)' <=> Workers!Claimed(q))
  BY DEF RunInv, RunStays, Workers!Claimed

\* A step of a run is its own.
LEMMA OtherRunsStay ==
  ASSUME Workers!TypeOK, NEW r \in Workers!Run,
         Workers!Adapt(r) \/ Workers!Learn(r) \/ Workers!Supervise(r) \/ Workers!Cancel(r)
           \/ Workers!LeaderExits(r) \/ Workers!SupervisorDies(r)
  PROVE  /\ UNCHANGED <<task, fenced>> /\ \A q \in Workers!Run \ {r} : RunStays(q)
         /\ asked[r] # "none" => asked'[r] # "none"
<1>0. RunTypes /\ SupervisorTypes
  BY WorkerTypes
<1>1. UNCHANGED <<task, fenced>>
  BY DEF Workers!Adapt, Workers!Supervise, Workers!Claim, Workers!Prepare, Workers!Fork,
         Workers!Timeout, Workers!KillLater, Workers!Close, Workers!CloseLost,
         Workers!SendFails, Workers!CloseFailed, Workers!Learn,
         Workers!Start, Workers!Terminate, Workers!Reap, Workers!ForceKill, Workers!Finish,
         Workers!ExitUnstarted, Workers!Cancel, Workers!LeaderExits, Workers!SupervisorDies,
         Workers!adapter
<1>2. \A q \in Workers!Run \ {r} : UNCHANGED <<runPc[q], runTold[q]>>
  BY <1>0
     DEF Workers!Adapt, Workers!Supervise, Workers!Claim, Workers!Prepare, Workers!Fork,
         Workers!Timeout, Workers!KillLater, Workers!Close, Workers!CloseLost,
         Workers!SendFails, Workers!CloseFailed, Workers!Learn,
         Workers!Start, Workers!Terminate, Workers!Reap, Workers!ForceKill, Workers!Finish,
         Workers!ExitUnstarted, Workers!Cancel, Workers!LeaderExits, Workers!SupervisorDies,
         Workers!adapter, Workers!Goto, Workers!Ends, RunTypes
<1>3. \A q \in Workers!Run \ {r} : supervisor'[q] = supervisor[q]
  BY <1>0
     DEF Workers!Adapt, Workers!Supervise, Workers!Claim, Workers!Prepare, Workers!Fork,
         Workers!Timeout, Workers!KillLater, Workers!Close, Workers!CloseLost,
         Workers!SendFails, Workers!CloseFailed, Workers!Learn,
         Workers!Start, Workers!Terminate, Workers!Reap, Workers!ForceKill, Workers!Finish,
         Workers!ExitUnstarted, Workers!Cancel, Workers!LeaderExits, Workers!SupervisorDies,
         Workers!SupervisorEnds, SupervisorTypes
<1>4. \A q \in Workers!Run : asked[q] # "none" => asked'[q] # "none"
  <2>1. asked' = asked \/ \E why \in RunReason \ {"none"} :
          Workers!Reason({r}, why)
    BY DEF Workers!Adapt, Workers!Supervise, Workers!Claim, Workers!Prepare, Workers!Fork,
           Workers!Timeout, Workers!KillLater, Workers!Close, Workers!CloseLost,
         Workers!SendFails, Workers!CloseFailed, Workers!Learn,
           Workers!Start, Workers!Terminate, Workers!Reap, Workers!ForceKill, Workers!Finish,
           Workers!ExitUnstarted, Workers!Cancel, Workers!LeaderExits, Workers!SupervisorDies,
           Workers!adapter, RunReason
  <2> QED
    BY <1>0, <2>1, Reasoning
<1>5. \A q \in Workers!Run \ {r} : /\ leader[q] = "none" => leader'[q] = "none"
                                   /\ Workers!GroupLives(q)' => Workers!GroupLives(q)
  <2>1. CASE Workers!Start(r) \/ Workers!LeaderExits(r)
    BY <1>0, <2>1
       DEF Workers!Start, Workers!LeaderExits, Workers!GroupLives, SupervisorTypes,
           Workers!worker
  <2>2. CASE ~Workers!Start(r) /\ ~Workers!LeaderExits(r)
    <3>1. Workers!Terminates(r) \/ Workers!Kills(r) \/ UNCHANGED Workers!worker
      BY <2>2
         DEF Workers!Adapt, Workers!Supervise, Workers!Claim, Workers!Prepare, Workers!Fork,
             Workers!Timeout, Workers!KillLater, Workers!Close, Workers!CloseLost,
         Workers!SendFails, Workers!CloseFailed, Workers!Learn,
             Workers!Terminate, Workers!Reap, Workers!ForceKill, Workers!Finish,
             Workers!ExitUnstarted, Workers!Cancel, Workers!SupervisorDies
    <3> QED
      BY <1>0, <3>1, GroupEnds
  <2> QED
    BY <2>1, <2>2
<1> QED
  BY <1>1, <1>2, <1>3, <1>4, <1>5 DEF RunStays

\* The steps of a run that leave it where it is.
LEMMA StayingSteps ==
  ASSUME Workers!TypeOK, NEW r \in Workers!Run,
         \/ Workers!Timeout(r) \/ Workers!Cancel(r) \/ Workers!Learn(r) \/ Workers!Terminate(r)
              \/ Workers!Reap(r) \/ Workers!ForceKill(r)
         \/ Workers!LeaderExits(r)
  PROVE  RunStays(r)
<1>0. RunTypes /\ SupervisorTypes
  BY WorkerTypes
<1>1. UNCHANGED <<runPc, runTold, supervisor>>
  BY DEF Workers!Timeout, Workers!Cancel, Workers!Learn, Workers!Terminate, Workers!Reap,
         Workers!ForceKill, Workers!LeaderExits, Workers!adapter
<1>2. asked[r] # "none" => asked'[r] # "none"
  BY OtherRunsStay DEF Workers!Adapt, Workers!Supervise
<1>3. CASE Workers!LeaderExits(r)
  BY <1>0, <1>1, <1>2, <1>3 DEF Workers!LeaderExits, RunStays, Workers!GroupLives, SupervisorTypes
<1>4. CASE ~Workers!LeaderExits(r)
  <2>1. Workers!Terminates(r) \/ Workers!Kills(r) \/ UNCHANGED Workers!worker
    BY <1>4
       DEF Workers!Timeout, Workers!Cancel, Workers!Learn, Workers!Terminate, Workers!Reap,
           Workers!ForceKill
  <2> QED
    BY <1>0, <1>1, <1>2, <2>1, GroupEnds DEF RunStays
<1> QED
  BY <1>3, <1>4

LEMMA OwnRun ==
  ASSUME WorkerInv, NEW r \in Workers!Run, Workers!Adapt(r) \/ Workers!Supervise(r)
           \/ Workers!SupervisorDies(r)
  PROVE  RunInv(r)' /\ (Workers!Claimed(r)' =>
           Workers!Claimed(r) \/ (Workers!Claim(r) /\ runPc'[r] = "preparing"))
<1>0. RunTypes /\ SupervisorTypes /\ RunInv(r) /\ fenced' = fenced
      /\ (asked[r] # "none" => asked'[r] # "none")
  BY WorkerTypes, OtherRunsStay DEF WorkerInv
<1>1. CASE Workers!Claim(r)
  <2>1. /\ runPc[r] = "idle" /\ UNCHANGED <<supervisor, leader, rest>>
        /\ \/ runPc'[r] = "preparing" /\ runTold'[r] = runTold[r] /\ ~fenced
           \/ runPc'[r] = "done" /\ runTold'[r] \in {"cancelled", "refused"}
    BY <1>0, <1>1
       DEF Workers!Claim, Workers!Called, Workers!Goto, Workers!Ends, RunTypes, Workers!worker
  <2> QED
    BY <1>0, <1>1, <2>1 DEF RunInv, Workers!Claimed, Workers!GroupLives
<1>2. CASE Workers!Prepare(r)
  <2>1. /\ runPc[r] = "preparing" /\ UNCHANGED <<supervisor, leader, rest, asked>>
        /\ \/ runPc'[r] = "packet" /\ runTold'[r] = runTold[r]
           \/ runPc'[r] = "done" /\ runTold'[r] \in {"cancelled", "error"}
    BY <1>0, <1>2 DEF Workers!Prepare, Workers!Goto, Workers!Ends, RunTypes, Workers!worker
  <2> QED
    BY <1>0, <2>1 DEF RunInv, Workers!Claimed, Workers!GroupLives
<1>3. CASE Workers!Fork(r)
  <2>1. /\ runPc[r] = "packet" /\ UNCHANGED <<leader, rest, asked>>
        /\ \/ runPc'[r] = "running" /\ runTold'[r] = runTold[r] /\ supervisor'[r] = "forked"
           \/ runPc'[r] = "done" /\ runTold'[r] \in {"cancelled", "error"}
                /\ supervisor'[r] = supervisor[r]
    BY <1>0, <1>3
       DEF Workers!Fork, Workers!Goto, Workers!Ends, RunTypes, SupervisorTypes, Workers!worker
  <2> QED
    BY <1>0, <2>1 DEF RunInv, Workers!Claimed, Workers!GroupLives
<1>4. CASE Workers!Close(r)
  <2>1. /\ runPc[r] = "running" /\ supervisor[r] = "finished"
             /\ UNCHANGED <<supervisor, leader, rest>>
        /\ runPc'[r] = "done" /\ runTold'[r] \in {"error", "outcome"}
    BY <1>0, <1>4 DEF Workers!Close, Workers!Goto, Workers!Ends, RunTypes, Workers!worker
  <2> QED
    BY <1>0, <2>1 DEF RunInv, Workers!Claimed, Workers!GroupLives
<1>5. CASE Workers!CloseLost(r)
  <2>1. /\ runPc[r] = "running" /\ supervisor[r] = "lost" /\ supervisor' = supervisor
        /\ runPc'[r] = "done" /\ runTold'[r] = "error"
    BY <1>0, <1>5 DEF Workers!CloseLost, Workers!Goto, Workers!Ends, RunTypes
  <2> QED
    BY <1>0, <2>1 DEF RunInv, Workers!Claimed
<1>11. CASE Workers!SendFails(r) \/ Workers!CloseFailed(r)
  <2>1. /\ supervisor[r] \in {"finished", "lost"} /\ supervisor' = supervisor
        /\ runPc'[r] \in {"failed", "done"} /\ runTold'[r] \in {"error", runTold[r]}
    BY <1>0, <1>11
       DEF Workers!SendFails, Workers!CloseFailed, Workers!Goto, RunTypes, RunInv
  <2>2. Workers!Terminates(r) \/ UNCHANGED Workers!worker
    BY <1>11 DEF Workers!SendFails, Workers!CloseFailed
  <2>3. Workers!GroupLives(r)' => Workers!GroupLives(r)
    BY <1>0, <2>2, GroupEnds
  <2> QED
    BY <1>0, <2>1, <2>3 DEF RunInv, Workers!Claimed
<1>6. CASE Workers!KillLater(r)
  <2>1. /\ UNCHANGED <<runPc, runTold, asked>>
        /\ \/ supervisor'[r] = supervisor[r]
           \/ supervisor[r] \in {"forked", "up"} /\ supervisor'[r] = "lost"
    BY <1>0, <1>6, SupervisorEnding DEF Workers!KillLater, Workers!Connected
  <2>2. Workers!Kills(r) \/ UNCHANGED Workers!worker
    BY <1>6 DEF Workers!KillLater
  <2>3. /\ Workers!GroupLives(r)' => Workers!GroupLives(r)
        /\ leader[r] = "none" => leader'[r] = "none"
    BY <1>0, <2>2, GroupEnds
  <2> QED
    BY <1>0, <2>1, <2>3 DEF RunInv, Workers!Claimed
<1>7. CASE Workers!Start(r)
  <2>1. /\ supervisor[r] = "forked" /\ UNCHANGED <<runPc, runTold, asked>>
        /\ \/ supervisor'[r] = "up"
           \/ supervisor'[r] = "finished" /\ UNCHANGED <<leader, rest>>
    BY <1>0, <1>7, SupervisorEnding
       DEF Workers!Start, Workers!adapter, Workers!worker, SupervisorTypes
  <2> QED
    BY <1>0, <2>1 DEF RunInv, Workers!Claimed, Workers!GroupLives
<1>8. CASE Workers!Finish(r) \/ Workers!ExitUnstarted(r)
  <2>1. /\ supervisor'[r] = "finished" /\ UNCHANGED <<runPc, runTold, asked, leader, rest>>
        /\ supervisor[r] \in {"forked", "up"}
        /\ supervisor[r] = "forked" \/ (leader[r] = "exited" /\ ~rest[r])
    BY <1>0, <1>8, SupervisorEnding
       DEF Workers!Finish, Workers!ExitUnstarted, Workers!adapter, Workers!worker
  <2> QED
    BY <1>0, <2>1 DEF RunInv, Workers!Claimed, Workers!GroupLives
<1>9. CASE Workers!SupervisorDies(r)
  <2>1. /\ supervisor'[r] = "lost" /\ UNCHANGED <<runPc, runTold, asked, leader, rest>>
        /\ supervisor[r] \in {"forked", "up"}
    BY <1>0, <1>9, SupervisorEnding
       DEF Workers!SupervisorDies, Workers!Connected, Workers!adapter, Workers!worker
  <2> QED
    BY <1>0, <2>1 DEF RunInv, Workers!Claimed
<1>10. CASE Workers!Timeout(r) \/ Workers!Terminate(r) \/ Workers!Reap(r) \/ Workers!ForceKill(r)
  BY <1>0, <1>10, StayingSteps, StayingKeepsRun DEF WorkerInv
<1> QED
  BY <1>1, <1>2, <1>3, <1>4, <1>5, <1>6, <1>7, <1>8, <1>9, <1>10, <1>11
     DEF Workers!Adapt, Workers!Supervise

LEMMA WorkerStep == WorkerInv /\ [Workers!Next]_(Workers!workerVars) => WorkerInv'
<1> SUFFICES ASSUME WorkerInv, [Workers!Next]_(Workers!workerVars)
    PROVE OneClaim' /\ \A q \in Workers!Run : RunInv(q)'
  BY WorkerTypeStep DEF WorkerInv
<1>0. Workers!TypeOK /\ OneClaim /\ \A q \in Workers!Run : RunInv(q)
  BY DEF WorkerInv
<1>1. ASSUME NEW r \in Workers!Run, Workers!Learn(r) \/ Workers!Cancel(r)
               \/ Workers!LeaderExits(r)
      PROVE  OneClaim' /\ \A q \in Workers!Run : RunInv(q)'
  <2>1. UNCHANGED <<task, fenced>> /\ \A q \in Workers!Run : RunStays(q)
    BY <1>0, <1>1, OtherRunsStay, StayingSteps
  <2> QED
    BY <1>0, <2>1, StayingKeepsRun DEF OneClaim
<1>2. ASSUME NEW r \in Workers!Run, Workers!Adapt(r) \/ Workers!Supervise(r)
               \/ Workers!SupervisorDies(r)
      PROVE  OneClaim' /\ \A q \in Workers!Run : RunInv(q)'
  <2>1. UNCHANGED <<task, fenced>> /\ \A q \in Workers!Run \ {r} : RunStays(q)
    BY <1>0, <1>2, OtherRunsStay
  <2>2. \A q \in Workers!Run \ {r} : RunInv(q)' /\ (Workers!Claimed(q)' <=> Workers!Claimed(q))
    BY <1>0, <2>1, StayingKeepsRun
  <2>3. RunInv(r)' /\ (Workers!Claimed(r)' =>
          Workers!Claimed(r) \/ (Workers!Claim(r) /\ runPc'[r] = "preparing"))
    BY <1>2, OwnRun
  <2>4. ASSUME Workers!Claim(r), runPc'[r] = "preparing"
        PROVE \A q \in Workers!Run : ~(task[q] = task[r] /\ Workers!Claimed(q))
    <3>1. ~fenced /\ ~\E q \in Workers!Run : task[q] = task[r] /\ Workers!Claimed(q)
      BY <1>0, <2>4, WorkerTypes DEF Workers!Claim, Workers!Ends, Workers!Goto, RunTypes
    <3> QED
      BY <3>1
  <2>5. OneClaim'
    BY <1>0, <2>1, <2>2, <2>3, <2>4 DEF OneClaim
  <2> QED
    BY <2>2, <2>3, <2>5
<1>3. CASE Workers!CancelMission
  <2>1. UNCHANGED <<task, runPc, runTold, supervisor, leader, rest>>
        /\ Workers!Reason({q \in Workers!Run : Workers!Claimed(q)}, "operator-cancel")
    BY <1>3 DEF Workers!CancelMission, Workers!worker
  <2>2. \A q \in Workers!Run : Workers!Claimed(q) => asked'[q] # "none"
    BY <1>0, <2>1, WorkerTypes, Reasoning DEF RunReason
  <2>3. \A q \in Workers!Run : RunInv(q)'
    BY <1>0, <2>1, <2>2 DEF RunInv, Workers!Claimed, Workers!GroupLives
  <2> QED
    BY <1>0, <2>1, <2>3 DEF OneClaim, Workers!Claimed
<1>4. CASE Workers!RuntimeDies \/ UNCHANGED Workers!workerVars
  <2>1. UNCHANGED <<task, runPc, runTold, fenced, asked, supervisor, leader, rest>>
    BY <1>4 DEF Workers!RuntimeDies, Workers!workerVars, Workers!adapter, Workers!worker
  <2> QED
    BY <1>0, <2>1 DEF OneClaim, RunInv, Workers!Claimed, Workers!GroupLives
<1> QED
  BY <1>1, <1>2, <1>3, <1>4 DEF Workers!Next

LEMMA WorkerContains == WorkerInv => Workers!GroupsAreContained
<1> SUFFICES ASSUME WorkerInv PROVE Workers!GroupsAreContained
  OBVIOUS
<1>1. \A r \in Workers!Run : RunInv(r) /\ RunTypes /\ SupervisorTypes
  BY WorkerTypes DEF WorkerInv
<1>2. \A r \in Workers!Run : Workers!GroupLives(r) => Workers!Claimed(r) \/ supervisor[r] = "lost"
  BY <1>1 DEF RunInv, Workers!Claimed, SupervisorTypes
<1> QED
  BY <1>1, <1>2
     DEF WorkerInv, OneClaim, RunInv, Workers!GroupsAreContained, Workers!ResultMeansGroupIsGone,
         Workers!OneGroupPerTask

\* Only a fork makes a supervisor.
LEMMA WorkerForks ==
  ASSUME WorkerInv, [Workers!Next]_(Workers!workerVars), NEW q \in Workers!Run,
           supervisor[q] = "none", supervisor'[q] # "none"
  PROVE  ~fenced /\ asked[q] = "none"
<1>0. RunTypes /\ SupervisorTypes /\ RunInv(q)
  BY WorkerTypes DEF WorkerInv
<1>1. ASSUME NEW r \in Workers!Run,
             Workers!Adapt(r) \/ Workers!Learn(r) \/ Workers!Supervise(r) \/ Workers!Cancel(r)
               \/ Workers!LeaderExits(r) \/ Workers!SupervisorDies(r)
      PROVE  Workers!Fork(q) /\ r = q
  <2>1. r = q
    BY <1>1, OtherRunsStay DEF WorkerInv, RunStays
  <2>2. ~(Workers!Timeout(q) \/ Workers!Cancel(q) \/ Workers!Learn(q) \/ Workers!Terminate(q)
          \/ Workers!Reap(q) \/ Workers!ForceKill(q) \/ Workers!LeaderExits(q))
    BY StayingSteps DEF WorkerInv, RunStays
  <2>3. ~(Workers!Claim(q) \/ Workers!Prepare(q) \/ Workers!Close(q) \/ Workers!CloseLost(q)
          \/ Workers!SendFails(q) \/ Workers!CloseFailed(q))
    BY DEF Workers!Claim, Workers!Prepare, Workers!Close, Workers!CloseLost, Workers!SendFails,
           Workers!CloseFailed
  <2>4. ~(Workers!KillLater(q) \/ Workers!Start(q) \/ Workers!Finish(q)
          \/ Workers!ExitUnstarted(q) \/ Workers!SupervisorDies(q))
    BY DEF Workers!KillLater, Workers!Start, Workers!Finish, Workers!ExitUnstarted,
           Workers!SupervisorDies, Workers!Connected
  <2> QED
    BY <1>1, <2>1, <2>2, <2>3, <2>4 DEF Workers!Adapt, Workers!Supervise
<1>2. supervisor' # supervisor
  OBVIOUS
<1>3. Workers!Fork(q)
  BY <1>1, <1>2 DEF Workers!Next, Workers!CancelMission, Workers!RuntimeDies, Workers!workerVars
<1> QED
  BY <1>0, <1>2, <1>3 DEF Workers!Fork, RunInv, Workers!Claimed
=============================================================================
