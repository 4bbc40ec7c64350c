---------------------------- MODULE RequestLedger ----------------------------
(***************************************************************************)
(* The idempotency ledger of the mutating tools: callTool of app.mjs over  *)
(* the transactions of idempotency.mjs, called by clients that repeat      *)
(* their requests, on several runtimes that share one state backend, with  *)
(* transactions that fail, whose outcome stays unknown, or that commit and *)
(* then throw, and with crashes and restarts of the runtimes.              *)
(*                                                                         *)
(* A call is its own admission identity (admissionId).  What a handler     *)
(* does is abstracted to the outcomes of its transactions.                 *)
(***************************************************************************)
EXTENDS Naturals

CONSTANTS
  Call,        \* invocations of a mutating tool
  Request,     \* request identities the clients use
  Payload,     \* operations with their fingerprints
  Runtime,     \* runtimes that serve the calls
  Nobody,      \* no call
  MaxFaults,   \* bound: transactions that do not simply succeed
  MaxCrashes   \* bound: crashes of runtimes

ASSUME LedgerAssumption ==
  Nobody \notin Call /\ MaxFaults \in Nat /\ MaxCrashes \in Nat

VARIABLES
  records,   \* state.requests
  up,        \* runtimes that have opened the store
  pc,        \* where each call is
  args,      \* request, payload and runtime of each call
  told,      \* what each call has answered
  ran,       \* history: calls whose handler was entered
  doubtful,  \* history: calls whose handler had a transaction of unknown outcome
  concealed, \* history: those of them whose handler kept that from callTool
  faults, crashes

call == <<pc, args, told>>
history == <<ran, doubtful, concealed>>
vars == <<records, up, call, history, faults, crashes>>

Status == {"absent", "started", "completed", "failed", "unknown"}
Record == [status : Status, owner : Call \cup {Nobody}, payload : Payload]
Answer == {"none", "ok", "failed", "unknown", "in progress", "conflict", "error"}
Running == {"begun", "handler", "fail", "complete", "completed", "mark"}

\* How a transaction of the store ends: it commits ("ok"), throws without
\* having committed ("refused"), or after it ("raised", see StateStore), or
\* reports an unknown outcome, of a commit that was made or of one that was not.
Ending == {"ok", "refused", "raised", "unknown", "lost"}
Commits(ending) == ending \in {"ok", "raised", "unknown"}
Unknown(ending) == ending \in {"unknown", "lost"}
Costs(ending) ==
  IF ending = "ok" THEN UNCHANGED faults
  ELSE faults < MaxFaults /\ faults' = faults + 1

Rec(c) == records[args[c].request]
Goto(c, phase) == pc' = [pc EXCEPT ![c] = phase]
Answers(c, answer) ==
  /\ pc' = [pc EXCEPT ![c] = "done"]
  /\ told' = [told EXCEPT ![c] = answer]

\* Mutant: the status of the record is the answer.
Replay_Status(record) == record.status

\* replayOrThrow
Replay(record) ==
  CASE record.status = "completed" -> "ok"
    [] record.status = "failed" -> "failed"
    [] record.status = "unknown" -> "unknown"
    [] OTHER -> "in progress"

Init ==
  /\ records \in [Request -> {[status |-> "absent", owner |-> Nobody, payload |-> d] :
                                d \in Payload}]
  /\ up = {}
  /\ pc = [c \in Call |-> "idle"]
  /\ args \in [Call -> [request : Request, payload : Payload, runtime : Runtime]]
  /\ told = [c \in Call |-> "none"]
  /\ ran = {} /\ doubtful = {} /\ concealed = {}
  /\ faults = 0 /\ crashes = 0

-----------------------------------------------------------------------------
(* beginRequest, and what callTool makes of it *)

\* The mutator finds a record of another operation and throws.
BeginConflict(c) ==
  /\ pc[c] = "idle" /\ args[c].runtime \in up
  /\ Rec(c).status # "absent" /\ Rec(c).payload # args[c].payload
  /\ Answers(c, "conflict")
  /\ UNCHANGED <<records, up, args, history, faults, crashes>>

\* The record of the same operation is replayed.
BeginReplay(c) ==
  /\ pc[c] = "idle" /\ args[c].runtime \in up
  /\ Rec(c).status # "absent" /\ Rec(c).payload = args[c].payload
  /\ \E ending \in Ending :
       /\ Costs(ending)
       /\ CASE ending = "ok" -> Answers(c, Replay(Rec(c)))
            [] Unknown(ending) -> Goto(c, "begun") /\ UNCHANGED told
            [] OTHER -> Answers(c, "error")
  /\ UNCHANGED <<records, up, args, history, crashes>>

\* The record is made, and the handler entered.
BeginNew(c) ==
  /\ pc[c] = "idle" /\ args[c].runtime \in up
  /\ Rec(c).status = "absent"
  /\ \E ending \in Ending :
       /\ Costs(ending)
       /\ records' = IF Commits(ending)
                     THEN [records EXCEPT ![args[c].request] =
                            [status |-> "started", owner |-> c, payload |-> args[c].payload]]
                     ELSE records
       /\ CASE ending = "ok" -> Goto(c, "handler") /\ ran' = ran \cup {c} /\ UNCHANGED told
            [] Unknown(ending) -> Goto(c, "begun") /\ UNCHANGED <<told, ran>>
            [] OTHER -> Answers(c, "error") /\ UNCHANGED ran
  /\ UNCHANGED <<up, args, doubtful, concealed, crashes>>

\* Mutant: whoever finds the record started goes on.
ReconcileBegin_NoOwner(c) ==
  /\ pc[c] = "begun"
  /\ IF Rec(c).status = "started"
     THEN Goto(c, "handler") /\ ran' = ran \cup {c} /\ UNCHANGED told
     ELSE Answers(c, IF Rec(c).status = "absent" THEN "unknown" ELSE Replay(Rec(c)))
          /\ UNCHANGED ran
  /\ UNCHANGED <<records, up, args, doubtful, concealed, faults, crashes>>

\* The outcome of beginRequest is unknown: the audit is reconciled and the
\* record read.  The call goes on only with a record of its own.
ReconcileBegin(c) ==
  /\ pc[c] = "begun"
  /\ IF Rec(c).status = "started" /\ Rec(c).owner = c
     THEN Goto(c, "handler") /\ ran' = ran \cup {c} /\ UNCHANGED told
     ELSE Answers(c, IF Rec(c).status = "absent" THEN "unknown" ELSE Replay(Rec(c)))
          /\ UNCHANGED ran
  /\ UNCHANGED <<records, up, args, doubtful, concealed, faults, crashes>>

\* The reconciliation fails ("unknown"), or the read after it ("error").
ReconcileBeginFails(c) ==
  /\ pc[c] = "begun"
  /\ Costs("refused")
  /\ \E answer \in {"unknown", "error"} : Answers(c, answer)
  /\ UNCHANGED <<records, up, args, history, crashes>>

-----------------------------------------------------------------------------
(* The handler *)

\* The handler lets callTool know of an unknown outcome.
Doubts(c) == doubtful' = doubtful \cup {c} /\ concealed' = concealed \ {c}

\* The handler meets an unknown outcome and keeps it to itself: a capability
\* of a validation plan, or a feedback wave, makes it a result of its own
\* (runValidationCapability, runAfterWaveSafe).  It goes on, and may return, or
\* throw another error: that of the release of its lease replaces it, which is
\* thrown from a finally (withMissionExecutionLease, MissionAdvanceService).
HandlerSwallows(c) ==
  /\ pc[c] = "handler"
  /\ \E ending \in Ending : Unknown(ending) /\ Costs(ending)
  /\ doubtful' = doubtful \cup {c} /\ concealed' = concealed \cup {c}
  /\ UNCHANGED <<records, up, call, ran, crashes>>

\* Mutant: an unknown outcome is an error like another.
HandlerThrows_Any(c) ==
  /\ pc[c] = "handler"
  /\ \E ending \in Ending \ {"ok"} :
       /\ Costs(ending)
       /\ Goto(c, "fail")
       /\ IF Unknown(ending) THEN Doubts(c) ELSE UNCHANGED <<doubtful, concealed>>
  /\ UNCHANGED <<records, up, args, told, ran, crashes>>

\* A transaction of the handler does not simply commit: the handler throws
\* what the transaction threw.
HandlerThrows(c) ==
  /\ pc[c] = "handler"
  /\ \E ending \in Ending \ {"ok"} :
       /\ Costs(ending)
       /\ Goto(c, IF Unknown(ending) THEN "mark" ELSE "fail")
       /\ IF Unknown(ending) THEN Doubts(c) ELSE UNCHANGED <<doubtful, concealed>>
  /\ UNCHANGED <<records, up, args, told, ran, crashes>>

\* The handler rejects its arguments, or something it does outside the store fails.
HandlerRejects(c) ==
  /\ pc[c] = "handler"
  /\ Goto(c, "fail")
  /\ UNCHANGED <<records, up, args, told, history, faults, crashes>>

HandlerReturns(c) ==
  /\ pc[c] = "handler"
  /\ Goto(c, "complete")
  /\ UNCHANGED <<records, up, args, told, history, faults, crashes>>

-----------------------------------------------------------------------------
(* completeRequest, failRequest, markRequestUnknown *)

SetStatus(c, status) ==
  records' = [records EXCEPT ![args[c].request].status = status]

\* failRequest; its own error is swallowed and that of the handler rethrown.
Fail(c) ==
  /\ pc[c] = "fail"
  /\ \E ending \in Ending :
       /\ Costs(ending)
       /\ IF Commits(ending) THEN SetStatus(c, "failed") ELSE UNCHANGED records
  /\ Answers(c, "error")
  /\ UNCHANGED <<up, args, history, crashes>>

Complete(c) ==
  /\ pc[c] = "complete"
  /\ \E ending \in Ending :
       /\ Costs(ending)
       /\ IF Commits(ending) THEN SetStatus(c, "completed") ELSE UNCHANGED records
       /\ CASE ending = "ok" -> Answers(c, "ok")
            [] Unknown(ending) -> Goto(c, "completed") /\ UNCHANGED told
            [] OTHER -> Goto(c, "mark") /\ UNCHANGED told
  /\ UNCHANGED <<up, args, history, crashes>>

\* Mutant: the result is returned without a look at the record.
ReconcileComplete_Trusting(c) ==
  /\ pc[c] = "completed"
  /\ Answers(c, "ok")
  /\ UNCHANGED <<records, up, args, history, faults, crashes>>

\* The outcome of completeRequest is unknown: the result is returned if the
\* durable record says that the request is completed.
ReconcileComplete(c) ==
  /\ pc[c] = "completed"
  /\ IF Rec(c).status = "completed" THEN Answers(c, "ok")
     ELSE Goto(c, "mark") /\ UNCHANGED told
  /\ UNCHANGED <<records, up, args, history, faults, crashes>>

\* The reconciliation fails, or the read after it, whose error is thrown.
ReconcileCompleteFails(c) ==
  /\ pc[c] = "completed"
  /\ Costs("refused")
  /\ \/ Goto(c, "mark") /\ UNCHANGED told
     \/ Answers(c, "error")
  /\ UNCHANGED <<records, up, args, history, crashes>>

\* Mutant: the outcome is marked unknown whatever the record says.
Mark_Always(c) ==
  /\ pc[c] = "mark"
  /\ \E ending \in Ending :
       /\ Costs(ending)
       /\ IF Commits(ending) THEN SetStatus(c, "unknown") ELSE UNCHANGED records
  /\ Answers(c, "unknown")
  /\ UNCHANGED <<up, args, history, crashes>>

\* markRequestUnknown leaves a settled record alone; its error is swallowed.
Mark(c) ==
  /\ pc[c] = "mark"
  /\ \E ending \in Ending :
       /\ Costs(ending)
       /\ IF Commits(ending) /\ Rec(c).status \notin {"completed", "failed", "unknown"}
          THEN SetStatus(c, "unknown") ELSE UNCHANGED records
  /\ Answers(c, "unknown")
  /\ UNCHANGED <<up, args, history, crashes>>

-----------------------------------------------------------------------------
(* Runtimes *)

\* init takes every request in progress, those of other live runtimes
\* included, for one whose outcome is unknown.  An init that fails after its
\* commit leaves the runtime down.
Start(m) ==
  /\ m \notin up
  /\ \E ending \in Ending :
       /\ Costs(ending)
       /\ up' = IF ending = "ok" THEN up \cup {m} ELSE up
       /\ records' = [r \in Request |->
                        IF Commits(ending) /\ records[r].status = "started"
                        THEN [records[r] EXCEPT !.status = "unknown"] ELSE records[r]]
  /\ UNCHANGED <<call, history, crashes>>

\* The calls a runtime was serving die with it.
Crash(m) ==
  /\ m \in up /\ crashes < MaxCrashes
  /\ crashes' = crashes + 1
  /\ up' = up \ {m}
  /\ pc' = [c \in Call |-> IF args[c].runtime = m /\ pc[c] \in Running
                           THEN "dead" ELSE pc[c]]
  /\ UNCHANGED <<records, args, told, history, faults>>

-----------------------------------------------------------------------------

Step(c) ==
  \/ BeginConflict(c) \/ BeginReplay(c) \/ BeginNew(c)
  \/ ReconcileBegin(c) \/ ReconcileBeginFails(c)
  \/ HandlerSwallows(c) \/ HandlerThrows(c) \/ HandlerRejects(c) \/ HandlerReturns(c)
  \/ Fail(c) \/ Complete(c)
  \/ ReconcileComplete(c) \/ ReconcileCompleteFails(c) \/ Mark(c)

Next ==
  \/ \E c \in Call : Step(c)
  \/ \E m \in Runtime : Start(m) \/ Crash(m)

Spec == Init /\ [][Next]_vars

-----------------------------------------------------------------------------
(* Properties *)

\* Types of the variables.
TypeOK ==
  /\ records \in [Request -> Record]
  /\ up \subseteq Runtime
  /\ pc \in [Call -> Running \cup {"idle", "done", "dead"}]
  /\ args \in [Call -> [request : Request, payload : Payload, runtime : Runtime]]
  /\ told \in [Call -> Answer]
  /\ ran \subseteq Call /\ doubtful \subseteq Call /\ concealed \subseteq Call
  /\ faults \in Nat /\ crashes \in Nat

\* The handler of a request is entered once at most, whoever repeats the
\* request, on whatever runtime, and whatever became of the bookkeeping
\* ("it will not be replayed blindly").
RunOnce ==
  \A c, d \in ran : args[c].request = args[d].request => c = d

\* Calls of whose unknown outcome callTool knows.
Known == doubtful \ concealed

\* A call that answered with a result has a durable completed record, of a
\* handler that was entered and that let callTool know of no transaction of
\* unknown outcome.  A handler that swallows one completes like any other.
ResultIsDurable ==
  \A c \in Call : told[c] = "ok" =>
    Rec(c).status = "completed" /\ Rec(c).owner \in ran \ Known

\* "Reuse with a different operation/payload is rejected" (README.md): no call
\* is answered with the result, or the failure, of another operation.  The
\* replay after a beginRequest of unknown outcome does not compare operations.
ReplayIsOwn ==
  \A c \in Call : told[c] \in {"ok", "failed"} => Rec(c).payload = args[c].payload

\* "If a handler mutation may already have committed, the request becomes
\* `unknown`, not falsely `failed`" (README.md), as far as the code keeps it: of
\* a request whose handler met a transaction of unknown outcome, a record
\* "failed" or "completed" means that the handler concealed it.
DoubtIsUnknown ==
  \A c \in doubtful :
    Rec(c).status \in {"completed", "failed"} => c \in concealed

\* What a repeated request is answered never changes once it is a result or
\* a failure.
SettledForGood ==
  [][\A r \in Request :
       records[r].status \in {"completed", "failed"} => records'[r] = records[r]]_vars

=============================================================================
