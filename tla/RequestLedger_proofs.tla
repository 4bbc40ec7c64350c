------------------------- MODULE RequestLedger_proofs -------------------------
(***************************************************************************)
(* Proofs about the idempotency ledger, for any calls, requests, payloads  *)
(* and runtimes, and any number of failed transactions and crashes.        *)
(***************************************************************************)
EXTENDS RequestLedger, TLAPS

-----------------------------------------------------------------------------
(* Types *)

LEMMA TypeInit == Init => TypeOK
  BY LedgerAssumption DEF Init, TypeOK, Record, Status, Answer, Running

LEMMA ReplayType == \A record \in Record : Replay(record) \in Answer
  BY DEF Replay, Answer, Record

LEMMA CostType ==
  ASSUME faults \in Nat, NEW ending \in Ending, Costs(ending)
  PROVE  faults' \in Nat
  BY DEF Costs

\* What a step of a call may do to the variables.
LEMMA StepTypes ==
  ASSUME TypeOK, NEW c \in Call, Step(c)
  PROVE  /\ \E phase \in Running \cup {"done"} : Goto(c, phase)
         /\ told' = told \/ \E answer \in Answer : told' = [told EXCEPT ![c] = answer]
         /\ \/ records' = records
            \/ \E status \in Status : SetStatus(c, status)
            \/ records' = [records EXCEPT ![args[c].request] =
                 [status |-> "started", owner |-> c, payload |-> args[c].payload]]
         /\ ran' = ran \/ ran' = ran \cup {c}
         /\ doubtful' = doubtful \/ doubtful' = doubtful \cup {c}
         /\ concealed' \in {concealed, concealed \cup {c}, concealed \ {c}}
         /\ faults' \in Nat
         /\ UNCHANGED <<up, args, crashes>>
<1>0. Rec(c) \in Record /\ Replay(Rec(c)) \in Answer /\ faults \in Nat
  BY ReplayType DEF TypeOK, Rec
<1>1. CASE BeginConflict(c)
  BY <1>0, <1>1 DEF BeginConflict, Answers, Goto, Answer, history
<1>2. CASE BeginReplay(c)
  BY <1>0, <1>2, CostType DEF BeginReplay, Answers, Goto, Answer, Running, history
<1>3. CASE BeginNew(c)
  BY <1>0, <1>3, CostType DEF BeginNew, Answers, Goto, Answer, Running
<1>4. CASE ReconcileBegin(c)
  BY <1>0, <1>4 DEF ReconcileBegin, Answers, Goto, Answer, Running
<1>5. CASE ReconcileBeginFails(c) \/ ReconcileCompleteFails(c)
  BY <1>0, <1>5, CostType
     DEF ReconcileBeginFails, ReconcileCompleteFails, Answers, Goto, Answer, Running,
         Ending, history
<1>6. CASE HandlerThrows(c) \/ HandlerSwallows(c)
  BY <1>0, <1>6, CostType DEF HandlerThrows, HandlerSwallows, Doubts, Goto, Running, call, TypeOK
<1>7. CASE HandlerRejects(c) \/ HandlerReturns(c) \/ ReconcileComplete(c)
  BY <1>0, <1>7
     DEF HandlerRejects, HandlerReturns, ReconcileComplete, Answers, Goto, Answer,
         Running, history
<1>8. CASE Fail(c) \/ Complete(c) \/ Mark(c)
  BY <1>0, <1>8, CostType
     DEF Fail, Complete, Mark, Answers, Goto, Answer, Running, Status, history
<1> QED
  BY <1>1, <1>2, <1>3, <1>4, <1>5, <1>6, <1>7, <1>8 DEF Step

LEMMA TypeStep == TypeOK /\ [Next]_vars => TypeOK'
<1> SUFFICES ASSUME TypeOK, [Next]_vars PROVE TypeOK'
  OBVIOUS
<1>1. ASSUME NEW c \in Call, Step(c) PROVE TypeOK'
  <2>0. /\ pc \in [Call -> Running \cup {"idle", "done", "dead"}]
        /\ told \in [Call -> Answer] /\ records \in [Request -> Record]
        /\ args[c].request \in Request /\ args[c].payload \in Payload
    BY DEF TypeOK
  <2>1. pc' \in [Call -> Running \cup {"idle", "done", "dead"}]
    BY <1>1, <2>0, StepTypes DEF Goto
  <2>2. told' \in [Call -> Answer]
    BY <1>1, <2>0, StepTypes
  <2>3. records' \in [Request -> Record]
    <3>1. CASE records' = records
      BY <2>0, <3>1
    <3>2. ASSUME NEW status \in Status, SetStatus(c, status)
          PROVE  records' \in [Request -> Record]
      <4>1. [records[args[c].request] EXCEPT !.status = status] \in Record
        BY <2>0 DEF Record
      <4> QED
        BY <2>0, <3>2, <4>1 DEF SetStatus
    <3>3. [status |-> "started", owner |-> c, payload |-> args[c].payload] \in Record
      BY <2>0 DEF Record, Status
    <3> QED
      BY <1>1, <2>0, <3>1, <3>2, <3>3, StepTypes
  <2>4. /\ ran' = ran \/ ran' = ran \cup {c}
        /\ doubtful' = doubtful \/ doubtful' = doubtful \cup {c}
        /\ concealed' \in {concealed, concealed \cup {c}, concealed \ {c}}
        /\ faults' \in Nat /\ UNCHANGED <<up, args, crashes>>
    BY <1>1, StepTypes
  <2>5. ran' \subseteq Call /\ doubtful' \subseteq Call /\ concealed' \subseteq Call
    BY <2>4 DEF TypeOK
  <2> QED
    BY <2>1, <2>2, <2>3, <2>4, <2>5 DEF TypeOK
<1>2. ASSUME NEW m \in Runtime, Start(m) PROVE TypeOK'
  <2>1. records' \in [Request -> Record]
    BY <1>2 DEF Start, TypeOK, Record, Status
  <2> QED
    BY <1>2, <2>1, CostType DEF Start, TypeOK, call, history
<1>3. ASSUME NEW m \in Runtime, Crash(m) PROVE TypeOK'
  BY <1>3 DEF Crash, TypeOK, history
<1>4. CASE UNCHANGED vars
  BY <1>4 DEF vars, call, history, TypeOK
<1> QED
  BY <1>1, <1>2, <1>3, <1>4 DEF Next

\* The variables of the ledger keep their types.
THEOREM LedgerTypes == Spec => []TypeOK
  BY TypeInit, TypeStep, PTL DEF Spec

-----------------------------------------------------------------------------
(* The invariant: RunOnce is not inductive by itself, for it does not say   *)
(* that the record of a request names the call that runs its handler, nor   *)
(* what that record may say while the call is at work.                      *)

AtWork == {"handler", "fail", "complete", "completed", "mark"}

\* The record of a request names its call, once there is one.
Owned ==
  \A r \in Request : records[r].status # "absent" =>
    records[r].owner \in Call /\ args[records[r].owner].request = r

\* A call that has entered its handler owns the record of its request.
RunnerOwns ==
  \A c \in Call :
    /\ c \in ran => Rec(c).owner = c /\ Rec(c).status # "absent"
    /\ pc[c] \in AtWork => c \in ran
    /\ pc[c] \in {"idle", "begun"} => c \notin ran

\* What the record says while, and after, its call is at work.
Unsettled ==
  \A c \in Call :
    /\ pc[c] \in {"handler", "fail", "complete"} => Rec(c).status \in {"started", "unknown"}
    /\ pc[c] \in {"handler", "fail", "complete", "completed"} => c \notin Known
    /\ c \in Known => c \in ran /\ Rec(c).status \in {"started", "unknown"}

\* Only a handler that returned completes its request.
Earned ==
  /\ \A r \in Request : records[r].status = "completed" =>
       records[r].owner \in ran \ Known
  /\ \A c \in Call : told[c] = "ok" => Rec(c).status = "completed"

LedgerInv == TypeOK /\ Owned /\ RunnerOwns /\ Unsettled /\ Earned

LEMMA LedgerInit == Init => LedgerInv
<1> SUFFICES ASSUME Init PROVE LedgerInv
  OBVIOUS
<1>1. TypeOK
  BY TypeInit
<1>2. Owned /\ RunnerOwns /\ Unsettled /\ Earned
  BY DEF Init, Owned, RunnerOwns, Unsettled, Earned, Rec, AtWork, Known
<1> QED
  BY <1>1, <1>2 DEF LedgerInv

\* Two calls at work on one request are the same.
LEMMA OneRunner == LedgerInv => RunOnce
  BY DEF LedgerInv, RunnerOwns, RunOnce, TypeOK, Rec

\* A step of call c that leaves the records alone.
LEMMA QuietStep ==
  ASSUME LedgerInv, TypeOK', NEW c \in Call, NEW phase, Goto(c, phase),
         UNCHANGED <<records, args, ran, Known>>,
         phase \in AtWork => c \in ran, phase = "begun" => c \notin ran, phase # "idle",
         phase \in {"handler", "fail", "complete"} =>
           pc[c] \in {"handler", "fail", "complete"},
         phase = "completed" => c \notin Known,
         told'[c] = "ok" => told[c] = "ok" \/ Rec(c).status = "completed",
         \A d \in Call \ {c} : told'[d] = told[d]
  PROVE  LedgerInv'
<1>1. pc'[c] = phase /\ \A d \in Call : d # c => pc'[d] = pc[d]
  BY DEF Goto, LedgerInv, TypeOK
<1>2. \A d \in Call : Rec(d)' = Rec(d)
  BY DEF Rec
<1>3. Owned'
  BY DEF LedgerInv, Owned
<1>4. RunnerOwns'
  BY <1>1, <1>2 DEF LedgerInv, RunnerOwns, AtWork
<1>5. Unsettled'
  BY <1>1, <1>2 DEF LedgerInv, Unsettled
<1>6. Earned'
  BY <1>2 DEF LedgerInv, Earned
<1> QED
  BY <1>3, <1>4, <1>5, <1>6 DEF LedgerInv

\* Call c writes the status of the record of its request.
LEMMA SettlingStep ==
  ASSUME LedgerInv, TypeOK', NEW c \in Call, NEW status \in {"completed", "failed", "unknown"},
         NEW phase \in {"completed", "mark", "done"}, Goto(c, phase),
         SetStatus(c, status), UNCHANGED <<args, ran, Known>>,
         pc[c] \in AtWork, Rec(c).status \in {"started", "unknown"},
         status # "unknown" \/ phase = "completed" => c \notin Known,
         told'[c] = "ok" => told[c] = "ok" \/ status = "completed",
         \A d \in Call \ {c} : told'[d] = told[d]
  PROVE  LedgerInv'
<1> DEFINE r == args[c].request
<1>0. /\ records \in [Request -> Record] /\ r \in Request
      /\ \A d \in Call : args[d].request \in Request
      /\ RunOnce /\ c \in ran /\ Rec(c).owner = c
  BY OneRunner DEF LedgerInv, TypeOK, RunnerOwns
<1>1. pc'[c] = phase /\ \A d \in Call : d # c => pc'[d] = pc[d]
  BY DEF Goto, LedgerInv, TypeOK
<1>2. \A q \in Request :
        /\ q # r => records'[q] = records[q]
        /\ q = r => records'[q].status = status /\ records'[q].owner = records[q].owner
  BY <1>0 DEF SetStatus, Record
<1>3. \A d \in Call :
        /\ args[d].request # r => Rec(d)' = Rec(d)
        /\ args[d].request = r => Rec(d)'.status = status /\ Rec(d)'.owner = c
                                 /\ Rec(d) = Rec(c)
  BY <1>0, <1>2 DEF Rec
<1>4. \A d \in ran : d # c => args[d].request # r
  BY <1>0 DEF RunOnce
<1>5. Owned'
  BY <1>0, <1>2 DEF LedgerInv, Owned, Rec
<1>6. RunnerOwns'
  BY <1>0, <1>1, <1>3, <1>4 DEF LedgerInv, RunnerOwns, AtWork
<1>7. Unsettled'
  <2>1. \A d \in Call : pc[d] \in {"handler", "fail", "complete"} => d \in ran
    BY DEF LedgerInv, RunnerOwns, AtWork
  <2> QED
    BY <1>0, <1>1, <1>3, <1>4, <2>1 DEF LedgerInv, Unsettled
<1>8. Earned'
  <2>1. \A d \in Call : told[d] = "ok" => args[d].request # r
    BY <1>3 DEF LedgerInv, Earned
  <2>2. records[r].owner = c
    BY <1>0 DEF Rec
  <2> QED
    BY <1>0, <1>2, <1>3, <2>1, <2>2 DEF LedgerInv, Earned
<1> QED
  BY <1>5, <1>6, <1>7, <1>8 DEF LedgerInv

\* Call c enters its handler: it finds or makes a record of its own.
LEMMA EnteringStep ==
  ASSUME LedgerInv, TypeOK', NEW c \in Call, Goto(c, "handler"),
         UNCHANGED <<args, told, Known>>, ran' = ran \cup {c}, c \notin ran,
         Rec(c).status = "absent" \/ (Rec(c).status = "started" /\ Rec(c).owner = c),
         records' = [records EXCEPT ![args[c].request] =
                      [status |-> "started", owner |-> c, payload |-> args[c].payload]]
         \/ (Rec(c).status = "started" /\ records' = records)
  PROVE  LedgerInv'
<1> DEFINE r == args[c].request
<1>0. /\ records \in [Request -> Record] /\ r \in Request
      /\ \A d \in Call : args[d].request \in Request
      /\ c \notin Known
  BY DEF LedgerInv, TypeOK, Unsettled
<1>1. pc'[c] = "handler" /\ \A d \in Call : d # c => pc'[d] = pc[d]
  BY DEF Goto, LedgerInv, TypeOK
<1>2. \A q \in Request :
        /\ q # r => records'[q] = records[q]
        /\ q = r => records'[q].status = "started" /\ records'[q].owner = c
  BY <1>0 DEF Rec
<1>3. \A d \in Call :
        /\ args[d].request # r => Rec(d)' = Rec(d)
        /\ args[d].request = r => Rec(d)'.status = "started" /\ Rec(d)'.owner = c
                                 /\ Rec(d) = Rec(c)
  BY <1>0, <1>2 DEF Rec
<1>4. \A d \in ran : args[d].request # r
  BY <1>3 DEF LedgerInv, RunnerOwns, TypeOK
<1>5. Owned'
  BY <1>0, <1>2 DEF LedgerInv, Owned
<1>6. RunnerOwns'
  BY <1>0, <1>1, <1>3, <1>4 DEF LedgerInv, RunnerOwns, AtWork
<1>7. Unsettled'
  <2>1. \A d \in Call : pc[d] \in {"handler", "fail", "complete"} => d \in ran
    BY DEF LedgerInv, RunnerOwns, AtWork
  <2> QED
    BY <1>0, <1>1, <1>3, <1>4, <2>1 DEF LedgerInv, Unsettled
<1>8. Earned'
  <2>1. \A d \in Call : told[d] = "ok" => args[d].request # r
    BY <1>3 DEF LedgerInv, Earned
  <2> QED
    BY <1>0, <1>2, <1>3, <2>1 DEF LedgerInv, Earned
<1> QED
  BY <1>5, <1>6, <1>7, <1>8 DEF LedgerInv

\* A record is made for a call that does not learn of it.
LEMMA OrphanStep ==
  ASSUME LedgerInv, TypeOK', NEW c \in Call, NEW phase \in {"begun", "done"},
         Goto(c, phase), c \notin ran, Rec(c).status = "absent",
         UNCHANGED <<args, ran, Known>>,
         records' = [records EXCEPT ![args[c].request] =
                      [status |-> "started", owner |-> c, payload |-> args[c].payload]],
         \A d \in Call : told'[d] = "ok" => told[d] = "ok"
  PROVE  LedgerInv'
<1> DEFINE r == args[c].request
<1>0. /\ records \in [Request -> Record] /\ r \in Request
      /\ \A d \in Call : args[d].request \in Request
  BY DEF LedgerInv, TypeOK
<1>1. pc'[c] = phase /\ \A d \in Call : d # c => pc'[d] = pc[d]
  BY DEF Goto, LedgerInv, TypeOK
<1>2. \A q \in Request :
        /\ q # r => records'[q] = records[q]
        /\ q = r => records'[q].status = "started" /\ records'[q].owner = c
  BY <1>0
<1>3. \A d \in Call :
        /\ args[d].request # r => Rec(d)' = Rec(d)
        /\ args[d].request = r => Rec(d).status = "absent"
  BY <1>0, <1>2 DEF Rec
<1>4. \A d \in ran : args[d].request # r
  BY <1>3 DEF LedgerInv, RunnerOwns, TypeOK
<1>5. Owned'
  BY <1>0, <1>2 DEF LedgerInv, Owned
<1>6. RunnerOwns'
  BY <1>0, <1>1, <1>3, <1>4 DEF LedgerInv, RunnerOwns, AtWork, TypeOK
<1>7. Unsettled'
  <2>1. \A d \in Call : pc[d] \in {"handler", "fail", "complete"} => d \in ran
    BY DEF LedgerInv, RunnerOwns, AtWork
  <2> QED
    BY <1>0, <1>1, <1>3, <1>4, <2>1 DEF LedgerInv, Unsettled
<1>8. Earned'
  <2>1. \A d \in Call : told[d] = "ok" => args[d].request # r
    BY <1>3 DEF LedgerInv, Earned
  <2> QED
    BY <1>0, <1>2, <1>3, <2>1 DEF LedgerInv, Earned
<1> QED
  BY <1>5, <1>6, <1>7, <1>8 DEF LedgerInv

\* An answer, read off told.
LEMMA AnswerFacts ==
  ASSUME TypeOK, NEW c \in Call, NEW answer, Answers(c, answer)
  PROVE  Goto(c, "done") /\ told'[c] = answer /\ \A d \in Call \ {c} : told'[d] = told[d]
  BY DEF Answers, Goto, TypeOK

LEMMA ReplayOk == \A record : Replay(record) = "ok" => record.status = "completed"
  BY DEF Replay

LEMMA StepInv ==
  ASSUME LedgerInv, TypeOK', NEW c \in Call, Step(c)
  PROVE  LedgerInv'
<1>0. /\ TypeOK /\ args' = args
      /\ pc[c] \in {"idle", "begun"} => c \notin ran
      /\ pc[c] \in AtWork => c \in ran
      /\ pc[c] \in {"handler", "fail", "complete"} => Rec(c).status \in {"started", "unknown"}
      /\ pc[c] \in {"handler", "fail", "complete", "completed"} => c \notin Known
      /\ c \in Known => Rec(c).status \in {"started", "unknown"}
      /\ Rec(c).status \in Status
  BY StepTypes DEF LedgerInv, RunnerOwns, Unsettled, TypeOK, Record, Rec
<1>1. CASE BeginConflict(c) \/ BeginReplay(c) \/ ReconcileBeginFails(c)
  <2>1. /\ UNCHANGED <<records, args, ran, Known>> /\ c \notin ran
        /\ \/ Goto(c, "begun") /\ told' = told
           \/ \E answer : Answers(c, answer) /\ (answer = "ok" => Rec(c).status = "completed")
    BY <1>0, <1>1, ReplayOk
       DEF BeginConflict, BeginReplay, ReconcileBeginFails, history, Known
  <2> QED
    BY <1>0, <2>1, AnswerFacts, QuietStep DEF AtWork
<1>2. CASE BeginNew(c)
  <2>1. CASE Goto(c, "handler") /\ ran' = ran \cup {c} /\ UNCHANGED told
    <3>1. records' = [records EXCEPT ![args[c].request] =
                       [status |-> "started", owner |-> c, payload |-> args[c].payload]]
          /\ UNCHANGED Known /\ Rec(c).status = "absent" /\ c \notin ran
      <4>1. pc'[c] = "handler"
        BY <1>0, <2>1 DEF Goto, TypeOK
      <4> QED
        BY <1>0, <1>2, <4>1 DEF BeginNew, Commits, Unknown, Answers, Goto, TypeOK, Known
    <3> QED
      BY <1>0, <2>1, <3>1, EnteringStep
  <2>2. CASE UNCHANGED ran
    <3>1. /\ UNCHANGED <<args, ran, Known>> /\ c \notin ran /\ Rec(c).status = "absent"
          /\ \/ Goto(c, "begun") /\ told' = told
             \/ Answers(c, "error")
          /\ \/ records' = records
             \/ records' = [records EXCEPT ![args[c].request] =
                  [status |-> "started", owner |-> c, payload |-> args[c].payload]]
      BY <1>0, <1>2, <2>2 DEF BeginNew, Known
    <3>2. \A d \in Call : told'[d] = "ok" => told[d] = "ok"
      BY <1>0, <3>1, AnswerFacts
    <3>3. \E phase \in {"begun", "done"} : Goto(c, phase)
      BY <1>0, <3>1, AnswerFacts
    <3>4. CASE records' = records
      BY <1>0, <3>1, <3>4, AnswerFacts, QuietStep DEF AtWork
    <3>5. CASE records' # records
      BY <1>0, <3>1, <3>2, <3>3, <3>5, OrphanStep
    <3> QED
      BY <3>4, <3>5
  <2> QED
    BY <1>2, <2>1, <2>2 DEF BeginNew
<1>3. CASE ReconcileBegin(c)
  <2>1. CASE Rec(c).status = "started" /\ Rec(c).owner = c
    BY <1>0, <1>3, <2>1, EnteringStep DEF ReconcileBegin, Known
  <2>2. CASE ~(Rec(c).status = "started" /\ Rec(c).owner = c)
    <3>1. /\ UNCHANGED <<records, args, ran, Known>> /\ c \notin ran
          /\ \E answer : Answers(c, answer) /\ (answer = "ok" => Rec(c).status = "completed")
      BY <1>0, <1>3, <2>2, ReplayOk DEF ReconcileBegin, Known
    <3> QED
      BY <1>0, <3>1, AnswerFacts, QuietStep DEF AtWork
  <2> QED
    BY <2>1, <2>2
<1>4. CASE HandlerThrows(c)
  <2>1. /\ UNCHANGED <<records, args, told, ran>> /\ pc[c] = "handler"
        /\ \/ Goto(c, "fail") /\ Known' = Known
           \/ Goto(c, "mark") /\ Known' = Known \cup {c}
    BY <1>0, <1>4 DEF HandlerThrows, Doubts, Known
  <2>2. CASE Goto(c, "fail") /\ Known' = Known
    BY <1>0, <2>1, <2>2, QuietStep DEF AtWork
  <2>3. CASE Goto(c, "mark") /\ Known' = Known \cup {c}
    <3>1. pc'[c] = "mark" /\ \A d \in Call : d # c => pc'[d] = pc[d]
      BY <1>0, <2>3 DEF Goto, TypeOK
    <3>2. \A d \in Call : Rec(d)' = Rec(d)
      BY <1>0, <2>1 DEF Rec
    <3>3. c \in ran /\ Rec(c).owner = c /\ Rec(c).status \in {"started", "unknown"}
      BY <1>0, <2>1 DEF LedgerInv, RunnerOwns, AtWork
    <3>4. Owned' /\ RunnerOwns' /\ Unsettled'
      BY <1>0, <2>1, <2>3, <3>1, <3>2, <3>3
         DEF LedgerInv, Owned, RunnerOwns, Unsettled, AtWork
    <3>5. Earned'
      <4>1. ASSUME NEW r \in Request, records[r].status = "completed", records[r].owner = c
            PROVE  FALSE
        <5>1. args[c].request = r
          BY <4>1 DEF LedgerInv, Owned
        <5> QED
          BY <3>3, <4>1, <5>1 DEF Rec
      <4> QED
        BY <2>1, <2>3, <3>2, <4>1 DEF LedgerInv, Earned
    <3> QED
      BY <3>4, <3>5 DEF LedgerInv
  <2> QED
    BY <2>1, <2>2, <2>3
<1>5. CASE HandlerRejects(c) \/ HandlerReturns(c)
  <2>1. /\ UNCHANGED <<records, args, told, ran, Known>> /\ pc[c] = "handler"
        /\ \E phase \in {"fail", "complete"} : Goto(c, phase)
    BY <1>5 DEF HandlerRejects, HandlerReturns, history, Known
  <2> QED
    BY <1>0, <2>1, QuietStep DEF AtWork
<1>10. CASE HandlerSwallows(c)
  <2>1. /\ UNCHANGED <<records, args, told, ran>> /\ pc[c] = "handler" /\ pc' = pc
        /\ Known' = Known
    BY <1>0, <1>10 DEF HandlerSwallows, Known, call
  <2>2. Goto(c, "handler")
    BY <1>0, <2>1 DEF Goto, TypeOK
  <2> QED
    BY <1>0, <2>1, <2>2, QuietStep DEF AtWork
<1>6. CASE Fail(c)
  <2>1. /\ UNCHANGED <<args, ran, Known>> /\ pc[c] = "fail"
        /\ Answers(c, "error") /\ (records' = records \/ SetStatus(c, "failed"))
    BY <1>6 DEF Fail, history, Known
  <2> QED
    BY <1>0, <2>1, AnswerFacts, QuietStep, SettlingStep DEF AtWork
<1>7. CASE Complete(c)
  <2>1. /\ UNCHANGED <<args, ran, Known>> /\ pc[c] = "complete"
        /\ \/ SetStatus(c, "completed") /\ Answers(c, "ok")
           \/ /\ records' = records \/ SetStatus(c, "completed")
              /\ told' = told /\ \E phase \in {"completed", "mark"} : Goto(c, phase)
    BY <1>7 DEF Complete, Commits, Unknown, history, Known
  <2>2. CASE SetStatus(c, "completed") /\ Answers(c, "ok")
    BY <1>0, <2>1, <2>2, AnswerFacts, SettlingStep DEF AtWork
  <2>3. ASSUME NEW phase \in {"completed", "mark"}, Goto(c, phase), told' = told,
               SetStatus(c, "completed")
        PROVE  LedgerInv'
    BY <1>0, <2>1, <2>3, SettlingStep DEF AtWork
  <2>4. ASSUME NEW phase \in {"completed", "mark"}, Goto(c, phase), told' = told,
               records' = records
        PROVE  LedgerInv'
    BY <1>0, <2>1, <2>4, QuietStep DEF AtWork
  <2> QED
    BY <2>1, <2>2, <2>3, <2>4
<1>8. CASE ReconcileComplete(c) \/ ReconcileCompleteFails(c)
  <2>1. /\ UNCHANGED <<records, args, ran, Known>> /\ pc[c] = "completed"
        /\ \/ Goto(c, "mark") /\ told' = told
           \/ \E answer : Answers(c, answer) /\ (answer = "ok" => Rec(c).status = "completed")
    BY <1>8 DEF ReconcileComplete, ReconcileCompleteFails, history, Known
  <2> QED
    BY <1>0, <2>1, AnswerFacts, QuietStep DEF AtWork
<1>9. CASE Mark(c)
  <2>1. /\ UNCHANGED <<args, ran, Known>> /\ pc[c] = "mark" /\ Answers(c, "unknown")
        /\ \/ records' = records
           \/ SetStatus(c, "unknown") /\ Rec(c).status \in {"absent", "started"}
    BY <1>0, <1>9 DEF Mark, Status, history, Known
  <2>2. c \in ran /\ Rec(c).status # "absent"
    BY <1>0, <2>1 DEF LedgerInv, RunnerOwns, AtWork
  <2> QED
    BY <1>0, <2>1, <2>2, AnswerFacts, QuietStep, SettlingStep DEF AtWork
<1> QED
  BY <1>1, <1>2, <1>3, <1>4, <1>5, <1>6, <1>7, <1>8, <1>9, <1>10 DEF Step

\* A starting runtime takes back no more than "started".
LEMMA StartInv ==
  ASSUME LedgerInv, TypeOK', NEW m \in Runtime, Start(m)
  PROVE  LedgerInv'
<1>0. /\ records \in [Request -> Record] /\ UNCHANGED <<pc, args, told, ran, Known>>
      /\ \A d \in Call : args[d].request \in Request
  BY DEF LedgerInv, TypeOK, Start, call, history, Known
<1>1. \A r \in Request :
        \/ records'[r] = records[r]
        \/ /\ records[r].status = "started" /\ records'[r].status = "unknown"
           /\ records'[r].owner = records[r].owner
  BY <1>0 DEF Start, Record
<1>2. \A d \in Call :
        \/ Rec(d)' = Rec(d)
        \/ /\ Rec(d).status = "started" /\ Rec(d)'.status = "unknown"
           /\ Rec(d)'.owner = Rec(d).owner
  BY <1>0, <1>1 DEF Rec
<1>3. Owned'
  BY <1>0, <1>1 DEF LedgerInv, Owned
<1>4. RunnerOwns'
  BY <1>0, <1>2 DEF LedgerInv, RunnerOwns
<1>5. Unsettled'
  BY <1>0, <1>2 DEF LedgerInv, Unsettled
<1>6. Earned'
  BY <1>0, <1>1, <1>2 DEF LedgerInv, Earned
<1> QED
  BY <1>3, <1>4, <1>5, <1>6 DEF LedgerInv

LEMMA CrashInv ==
  ASSUME LedgerInv, TypeOK', NEW m \in Runtime, Crash(m)
  PROVE  LedgerInv'
<1>1. /\ UNCHANGED <<records, args, told, ran, Known>>
      /\ \A d \in Call : Rec(d)' = Rec(d) /\ pc'[d] \in {pc[d], "dead"}
  BY DEF Crash, Rec, history, Known
<1> QED
  BY <1>1 DEF LedgerInv, Owned, RunnerOwns, Unsettled, Earned, AtWork

LEMMA InvStep == LedgerInv /\ [Next]_vars => LedgerInv'
<1> SUFFICES ASSUME LedgerInv, [Next]_vars PROVE LedgerInv'
  OBVIOUS
<1>1. TypeOK'
  BY TypeStep DEF LedgerInv
<1>2. CASE UNCHANGED vars
  BY <1>2 DEF vars, call, history, Known, LedgerInv, TypeOK, Owned, RunnerOwns, Unsettled,
     Earned, Rec
<1> QED
  BY <1>1, <1>2, StepInv, StartInv, CrashInv DEF Next

-----------------------------------------------------------------------------
(* Theorems *)

\* LedgerInv holds throughout.
THEOREM LedgerInvariance == Spec => []LedgerInv
  BY LedgerInit, InvStep, PTL DEF Spec

\* No request has its handler entered twice.
THEOREM LedgerRunOnce == Spec => []RunOnce
  BY LedgerInvariance, OneRunner, PTL

\* An answered result is durable, of a handler that was entered and that let
\* callTool know of no transaction of unknown outcome.
THEOREM LedgerResultIsDurable == Spec => []ResultIsDurable
<1>1. LedgerInv => ResultIsDurable
  BY DEF LedgerInv, Earned, ResultIsDurable, Rec, TypeOK
<1> QED
  BY LedgerInvariance, <1>1, PTL

\* A request whose handler met a transaction of unknown outcome is recorded as
\* failed or completed only if the handler concealed it.
THEOREM LedgerDoubtIsUnknown == Spec => []DoubtIsUnknown
<1>1. LedgerInv => DoubtIsUnknown
  BY DEF LedgerInv, Unsettled, DoubtIsUnknown, Known, TypeOK
<1> QED
  BY LedgerInvariance, <1>1, PTL

\* A completed or failed record never changes.
THEOREM LedgerSettledForGood == Spec => SettledForGood
<1> DEFINE Settled(r) == records[r].status \in {"completed", "failed"}
<1>1. ASSUME LedgerInv, [Next]_vars, NEW r \in Request, Settled(r)
      PROVE  records'[r] = records[r]
  <2>0. /\ records \in [Request -> Record] /\ \A d \in Call : args[d].request \in Request
    BY <1>1 DEF LedgerInv, TypeOK
  <2>1. ASSUME NEW c \in Call, Step(c), records' # records
        PROVE  \E new : /\ records' = [records EXCEPT ![args[c].request] = new]
                        /\ Rec(c).status \notin {"completed", "failed"}
    <3>1. CASE BeginNew(c)
      BY <2>1, <3>1 DEF BeginNew
    <3>2. CASE Fail(c) \/ Complete(c)
      <4>1. Rec(c).status \in {"started", "unknown"}
        BY <1>1, <3>2 DEF Fail, Complete, LedgerInv, Unsettled
      <4> QED
        BY <2>1, <3>2, <4>1 DEF Fail, Complete, SetStatus
    <3>3. CASE Mark(c)
      BY <2>1, <3>3 DEF Mark, SetStatus
    <3>4. CASE ~(BeginNew(c) \/ Fail(c) \/ Complete(c) \/ Mark(c))
      BY <2>1, <3>4
         DEF Step, BeginConflict, BeginReplay, ReconcileBegin, ReconcileBeginFails,
             HandlerSwallows, HandlerThrows, HandlerRejects, HandlerReturns, ReconcileComplete,
             ReconcileCompleteFails
    <3> QED
      BY <3>1, <3>2, <3>3, <3>4
  <2>2. ASSUME NEW c \in Call, Step(c) PROVE records'[r] = records[r]
    BY <1>1, <2>0, <2>1, <2>2 DEF Rec
  <2>3. ASSUME NEW m \in Runtime, Start(m) \/ Crash(m) PROVE records'[r] = records[r]
    BY <1>1, <2>3 DEF Start, Crash
  <2>4. CASE UNCHANGED vars
    BY <2>4 DEF vars
  <2> QED
    BY <1>1, <2>2, <2>3, <2>4 DEF Next
<1>2. LedgerInv /\ [Next]_vars =>
        [\A r \in Request : Settled(r) => records'[r] = records[r]]_vars
  BY <1>1
<1> QED
  BY LedgerInvariance, <1>2, PTL DEF Spec, SettledForGood

=============================================================================
