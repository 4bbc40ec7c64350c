------------------------ MODULE MissionLifecycle_proofs ------------------------
(***************************************************************************)
(* Proofs about the life of a mission, for any number of concurrent calls, *)
(* waves, candidates and proposals.                                        *)
(***************************************************************************)
EXTENDS MissionLifecycle, TLAPS

-----------------------------------------------------------------------------
(* Types *)

LEMMA NoWorkType == NoWork \in Work
  BY LifecycleAssumption DEF NoWork, Work, Kind

\* Whoever goes to a step and knows something keeps the types of the calls.
LEMMA CallTypes ==
  ASSUME TypeOK, NEW a \in Call, NEW step \in Step, NEW known \in Work,
         Goto(a, step) \/ pc' = pc, Knows(a, known) \/ work' = work
  PROVE  pc' \in [Call -> Step] /\ work' \in [Call -> Work]
  BY DEF TypeOK, Goto, Knows

LEMMA ReturnTypes ==
  ASSUME TypeOK, NEW a \in Call, Return(a)
  PROVE  pc' \in [Call -> Step] /\ work' \in [Call -> Work]
<1>1. "idle" \in Step
  BY DEF Step
<1> QED
  BY <1>1, NoWorkType, CallTypes DEF Return

LEMMA PendingType ==
  \A commit \in Commit \cup {NoCommit} : Pending(commit) \in [Kind -> Proof]
  BY DEF Pending, Proof

LEMMA TypeInit == Init => TypeOK
<1> SUFFICES ASSUME Init PROVE TypeOK
  OBVIOUS
<1>1. proof \in [Kind -> Proof]
  BY PendingType DEF Init
<1>2. pc \in [Call -> Step] /\ work \in [Call -> Work]
  BY NoWorkType DEF Init, Step
<1>3. /\ candidates \in [CandidateId -> Candidate \cup {Absent}]
      /\ proposals \in [ProposalId -> Proposal \cup {Absent}]
  BY DEF Init
<1>4. /\ phase \in Phase /\ tasks \in {"planned", "done"} /\ waves \in Nat
      /\ active \in 0..MaxCandidates /\ proposed \in 0..MaxProposals
      /\ sourceHead \in 0..MaxSource /\ missionHead \in 0..MaxHead
      /\ passed \subseteq Kind \X Commit /\ turns \in Nat
  BY LifecycleAssumption DEF Init, Phase
<1>5. cancelled \in BOOLEAN
  BY DEF Init
<1> QED
  BY <1>1, <1>2, <1>3, <1>4, <1>5 DEF TypeOK

LEMMA HeadTypes ==
  ASSUME TypeOK
  PROVE  /\ Head(missionHead) \in Commit
         /\ \A c \in CandidateId : candidates[c] # Absent => candidates[c] \in Candidate
  BY DEF TypeOK, Commit

LEMMA TypeExecution ==
  ASSUME TypeOK, NEW a \in Call,
         CallExecute(a) \/ RunWave(a) \/ ScheduleRepair(a) \/ ExecutionComplete(a)
  PROVE  TypeOK'
<1>1. CASE CallExecute(a)
  <2>1. PICK step \in Step : Goto(a, step) /\ work' = work
    BY <1>1 DEF CallExecute, Step
  <2> QED
    BY <1>1, <2>1, NoWorkType, CallTypes DEF CallExecute, TypeOK, mission, runtime, heads
<1>2. CASE RunWave(a)
  <2>1. "feedback" \in Step
    BY DEF Step
  <2>2. pc' \in [Call -> Step] /\ work' \in [Call -> Work]
    BY <1>2, <2>1, NoWorkType, CallTypes DEF RunWave
  <2> QED
    BY <1>2, <2>2 DEF RunWave, TypeOK, runtime
<1>3. CASE ScheduleRepair(a)
  <2>1. pc' \in [Call -> Step] /\ work' \in [Call -> Work]
    BY <1>3, ReturnTypes DEF ScheduleRepair
  <2>2. cancelled' \in BOOLEAN
    BY <1>3 DEF ScheduleRepair
  <2>3. tasks' \in {"planned", "done"} /\ waves' \in Nat /\ turns' \in Nat
    BY <1>3 DEF ScheduleRepair, PlanWave, Turn, TypeOK
  <2> QED
    BY <1>3, <2>1, <2>2, <2>3 DEF ScheduleRepair, TypeOK, runtime, heads
<1>4. CASE ExecutionComplete(a)
  BY <1>4, ReturnTypes DEF ExecutionComplete, TypeOK, Phase, runtime, heads
<1> QED
  BY <1>1, <1>2, <1>3, <1>4

\* What is examined is a commit.
LEMMA ExamineTypes ==
  ASSUME TypeOK, NEW a \in Call, NEW kind \in Kind, NEW commit \in Commit,
         NEW advances \in BOOLEAN, Examine(a, kind, commit, advances)
  PROVE  TypeOK'
<1>1. PICK ok \in BOOLEAN :
        Knows(a, [NoWork EXCEPT !.kind = kind, !.commit = commit, !.ok = ok,
                                !.advances = advances])
  BY DEF Examine
<1>2. [NoWork EXCEPT !.kind = kind, !.commit = commit, !.ok = ok, !.advances = advances]
        \in Work
  BY NoWorkType DEF Work, NoWork
<1>3. "prove" \in Step
  BY DEF Step
<1>4. pc' \in [Call -> Step] /\ work' \in [Call -> Work]
  BY <1>1, <1>2, <1>3, CallTypes DEF Examine
<1>5. turns' \in Nat
  BY DEF Examine, Turn, TypeOK
<1> QED
  BY <1>4, <1>5 DEF Examine, TypeOK, mission, runtime, heads

LEMMA ProveTypes ==
  ASSUME TypeOK, NEW w \in Work, w.commit \in Commit, Prove(w)
  PROVE  proof' \in [Kind -> Proof] /\ passed' \subseteq Kind \X Commit
<1>1. w.kind \in Kind
  BY DEF Work
<1>2. [status |-> IF w.ok THEN "passed" ELSE "failed", commit |-> w.commit] \in Proof
  BY DEF Proof
<1>3. proof' \in [Kind -> Proof]
  BY <1>1, <1>2 DEF Prove, TypeOK
<1>4. passed' \subseteq Kind \X Commit
  BY <1>1 DEF Prove, TypeOK
<1> QED
  BY <1>3, <1>4

LEMMA TypeReview ==
  ASSUME TypeOK, NEW a \in Call,
         pc[a] = "prove" => work[a].commit \in Commit,
         RecordValidation(a) \/ RecordReview(a) \/ MarkReviewed(a)
         \/ CallRemediate(a) \/ Remediate(a)
  PROVE  TypeOK'
<1>0. work[a] \in Work
  BY DEF TypeOK
<1>1. CASE RecordValidation(a)
  <2>1. proof' \in [Kind -> Proof] /\ passed' \subseteq Kind \X Commit
    BY <1>0, <1>1, ProveTypes DEF RecordValidation
  <2>2. pc' \in [Call -> Step] /\ work' \in [Call -> Work]
    BY <1>1, ReturnTypes DEF RecordValidation
  <2>3. phase' \in Phase
    BY <1>1 DEF RecordValidation, Phase
  <2> QED
    BY <1>1, <2>1, <2>2, <2>3 DEF RecordValidation, TypeOK, runtime, heads
<1>2. CASE RecordReview(a)
  <2>1. proof' \in [Kind -> Proof] /\ passed' \subseteq Kind \X Commit
    BY <1>0, <1>2, ProveTypes DEF RecordReview
  <2>2. [NoWork EXCEPT !.kind = work[a].kind] \in Work
    BY <1>0, NoWorkType DEF Work, NoWork
  <2>3. "mark" \in Step
    BY DEF Step
  <2>4. pc' \in [Call -> Step] /\ work' \in [Call -> Work]
    BY <1>2, <2>2, <2>3, ReturnTypes, CallTypes DEF RecordReview
  <2> QED
    BY <1>2, <2>1, <2>4 DEF RecordReview, TypeOK, runtime, heads
<1>3. CASE MarkReviewed(a)
  <2>1. phase' \in Phase
    BY <1>3 DEF MarkReviewed, Phase
  <2> QED
    BY <1>3, <2>1, ReturnTypes DEF MarkReviewed, TypeOK, runtime, heads
<1>4. CASE CallRemediate(a)
  <2>1. FailedReview[1] \in Kind /\ FailedReview[2] \in Commit
    <3>1. FailedReview[2] = Head(missionHead)
      BY <1>4 DEF CallRemediate
    <3>2. Head(missionHead) # NoCommit
      BY DEF Head, NoCommit
    <3> QED
      BY <3>1, <3>2, HeadTypes DEF FailedReview, Kind
  <2>2. [NoWork EXCEPT !.kind = FailedReview[1], !.commit = FailedReview[2], !.waves = waves]
          \in Work
    BY <2>1, NoWorkType DEF Work, NoWork, TypeOK
  <2>3. "remediate" \in Step
    BY DEF Step
  <2>4. pc' \in [Call -> Step] /\ work' \in [Call -> Work]
    BY <1>4, <2>2, <2>3, CallTypes DEF CallRemediate
  <2>5. turns' \in Nat
    BY <1>4 DEF CallRemediate, Aside, Turn, TypeOK
  <2> QED
    BY <1>4, <2>4, <2>5 DEF CallRemediate, TypeOK, mission, runtime, heads
<1>5. CASE Remediate(a)
  <2>1. proof' \in [Kind -> Proof]
    BY <1>5, PendingType DEF Remediate
  <2>2. pc' \in [Call -> Step] /\ work' \in [Call -> Work]
    BY <1>5, ReturnTypes DEF Remediate
  <2>3. tasks' \in {"planned", "done"} /\ waves' \in Nat /\ phase' \in Phase
    BY <1>5 DEF Remediate, PlanWave, TypeOK, Phase
  <2> QED
    BY <1>5, <2>1, <2>2, <2>3 DEF Remediate, TypeOK, runtime, heads
<1> QED
  BY <1>1, <1>2, <1>3, <1>4, <1>5

-----------------------------------------------------------------------------
(* The invariant: ProposalIsProven is not inductive by itself, for it does  *)
(* not say what the calls know that are on their way to a proposal, nor     *)
(* that what they know cannot become untrue.                                *)

HasCandidate(c) == c \in CandidateId /\ candidates[c] # Absent
Proven(commit) == \A k \in Kind : <<k, commit>> \in passed

\* What is recorded as passed has passed.
ProofsPassed ==
  \A k \in Kind : proof[k].status = "passed" => <<k, proof[k].commit>> \in passed

\* A record that names a candidate, its commit and its heads, all proven.
Names(r) ==
  /\ HasCandidate(r.candidate)
  /\ r.commit = candidates[r.candidate].commit /\ Proven(r.commit)
  /\ r.sourceHead = candidates[r.candidate].sourceHead
  /\ r.missionHead = candidates[r.candidate].missionHead

\* What a call knows at a step of its own.
Knowing(step, w) ==
  /\ step = "prove" => w.commit \in Commit
  /\ step \in Phase /\ w.candidate # 0 => HasCandidate(w.candidate)
  /\ step \in Phase /\ w.ok =>
       HasCandidate(w.candidate) /\ Proven(candidates[w.candidate].commit)
  /\ step = "propose" => Names(w)

CallsKnow == \A a \in Call : Knowing(pc[a], work[a])
ActiveIsRecorded == active # 0 => HasCandidate(active)
ProposalsName == \A p \in ProposalId : proposals[p] # Absent => Names(proposals[p])

LifecycleInv ==
  /\ TypeOK /\ ProofsPassed /\ CallsKnow /\ ActiveIsRecorded
  /\ ProposalsName /\ NamedProposalStands

LEMMA InvInit == Init => LifecycleInv
<1> SUFFICES ASSUME Init PROVE LifecycleInv
  OBVIOUS
<1>1. TypeOK
  BY TypeInit
<1>2. ProofsPassed
  BY DEF Init, ProofsPassed, Pending
<1>3. CallsKnow
  BY DEF Init, CallsKnow, Knowing, NoWork, Phase
<1>4. ActiveIsRecorded /\ ProposalsName /\ NamedProposalStands
  BY DEF Init, ActiveIsRecorded, ProposalsName, NamedProposalStands
<1> QED
  BY <1>1, <1>2, <1>3, <1>4 DEF LifecycleInv

\* Candidates are immutable and proofs are not taken back.
Grows ==
  /\ \A c \in CandidateId : candidates[c] # Absent => candidates'[c] = candidates[c]
  /\ passed \subseteq passed'

LEMMA NamesStays ==
  ASSUME Grows, NEW r, Names(r)
  PROVE  Names(r)'
  BY DEF Grows, Names, HasCandidate, Proven

LEMMA KnowingStays ==
  ASSUME Grows, NEW step, NEW w, Knowing(step, w)
  PROVE  Knowing(step, w)'
  BY NamesStays DEF Grows, Knowing, HasCandidate, Proven, Commit

\* One call takes a step, and knows what it must at its new one.
LEMMA CallsKnowStep ==
  ASSUME TypeOK, CallsKnow, Grows, NEW a \in Call, NEW step, NEW known,
         Goto(a, step), Knows(a, known), Knowing(step, known)'
  PROVE  CallsKnow'
<1> SUFFICES ASSUME NEW b \in Call PROVE Knowing(pc[b], work[b])'
  BY DEF CallsKnow
<1>1. CASE b = a
  <2>1. pc'[b] = step /\ work'[b] = known
    BY <1>1 DEF TypeOK, Goto, Knows
  <2> QED
    BY <2>1 DEF Knowing, Names, HasCandidate, Proven
<1>2. CASE b # a
  <2>1. PICK s, w : s = pc[b] /\ w = work[b]
    OBVIOUS
  <2>2. pc'[b] = s /\ work'[b] = w
    BY <1>2, <2>1 DEF TypeOK, Goto, Knows
  <2>3. Knowing(s, w)'
    BY <2>1, KnowingStays DEF CallsKnow
  <2> QED
    BY <2>2, <2>3 DEF Knowing, Names, HasCandidate, Proven
<1> QED
  BY <1>1, <1>2

\* A candidate is recorded where there is none, a proposal likewise.
LEMMA NextAbsent ==
  ASSUME NEW f, NEW n \in Nat, NEW c \in 1..n,
         \A d \in 1..n : f[d] = Absent <=> d >= c
  PROVE  f[c] = Absent
  OBVIOUS

LEMMA CandidateFacts ==
  ASSUME NEW a \in Call, RecordCandidate(a)
  PROVE  \E c \in CandidateId :
           LET w == work[a]
               commit == IF Drifted(w.sourceHead) THEN Merge(c) ELSE Head(w.missionHead)
           IN
           /\ candidates[c] = Absent
           /\ candidates' = [candidates EXCEPT ![c] =
                [status |-> "recorded", commit |-> commit,
                 sourceHead |-> w.sourceHead, missionHead |-> w.missionHead]]
           /\ active' = c
           /\ proof' = IF Drifted(w.sourceHead) THEN Pending(commit) ELSE proof
           /\ phase' = IF Drifted(w.sourceHead) THEN "validation" ELSE "candidate"
  BY LifecycleAssumption, NextAbsent DEF RecordCandidate, CandidateId

LEMMA GrowsStep ==
  ASSUME LifecycleInv, [Next]_vars
  PROVE  Grows
<1>1. TypeOK
  BY DEF LifecycleInv
<1>2. CASE UNCHANGED <<candidates, passed>>
  BY <1>2 DEF Grows
<1>3. ASSUME NEW a \in Call, RecordValidation(a) \/ RecordReview(a) PROVE Grows
  BY <1>3 DEF RecordValidation, RecordReview, Prove, Grows, runtime
<1>4. ASSUME NEW a \in Call, RecordCandidate(a) PROVE Grows
  <2>1. \E c \in CandidateId : \E r :
          candidates[c] = Absent /\ candidates' = [candidates EXCEPT ![c] = r]
    BY <1>4, CandidateFacts
  <2> QED
    BY <1>1, <1>4, <2>1 DEF RecordCandidate, Grows, TypeOK
<1> QED
  BY <1>2, <1>3, <1>4
     DEF Next, vars, runtime, CallExecute, RunWave, ScheduleRepair, ExecutionComplete,
         Advance, AdvanceExamines, CallReview, Examine, MarkReviewed, CallRemediate,
         Remediate, CallRefresh, Preflight, Compare, CandidateReady, Propose, Cancel,
         Fails, MoveSource

\* At the other steps a call need not know anything.
LEMMA Unknowing ==
  ASSUME NEW step, step \notin Phase \cup {"prove", "propose"}, NEW w
  PROVE  Knowing(step, w)'
  BY DEF Knowing

LEMMA ReturnKnows ==
  ASSUME TypeOK, CallsKnow, Grows, NEW a \in Call, Return(a)
  PROVE  CallsKnow'
<1>1. Knowing("idle", NoWork)'
  BY Unknowing DEF Phase
<1> QED
  BY <1>1, CallsKnowStep DEF Return

\* mission_advance knows a candidate that is recorded and, if its proof was
\* fresh, proven.
LEMMA AdvanceKnows ==
  ASSUME LifecycleInv, Grows, NEW a \in Call, Advance(a)
  PROVE  CallsKnow' /\ TypeOK'
<1> DEFINE fresh == phase \in {"candidate", "finalize"} /\ active # 0 /\ ProofFresh(active)
           known == [NoWork EXCEPT !.advances = TRUE, !.candidate = active, !.ok = fresh]
<1>1. Goto(a, phase) /\ Knows(a, known)
  BY DEF Advance
<1>2. known.candidate = active /\ known.ok = fresh
  BY DEF NoWork
<1>3. fresh => HasCandidate(active) /\ Proven(candidates[active].commit)
  <2> SUFFICES ASSUME fresh PROVE HasCandidate(active) /\ Proven(candidates[active].commit)
    OBVIOUS
  <2>1. HasCandidate(active)
    BY DEF LifecycleInv, ActiveIsRecorded
  <2>2. ASSUME NEW k \in Kind PROVE <<k, candidates[active].commit>> \in passed
    <3>1. proof[k] = [status |-> "passed", commit |-> candidates[active].commit]
      BY DEF ProofFresh
    <3> QED
      BY <3>1 DEF LifecycleInv, ProofsPassed
  <2> QED
    BY <2>1, <2>2 DEF Proven
<1>4. active # 0 => HasCandidate(active)
  BY DEF LifecycleInv, ActiveIsRecorded
<1>5. phase \in Phase /\ UNCHANGED <<candidates, passed>>
  BY DEF Advance, runtime, LifecycleInv, TypeOK
<1> HIDE DEF fresh
<1>6. Knowing(phase, known)
  BY <1>2, <1>3, <1>4, <1>5 DEF Knowing, Phase
<1>7. PICK step : step = phase
  OBVIOUS
<1>8. PICK w : w = known
  OBVIOUS
<1> HIDE DEF known
<1>9. Knowing(step, w)'
  BY <1>6, <1>7, <1>8, KnowingStays
<1>10. CallsKnow'
  BY <1>1, <1>7, <1>8, <1>9, CallsKnowStep DEF LifecycleInv
<1>11. known \in Work
  BY NoWorkType DEF known, fresh, Work, NoWork, LifecycleInv, TypeOK
<1>12. pc' \in [Call -> Step] /\ work' \in [Call -> Work]
  BY <1>1, <1>5, <1>11, CallTypes DEF Step, LifecycleInv
<1> QED
  BY <1>10, <1>12 DEF Advance, LifecycleInv, TypeOK, mission, runtime, heads

\* What is examined is a commit, and the call knows that it is one.
LEMMA ExamineKnows ==
  ASSUME LifecycleInv, Grows, NEW a \in Call, AdvanceExamines(a) \/ CallReview(a)
  PROVE  CallsKnow' /\ TypeOK'
<1>1. PICK kind \in Kind, c \in {0} \cup CandidateId, advances \in BOOLEAN :
        Examine(a, kind, Subject(c), advances) /\ (c # 0 => HasCandidate(c))
  <2>1. CASE AdvanceExamines(a)
    <3>1. PICK kind \in Kind : pc[a] = PhaseOf(kind)
                               /\ Examine(a, kind, Subject(work[a].candidate), TRUE)
      BY <2>1 DEF AdvanceExamines
    <3>2. pc[a] \in Phase
      BY <3>1 DEF PhaseOf, Kind, Phase
    <3>3. work[a].candidate # 0 => HasCandidate(work[a].candidate)
      BY <3>2 DEF LifecycleInv, CallsKnow, Knowing
    <3> QED
      BY <3>1, <3>3 DEF HasCandidate
  <2>2. CASE CallReview(a)
    BY <2>2 DEF CallReview, Recorded, HasCandidate
  <2> QED
    BY <2>1, <2>2
<1>2. Subject(c) \in Commit
  BY <1>1, HeadTypes DEF Subject, HasCandidate, Candidate, LifecycleInv
<1>3. TypeOK'
  BY <1>1, <1>2, ExamineTypes DEF LifecycleInv
<1>4. PICK ok \in BOOLEAN :
        Knows(a, [NoWork EXCEPT !.kind = kind, !.commit = Subject(c), !.ok = ok,
                                !.advances = advances])
  BY <1>1 DEF Examine
<1>5. PICK commit : commit = Subject(c)
  OBVIOUS
<1>6. Knowing("prove", [NoWork EXCEPT !.kind = kind, !.commit = commit, !.ok = ok,
                                      !.advances = advances])'
  BY <1>2, <1>5 DEF Knowing, NoWork, Phase, Commit
<1>7. CallsKnow'
  BY <1>1, <1>4, <1>5, <1>6, CallsKnowStep DEF Examine, LifecycleInv
<1> QED
  BY <1>3, <1>7

\* What a call compares: the heads of the candidate it has seen.
LEMMA CompareKnows ==
  ASSUME LifecycleInv, Grows, NEW a \in Call, Compare(a)
  PROVE  CallsKnow' /\ TypeOK'
<1> DEFINE c == work[a].candidate
           finds == [NoWork EXCEPT !.candidate = c, !.commit = candidates[c].commit,
                                   !.sourceHead = sourceHead, !.missionHead = missionHead]
<1>1. TypeOK /\ CallsKnow /\ Knowing(pc[a], work[a])
  BY DEF LifecycleInv, CallsKnow
<1>2. CASE \E step \in {"preflight", "ready"} : Goto(a, step) /\ Knows(a, NoWork)
  <2>1. PICK step \in {"preflight", "ready"} : Goto(a, step) /\ Knows(a, NoWork)
    BY <1>2
  <2>2. Knowing(step, NoWork)' /\ step \in Step
    BY Unknowing DEF Phase, Step
  <2>3. CallsKnow'
    BY <1>1, <2>1, <2>2, CallsKnowStep
  <2>4. pc' \in [Call -> Step] /\ work' \in [Call -> Work]
    BY <1>1, <2>1, <2>2, NoWorkType, CallTypes
  <2> QED
    BY <1>1, <2>3, <2>4 DEF Compare, TypeOK, mission, runtime, heads
<1>3. CASE /\ pc[a] = "finalize" /\ work[a].ok /\ ~HeadsMoved(c)
           /\ Goto(a, "propose") /\ Knows(a, finds)
  <2>1. HasCandidate(c) /\ Proven(candidates[c].commit)
    BY <1>1, <1>3 DEF Knowing, Phase
  <2>2. candidates[c] \in Candidate
    BY <1>1, <2>1, HeadTypes DEF HasCandidate
  <2>3. /\ finds.candidate = c /\ finds.commit = candidates[c].commit
        /\ finds.sourceHead = candidates[c].sourceHead
        /\ finds.missionHead = candidates[c].missionHead
    BY <1>3 DEF NoWork, HeadsMoved
  <2>4. finds \in Work
    BY <1>1, <2>1, <2>2, NoWorkType
       DEF Work, NoWork, TypeOK, HasCandidate, CandidateId, Candidate
  <2> HIDE DEF finds
  <2>5. Names(finds)
    BY <2>1, <2>3 DEF Names
  <2>6. PICK w : w = finds
    OBVIOUS
  <2>7. Knowing("propose", w)'
    BY <2>5, <2>6, NamesStays DEF Knowing, Phase
  <2>8. CallsKnow'
    BY <1>1, <1>3, <2>6, <2>7, CallsKnowStep
  <2>9. pc' \in [Call -> Step] /\ work' \in [Call -> Work]
    BY <1>1, <1>3, <2>4, CallTypes DEF Step
  <2> QED
    BY <1>1, <2>8, <2>9 DEF Compare, TypeOK, mission, runtime, heads
<1> QED
  BY <1>2, <1>3 DEF Compare

LEMMA CandidateTypes ==
  ASSUME LifecycleInv, NEW a \in Call, RecordCandidate(a)
  PROVE  TypeOK' /\ ActiveIsRecorded' /\ ProofsPassed'
<1>0. TypeOK /\ work[a] \in Work
  BY DEF LifecycleInv, TypeOK
<1> DEFINE w == work[a]
           commit(c) == IF Drifted(w.sourceHead) THEN Merge(c) ELSE Head(w.missionHead)
           recorded(c) == [status |-> "recorded", commit |-> commit(c),
                           sourceHead |-> w.sourceHead, missionHead |-> w.missionHead]
<1>1. PICK c \in CandidateId :
        /\ candidates' = [candidates EXCEPT ![c] = recorded(c)]
        /\ active' = c
        /\ proof' = IF Drifted(w.sourceHead) THEN Pending(commit(c)) ELSE proof
        /\ phase' = IF Drifted(w.sourceHead) THEN "validation" ELSE "candidate"
  BY CandidateFacts
<1>2. commit(c) \in Commit
  BY <1>0 DEF Commit, Work
<1>3. recorded(c) \in Candidate /\ recorded(c) # Absent
  BY <1>0, <1>2 DEF Candidate, Work, Absent
<1> HIDE DEF recorded
<1>4. /\ candidates' \in [CandidateId -> Candidate \cup {Absent}]
      /\ candidates'[c] # Absent
  BY <1>0, <1>1, <1>3 DEF TypeOK
<1>5. /\ proof' \in [Kind -> Proof]
      /\ \A k \in Kind : proof'[k].status = "passed" => proof' = proof
  BY <1>0, <1>1, <1>2, PendingType DEF TypeOK, Pending
<1>6. phase' \in Phase /\ active' \in 0..MaxCandidates
  BY <1>1, LifecycleAssumption DEF Phase, CandidateId
<1>7. proposals' \in [ProposalId -> Proposal \cup {Absent}] /\ proposed' \in 0..MaxProposals
  <2>1. ASSUME NEW p \in ProposalId PROVE Superseded[p] \in Proposal \cup {Absent}
    <3>1. CASE p = proposed
      <4>1. proposals[p] \in Proposal
        BY <1>0, <3>1 DEF LifecycleInv, NamedProposalStands, Stands, TypeOK, ProposalId
      <4> QED
        BY <3>1, <4>1 DEF Superseded, Proposal
    <3>2. CASE p # proposed
      BY <1>0, <3>2 DEF Superseded, TypeOK
    <3> QED
      BY <3>1, <3>2
  <2> QED
    BY <2>1, LifecycleAssumption DEF RecordCandidate, Supersede, Superseded
<1>8. pc' \in [Call -> Step] /\ work' \in [Call -> Work]
  BY <1>0, ReturnTypes DEF RecordCandidate
<1>9. TypeOK'
  BY <1>0, <1>4, <1>5, <1>6, <1>7, <1>8 DEF RecordCandidate, TypeOK, heads
<1>10. ActiveIsRecorded'
  BY <1>1, <1>4 DEF ActiveIsRecorded, HasCandidate
<1>11. ProofsPassed'
  BY <1>5 DEF RecordCandidate, ProofsPassed, LifecycleInv
<1> QED
  BY <1>9, <1>10, <1>11

LEMMA ProposeTypes ==
  ASSUME LifecycleInv, NEW a \in Call, Propose(a)
  PROVE  TypeOK' /\ ProposalsName' /\ NamedProposalStands'
<1>0. TypeOK /\ work[a] \in Work /\ Names(work[a])
  BY DEF LifecycleInv, TypeOK, Propose, CallsKnow, Knowing
<1> DEFINE new == [status |-> "proposed", candidate |-> work[a].candidate,
                   commit |-> work[a].commit, sourceHead |-> work[a].sourceHead,
                   missionHead |-> work[a].missionHead]
<1>1. PICK p \in ProposalId : proposals' = [proposals EXCEPT ![p] = new] /\ proposed' = p
  BY DEF Propose
<1>2. candidates[work[a].candidate] \in Candidate
  BY <1>0, HeadTypes DEF Names, HasCandidate
<1>3. new \in Proposal /\ new # Absent
  BY <1>0, <1>2 DEF Names, HasCandidate, Proposal, Candidate, Work, Absent
<1>4. Names(new)
  BY <1>0 DEF Names
<1>5. new.status = "proposed"
  OBVIOUS
<1> HIDE DEF new
<1>6. proposals' \in [ProposalId -> Proposal \cup {Absent}] /\ proposals'[p] = new
  BY <1>0, <1>1, <1>3 DEF TypeOK
<1>7. pc' \in [Call -> Step] /\ work' \in [Call -> Work]
  BY <1>0, ReturnTypes DEF Propose
<1>8. TypeOK'
  BY <1>0, <1>1, <1>6, <1>7, LifecycleAssumption DEF Propose, TypeOK, heads, Phase, ProposalId
<1>9. ProposalsName'
  <2> SUFFICES ASSUME NEW q \in ProposalId, proposals'[q] # Absent
               PROVE  Names(proposals[q])'
    BY DEF ProposalsName
  <2>1. proposals'[q] = new \/ proposals'[q] = proposals[q]
    BY <1>0, <1>1 DEF TypeOK
  <2>2. Names(proposals'[q])
    BY <1>4, <2>1 DEF LifecycleInv, ProposalsName
  <2> QED
    BY <2>2 DEF Propose, Names, HasCandidate, Proven
<1>10. NamedProposalStands'
  BY <1>1, <1>3, <1>5, <1>6 DEF NamedProposalStands, Stands
<1> QED
  BY <1>8, <1>9, <1>10

\* A superseded proposal names what it named.
LEMMA SupersedeNames ==
  ASSUME LifecycleInv, Grows, Supersede
  PROVE  ProposalsName' /\ NamedProposalStands'
<1>1. ASSUME NEW q \in ProposalId, proposals'[q] # Absent
      PROVE  Names(proposals[q])'
  <2>1. proposals'[q] = Superseded[q]
    BY <1>1 DEF Supersede
  <2>2. proposals[q] # Absent /\ Names(proposals[q])
    <3>1. CASE q = proposed
      BY <3>1 DEF LifecycleInv, NamedProposalStands, ProposalsName, Stands, ProposalId
    <3>2. CASE q # proposed
      BY <1>1, <2>1, <3>2 DEF Superseded, LifecycleInv, ProposalsName
    <3> QED
      BY <3>1, <3>2
  <2>3. proposals[q] \in Proposal
    BY <2>2 DEF LifecycleInv, TypeOK
  <2>4. /\ proposals'[q].candidate = proposals[q].candidate
        /\ proposals'[q].commit = proposals[q].commit
        /\ proposals'[q].sourceHead = proposals[q].sourceHead
        /\ proposals'[q].missionHead = proposals[q].missionHead
    BY <2>1, <2>3 DEF Superseded, Proposal
  <2>5. PICK r : r = proposals[q]
    OBVIOUS
  <2>6. Names(r)'
    BY <2>2, <2>5, NamesStays
  <2> QED
    BY <2>4, <2>5, <2>6 DEF Names, HasCandidate, Proven
<1>2. ProposalsName'
  BY <1>1 DEF ProposalsName
<1> QED
  BY <1>2 DEF Supersede, NamedProposalStands

\* The parts of the invariant about the mission, when their variables stay.
LEMMA MissionStays ==
  ASSUME LifecycleInv, Grows
  PROVE  /\ UNCHANGED <<proposals>> => ProposalsName'
         /\ UNCHANGED <<proposals, proposed>> => NamedProposalStands'
         /\ UNCHANGED <<active>> => ActiveIsRecorded'
         /\ UNCHANGED <<proof>> => ProofsPassed'
<1>1. ASSUME UNCHANGED proposals PROVE ProposalsName'
  <2> SUFFICES ASSUME NEW q \in ProposalId, proposals[q] # Absent
               PROVE  Names(proposals[q])'
    BY <1>1 DEF ProposalsName
  <2>1. PICK r : r = proposals[q]
    OBVIOUS
  <2>2. Names(r)'
    BY <2>1, NamesStays DEF LifecycleInv, ProposalsName
  <2> QED
    BY <1>1, <2>1, <2>2 DEF Names, HasCandidate, Proven
<1>2. UNCHANGED <<proposals, proposed>> => NamedProposalStands'
  BY DEF LifecycleInv, NamedProposalStands, Stands
<1>3. UNCHANGED <<active>> => ActiveIsRecorded'
  BY DEF LifecycleInv, ActiveIsRecorded, HasCandidate, Grows
<1>4. UNCHANGED <<proof>> => ProofsPassed'
  BY DEF LifecycleInv, ProofsPassed, Grows
<1> QED
  BY <1>1, <1>2, <1>3, <1>4

LEMMA ProvePasses ==
  ASSUME LifecycleInv, NEW w, Prove(w)
  PROVE  ProofsPassed'
<1> SUFFICES ASSUME NEW k \in Kind, proof'[k].status = "passed"
             PROVE  <<k, proof'[k].commit>> \in passed'
  BY DEF ProofsPassed
<1>1. CASE k = w.kind
  BY <1>1 DEF Prove, LifecycleInv, TypeOK
<1>2. CASE k # w.kind
  BY <1>2 DEF Prove, LifecycleInv, TypeOK, ProofsPassed
<1> QED
  BY <1>1, <1>2

LEMMA InvStep == LifecycleInv /\ [Next]_vars => LifecycleInv'
<1> SUFFICES ASSUME LifecycleInv, [Next]_vars PROVE LifecycleInv'
  OBVIOUS
<1>0. Grows /\ TypeOK /\ CallsKnow
  BY GrowsStep DEF LifecycleInv
<1>1. ASSUME NEW a \in Call, Advance(a) PROVE LifecycleInv'
  BY <1>0, <1>1, AdvanceKnows, MissionStays DEF Advance, LifecycleInv, mission, runtime
<1>2. ASSUME NEW a \in Call, AdvanceExamines(a) \/ CallReview(a) PROVE LifecycleInv'
  <2>1. UNCHANGED <<mission, runtime>>
    BY <1>2 DEF AdvanceExamines, CallReview, Examine
  <2> QED
    BY <1>0, <1>2, <2>1, ExamineKnows, MissionStays DEF LifecycleInv, mission, runtime
<1>3. ASSUME NEW a \in Call, Compare(a) PROVE LifecycleInv'
  BY <1>0, <1>3, CompareKnows, MissionStays DEF Compare, LifecycleInv, mission, runtime
<1>4. ASSUME NEW a \in Call, CallExecute(a) \/ RunWave(a) PROVE LifecycleInv'
  <2>1. PICK step \in {"execute", "execution complete", "feedback"} :
          Goto(a, step) /\ work' = work
    BY <1>4 DEF CallExecute, RunWave
  <2>2. PICK w : w = work[a]
    OBVIOUS
  <2>3. Knows(a, w)
    BY <1>0, <2>1, <2>2 DEF Knows, TypeOK
  <2>4. Knowing(step, w)'
    BY Unknowing DEF Phase, Knowing, Names
  <2>5. CallsKnow'
    BY <1>0, <2>1, <2>3, <2>4, CallsKnowStep
  <2>6. TypeOK'
    BY <1>0, <1>4, TypeExecution
  <2> QED
    BY <1>0, <1>4, <2>5, <2>6, MissionStays
       DEF CallExecute, RunWave, LifecycleInv, mission, runtime
<1>5. ASSUME NEW a \in Call, ScheduleRepair(a) \/ ExecutionComplete(a) PROVE LifecycleInv'
  <2>1. CallsKnow' /\ TypeOK'
    BY <1>0, <1>5, TypeExecution, ReturnKnows DEF ScheduleRepair, ExecutionComplete
  <2> QED
    BY <1>0, <1>5, <2>1, MissionStays
       DEF ScheduleRepair, ExecutionComplete, LifecycleInv, mission, runtime
<1>6. ASSUME NEW a \in Call,
             RecordValidation(a) \/ RecordReview(a) \/ MarkReviewed(a)
             \/ CallRemediate(a) \/ Remediate(a)
      PROVE  LifecycleInv'
  <2>1. TypeOK'
    BY <1>0, <1>6, TypeReview DEF CallsKnow, Knowing
  <2>2. CallsKnow'
    <3>1. CASE Return(a)
      BY <1>0, <3>1, ReturnKnows
    <3>2. CASE \E step, w : step \in {"mark", "remediate"} /\ Goto(a, step) /\ Knows(a, w)
      <4>1. PICK step, w : step \in {"mark", "remediate"} /\ Goto(a, step) /\ Knows(a, w)
        BY <3>2
      <4>2. Knowing(step, w)'
        BY <4>1, Unknowing DEF Phase
      <4> QED
        BY <1>0, <4>1, <4>2, CallsKnowStep
    <3> QED
      BY <1>6, <3>1, <3>2
         DEF RecordValidation, RecordReview, MarkReviewed, CallRemediate, Remediate
  <2>3. ProofsPassed'
    <3>1. CASE Prove(work[a])
      <4>1. PICK w : w = work[a]
        OBVIOUS
      <4> QED
        BY <3>1, <4>1, ProvePasses
    <3>2. CASE Remediate(a)
      BY <3>2 DEF Remediate, Pending, ProofsPassed
    <3>3. CASE MarkReviewed(a) \/ CallRemediate(a)
      BY <1>0, <3>3, MissionStays DEF MarkReviewed, CallRemediate, mission
    <3> QED
      BY <1>6, <3>1, <3>2, <3>3 DEF RecordValidation, RecordReview
  <2> QED
    BY <1>0, <1>6, <2>1, <2>2, <2>3, MissionStays
       DEF RecordValidation, RecordReview, MarkReviewed, CallRemediate, Remediate,
           LifecycleInv, mission, runtime
<1>7. ASSUME NEW a \in Call, CallRefresh(a) \/ Preflight(a) PROVE LifecycleInv'
  <2>1. PICK step \in {"preflight", "record"}, w \in Work : Goto(a, step) /\ Knows(a, w)
    <3>1. CASE CallRefresh(a)
      BY <1>0, <1>7, <3>1 DEF CallRefresh, Knows, TypeOK
    <3>2. CASE Preflight(a)
      <4>1. [NoWork EXCEPT !.sourceHead = sourceHead, !.missionHead = missionHead] \in Work
        BY <1>0, NoWorkType DEF Work, NoWork, TypeOK
      <4> QED
        BY <3>2, <4>1 DEF Preflight
    <3> QED
      BY <1>7, <3>1, <3>2
  <2>2. Knowing(step, w)' /\ step \in Step
    BY Unknowing DEF Phase, Step
  <2>3. CallsKnow' /\ pc' \in [Call -> Step] /\ work' \in [Call -> Work]
    BY <1>0, <2>1, <2>2, CallsKnowStep, CallTypes
  <2>4. turns' \in Nat
    BY <1>0, <1>7 DEF CallRefresh, Preflight, Aside, Turn, TypeOK
  <2>5. TypeOK'
    BY <1>0, <1>7, <2>3, <2>4
       DEF CallRefresh, Preflight, TypeOK, mission, runtime, heads
  <2> QED
    BY <1>0, <1>7, <2>3, <2>5, MissionStays
       DEF CallRefresh, Preflight, LifecycleInv, mission, runtime
<1>8. ASSUME NEW a \in Call, RecordCandidate(a) PROVE LifecycleInv'
  <2>1. CallsKnow'
    BY <1>0, <1>8, ReturnKnows DEF RecordCandidate
  <2> QED
    BY <1>0, <1>8, <2>1, CandidateTypes, SupersedeNames DEF RecordCandidate, LifecycleInv
<1>9. ASSUME NEW a \in Call, Propose(a) PROVE LifecycleInv'
  <2>1. CallsKnow'
    BY <1>0, <1>9, ReturnKnows DEF Propose
  <2> QED
    BY <1>0, <1>9, <2>1, ProposeTypes, MissionStays DEF Propose, LifecycleInv
<1>10. ASSUME NEW a \in Call, CandidateReady(a) \/ Fails(a) PROVE LifecycleInv'
  <2>1. CallsKnow' /\ pc' \in [Call -> Step] /\ work' \in [Call -> Work]
    BY <1>0, <1>10, ReturnKnows, ReturnTypes DEF CandidateReady, Fails
  <2>2. TypeOK'
    BY <1>0, <1>10, <2>1
       DEF CandidateReady, Fails, TypeOK, mission, runtime, heads, Phase
  <2> QED
    BY <1>0, <1>10, <2>1, <2>2, MissionStays
       DEF CandidateReady, Fails, LifecycleInv, mission, runtime
<1>11. CASE (\E a \in Call : Cancel(a)) \/ MoveSource \/ UNCHANGED vars
  <2>1. UNCHANGED <<calls, proof, active, proposed, runtime, passed>>
    BY <1>11 DEF Cancel, MoveSource, vars, mission
  <2>2. CallsKnow'
    BY <1>0, <2>1 DEF CallsKnow, Knowing, Names, HasCandidate, Proven, calls, runtime, Commit
  <2>3. cancelled' \in BOOLEAN
    <3>1. CASE \E a \in Call : Cancel(a)
      BY <3>1 DEF Cancel
    <3>2. CASE UNCHANGED cancelled
      BY <1>0, <3>2 DEF TypeOK
    <3> QED
      BY <1>11, <3>1, <3>2 DEF MoveSource, vars, mission
  <2>4. sourceHead' \in 0..MaxSource /\ turns' \in Nat
    BY <1>0, <1>11, LifecycleAssumption
       DEF Cancel, MoveSource, Aside, Turn, vars, heads, TypeOK
  <2>5. TypeOK'
    BY <1>0, <1>11, <2>1, <2>3, <2>4
       DEF Cancel, MoveSource, vars, mission, runtime, heads, calls, TypeOK
  <2> QED
    BY <1>0, <2>1, <2>2, <2>5, MissionStays DEF LifecycleInv, runtime
<1> QED
  BY <1>1, <1>2, <1>3, <1>4, <1>5, <1>6, <1>7, <1>8, <1>9, <1>10, <1>11 DEF Next

-----------------------------------------------------------------------------
(* Theorems *)

\* Every reachable state of a mission satisfies the invariant.
THEOREM LifecycleInvariance == Spec => []LifecycleInv
  BY InvInit, InvStep, PTL DEF Spec

\* The variables of a mission keep their types.
THEOREM LifecycleTypes == Spec => []TypeOK
<1>1. LifecycleInv => TypeOK
  BY DEF LifecycleInv
<1> QED
  BY <1>1, LifecycleInvariance, PTL

\* A commit is never proposed that has not itself passed its validation and
\* both its reviews.
THEOREM LifecycleProven == Spec => []ProposalIsProven
<1>1. LifecycleInv => ProposalIsProven
  BY DEF LifecycleInv, ProposalsName, Names, Proven, ProposalIsProven
<1> QED
  BY <1>1, LifecycleInvariance, PTL

\* A proposal has the commit and the heads of its candidate.
THEOREM LifecycleHeads == Spec => []ProposalExpectsItsHeads
<1>1. LifecycleInv => ProposalExpectsItsHeads
  BY DEF LifecycleInv, ProposalsName, Names, ProposalExpectsItsHeads
<1> QED
  BY <1>1, LifecycleInvariance, PTL

\* The proposal a mission names is never a superseded one.
THEOREM LifecycleNamed == Spec => []NamedProposalStands
<1>1. LifecycleInv => NamedProposalStands
  BY DEF LifecycleInv
<1> QED
  BY <1>1, LifecycleInvariance, PTL

LEMMA FrozenStep ==
  [Next]_vars =>
    (cancelled /\ cancelled' => UNCHANGED <<phase, active, proposed, runtime>>)
<1> SUFFICES ASSUME [Next]_vars, cancelled, cancelled'
             PROVE  UNCHANGED <<phase, active, proposed, runtime>>
  OBVIOUS
<1>1. CASE \E a \in Call :
             RunWave(a) \/ ExecutionComplete(a) \/ RecordValidation(a) \/ MarkReviewed(a)
             \/ RecordCandidate(a) \/ CandidateReady(a) \/ Propose(a) \/ Remediate(a)
  BY <1>1 DEF RunWave, ExecutionComplete, RecordValidation, MarkReviewed, RecordCandidate,
              CandidateReady, Propose, Remediate, Remediable
<1>2. CASE \E a \in Call : ScheduleRepair(a)
  BY <1>2 DEF ScheduleRepair
<1>3. CASE \E a \in Call :
             CallExecute(a) \/ Advance(a) \/ AdvanceExamines(a) \/ CallReview(a)
             \/ RecordReview(a) \/ CallRemediate(a) \/ CallRefresh(a) \/ Preflight(a)
             \/ Compare(a) \/ Cancel(a) \/ Fails(a)
  BY <1>3 DEF CallExecute, Advance, AdvanceExamines, CallReview, Examine, RecordReview,
              CallRemediate, CallRefresh, Preflight, Compare, Cancel, Fails, mission
<1>4. CASE MoveSource \/ UNCHANGED vars
  BY <1>4 DEF MoveSource, vars, mission
<1> QED
  BY <1>1, <1>2, <1>3, <1>4 DEF Next

\* While a mission is cancelled no call that finishes late moves its phase, its
\* candidates or its proposals.
THEOREM LifecycleFrozen == Spec => CancelledIsFrozen
  BY FrozenStep, PTL DEF Spec, CancelledIsFrozen
=============================================================================
