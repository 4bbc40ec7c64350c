--------------------------- MODULE MissionLifecycle ---------------------------
(***************************************************************************)
(* The life of one mission after it is planned: execution, validation,     *)
(* deterministic and semantic review, immutable candidate, merge proposal  *)
(* (mission-advance-core.mjs, candidate-service.mjs, review-service.mjs).  *)
(*                                                                         *)
(* A tool call reads the mission, works for long outside the store and     *)
(* then commits its transactions; calls run concurrently.  One step here   *)
(* is a snapshot or a transaction.  The work on tasks is abstracted to one *)
(* wave at a time that moves the mission head, the status of the mission   *)
(* to whether it is cancelled.                                             *)
(***************************************************************************)
EXTENDS Naturals

CONSTANTS
  Call,           \* slots of concurrent tool calls
  MaxSource,      \* bound: moves of the source head
  MaxHead,        \* bound: waves that move the mission head
  MaxCandidates,  \* bound: candidates
  MaxProposals,   \* bound: merge proposals
  MaxTurns        \* bound: events off the mission's way forward: calls other than
                  \* advance and execute, failed examinations, moves of the source

ASSUME LifecycleAssumption ==
  /\ MaxSource \in Nat /\ MaxHead \in Nat /\ MaxTurns \in Nat
  /\ MaxCandidates \in Nat /\ MaxProposals \in Nat

VARIABLES
  phase,        \* mission.phase
  cancelled,    \* is mission.status 'cancelled'?
  tasks, waves, \* whether the tasks of the last wave are integrated, and which it is
  proof,        \* mission.validation, .review and .semanticReview
  active,       \* mission.activeCandidateId, or 0
  proposed,     \* mission.activeMergeProposalId, or 0
  candidates,   \* runtime.candidates
  proposals,    \* runtime.mergeProposals
  sourceHead,   \* the head of the user's repository; 0 is the mission's base
  missionHead,  \* the head of the mission worktree
  pc, work,     \* where each call is, and what it knows
  passed,       \* history: proofs that have been recorded as passed
  turns         \* events counted against MaxTurns

mission == <<phase, cancelled, tasks, waves, proof, active, proposed>>
runtime == <<candidates, proposals>>
heads == <<sourceHead, missionHead>>
calls == <<pc, work>>
vars == <<mission, runtime, heads, calls, passed, turns>>

Kind == {"validation", "review", "semanticReview"}
CandidateId == 1..MaxCandidates
ProposalId == 1..MaxProposals

\* A commit is a head of the mission branch, or the merge of one into the
\* source head, made by commit-tree for one candidate.
Head(n) == <<"head", n>>
Merge(c) == <<"merge", c>>
NoCommit == <<"none", 0>>
Commit == {Head(n) : n \in 0..MaxHead} \cup {Merge(c) : c \in CandidateId}

Proof == [status : {"pending", "passed", "failed"}, commit : Commit \cup {NoCommit}]
Pending(commit) == [k \in Kind |-> [status |-> "pending", commit |-> commit]]

Absent == [status |-> "absent"]
Candidate == [status : {"recorded"}, commit : Commit,
              sourceHead : 0..MaxSource, missionHead : 0..MaxHead]
Proposal == [status : {"proposed", "superseded"}, candidate : CandidateId,
             commit : Commit, sourceHead : 0..MaxSource, missionHead : 0..MaxHead]

Phase == {"execution", "validation", "review", "semantic-review", "candidate", "finalize"}
Step == {"idle", "execute", "feedback", "execution complete", "prove", "mark",
         "preflight", "record", "ready", "propose", "remediate"} \cup Phase

\* What a call knows: whether it is mission_advance, the candidate and the
\* heads it has seen, the commit it examines, and whether the examination was
\* passed or, before the candidate is compared, whether its proof was fresh.
NoWork == [advances |-> FALSE, kind |-> "validation", commit |-> NoCommit, ok |-> FALSE,
           candidate |-> 0, sourceHead |-> 0, missionHead |-> 0, waves |-> 0]
Work == [advances : BOOLEAN, kind : Kind, commit : Commit \cup {NoCommit}, ok : BOOLEAN,
         candidate : 0..MaxCandidates, sourceHead : 0..MaxSource, missionHead : 0..MaxHead,
         waves : Nat]

Init ==
  /\ phase = "execution" /\ cancelled = FALSE /\ tasks = "planned" /\ waves = 1
  /\ proof = Pending(NoCommit)
  /\ active = 0 /\ proposed = 0
  /\ candidates = [c \in CandidateId |-> Absent]
  /\ proposals = [p \in ProposalId |-> Absent]
  /\ sourceHead = 0 /\ missionHead = 0
  /\ pc = [a \in Call |-> "idle"] /\ work = [a \in Call |-> NoWork]
  /\ passed = {} /\ turns = 0

-----------------------------------------------------------------------------
(* Calls *)

Goto(a, step) == pc' = [pc EXCEPT ![a] = step]
Knows(a, known) == work' = [work EXCEPT ![a] = known]
Return(a) == Goto(a, "idle") /\ Knows(a, NoWork)

\* Mutant: the status of the proofs is enough.
ProofFresh_AnyCommit(c) == \A k \in Kind : proof[k].status = "passed"

\* proofFreshForCandidate
ProofFresh(c) ==
  \A k \in Kind : proof[k] = [status |-> "passed", commit |-> candidates[c].commit]

\* mission_advance reads the mission: assertAdvanceMutationAuthority, and the
\* phase it goes on with.
Advance(a) ==
  /\ pc[a] = "idle" /\ ~cancelled /\ phase # "execution"
  /\ phase = "finalize" => active # 0
  /\ Goto(a, phase)
  /\ Knows(a, [NoWork EXCEPT !.advances = TRUE, !.candidate = active,
                             !.ok = /\ phase \in {"candidate", "finalize"}
                                     /\ active # 0 /\ ProofFresh(active)])
  /\ UNCHANGED <<mission, runtime, heads, passed, turns>>

Turn == turns < MaxTurns /\ turns' = turns + 1

\* Another call.
Aside(a) == pc[a] = "idle" /\ Turn

\* What a call was going to do next throws: a git command, a reviewer, the
\* store, or a check that finds the mission cancelled.
Fails(a) ==
  /\ pc[a] # "idle"
  /\ Return(a)
  /\ UNCHANGED <<mission, runtime, heads, passed, turns>>

-----------------------------------------------------------------------------
(* Execution *)

\* mission_execute, or mission_advance in the execution phase, with the
\* mission execution lease.
CallExecute(a) ==
  /\ pc[a] = "idle" /\ phase = "execution" /\ ~cancelled
  /\ \A b \in Call : pc[b] \notin {"execute", "feedback", "execution complete"}
  /\ Goto(a, IF tasks = "planned" THEN "execute" ELSE "execution complete")
  /\ UNCHANGED <<mission, runtime, heads, work, passed, turns>>

\* The wave is integrated, unless the mission has been cancelled meanwhile,
\* whatever its phase is by now.  Tasks may have nothing to commit.
RunWave(a) ==
  /\ pc[a] = "execute" /\ ~cancelled
  /\ missionHead' \in {missionHead, missionHead + 1} \cap 0..MaxHead
  /\ tasks' = "done"
  /\ Goto(a, "feedback")
  /\ UNCHANGED <<phase, cancelled, waves, proof, active, proposed, runtime, sourceHead,
                 work, passed, turns>>

\* Another wave is planned.
PlanWave == tasks' = "planned" /\ waves' = waves + 1

\* scheduleRepairWave: the runtime feedback of the wave has failed; the mission
\* gets a repair wave and becomes ready, whatever its status.
ScheduleRepair(a) ==
  /\ pc[a] = "feedback" /\ phase = "execution" /\ tasks = "done" /\ Turn
  /\ PlanWave /\ cancelled' = FALSE
  /\ Return(a)
  /\ UNCHANGED <<phase, proof, active, proposed, runtime, heads, passed>>

\* mission_execution_complete, when no wave is left.
ExecutionComplete(a) ==
  /\ pc[a] = "execution complete" /\ ~cancelled
  /\ phase' = "validation"
  /\ Return(a)
  /\ UNCHANGED <<cancelled, tasks, waves, proof, active, proposed, runtime, heads,
                 passed, turns>>

-----------------------------------------------------------------------------
(* Validation and review *)

Recorded == {c \in CandidateId : candidates[c] # Absent}

PhaseOf(kind) == IF kind = "semanticReview" THEN "semantic-review" ELSE kind

\* What a proof is about: a candidate, or the mission head.
Subject(c) == IF c = 0 THEN Head(missionHead) ELSE candidates[c].commit

\* A validation or a review of a commit is run; a deterministic review finds
\* incomplete tasks.
Examine(a, kind, commit, advances) ==
  /\ \E ok \in BOOLEAN :
       /\ IF ok /\ advances THEN UNCHANGED turns ELSE Turn
       /\ ok /\ kind = "review" => tasks = "done"
       /\ Knows(a, [NoWork EXCEPT !.kind = kind, !.commit = commit, !.ok = ok,
                                  !.advances = advances])
  /\ Goto(a, "prove")
  /\ UNCHANGED <<mission, runtime, heads, passed>>

AdvanceExamines(a) ==
  \E kind \in Kind :
    /\ pc[a] = PhaseOf(kind)
    /\ Examine(a, kind, Subject(work[a].candidate), TRUE)

\* validation_run, review_run and semantic_review_run of the mission head or
\* of any candidate look neither at the phase nor at the status.
CallReview(a) ==
  /\ pc[a] = "idle"
  /\ \E kind \in Kind, c \in {0} \cup Recorded : Examine(a, kind, Subject(c), FALSE)

Prove(w) ==
  /\ proof' = [proof EXCEPT ![w.kind] =
                 [status |-> IF w.ok THEN "passed" ELSE "failed", commit |-> w.commit]]
  /\ passed' = IF w.ok THEN passed \cup {<<w.kind, w.commit>>} ELSE passed

\* mission_validation_passed, _skipped and _failed set the phase with the proof.
RecordValidation(a) ==
  /\ pc[a] = "prove" /\ work[a].kind = "validation" /\ work[a].advances /\ ~cancelled
  /\ Prove(work[a])
  /\ phase' = IF work[a].ok THEN "review" ELSE "validation"
  /\ Return(a)
  /\ UNCHANGED <<cancelled, tasks, waves, active, proposed, runtime, heads, turns>>

\* The others record the proof, whatever has become of the mission; advance
\* lets the phase follow in a transaction of its own.
RecordReview(a) ==
  /\ pc[a] = "prove" /\ ~(work[a].kind = "validation" /\ work[a].advances)
  /\ Prove(work[a])
  /\ IF work[a].ok /\ work[a].advances
     THEN Goto(a, "mark") /\ Knows(a, [NoWork EXCEPT !.kind = work[a].kind])
     ELSE Return(a)
  /\ UNCHANGED <<phase, cancelled, tasks, waves, active, proposed, runtime, heads, turns>>

\* Mutant: the phase follows the proof in a cancelled mission, too.
MarkReviewed_Cancelled(a) ==
  /\ pc[a] = "mark"
  /\ phase' = IF work[a].kind = "review" THEN "semantic-review" ELSE "candidate"
  /\ Return(a)
  /\ UNCHANGED <<cancelled, tasks, waves, proof, active, proposed, runtime, heads, passed, turns>>

\* mission_review_passed and mission_semantic_review_passed.
MarkReviewed(a) ==
  /\ pc[a] = "mark" /\ ~cancelled
  /\ phase' = IF work[a].kind = "review" THEN "semantic-review" ELSE "candidate"
  /\ Return(a)
  /\ UNCHANGED <<cancelled, tasks, waves, proof, active, proposed, runtime, heads, passed, turns>>

\* failedReviewHead
Failed(kind) == proof[kind].status = "failed"
FailedReview ==
  IF Failed("semanticReview") THEN <<"semanticReview", proof["semanticReview"].commit>>
  ELSE IF Failed("review") THEN <<"review", proof["review"].commit>>
  ELSE <<"none", NoCommit>>

\* remediation_plan applies to a mission in review without a candidate, whose
\* mission head is the commit that has failed its review.
Remediable ==
  /\ phase \in {"review", "semantic-review"} /\ ~cancelled
  /\ active = 0 /\ proposed = 0 /\ tasks = "done"

CallRemediate(a) ==
  /\ Aside(a)
  /\ Remediable /\ FailedReview[2] = Head(missionHead)
  /\ Goto(a, "remediate")
  /\ Knows(a, [NoWork EXCEPT !.kind = FailedReview[1], !.commit = FailedReview[2],
                             !.waves = waves])
  /\ UNCHANGED <<mission, runtime, heads, passed>>

\* remediation_plan_applied checks all of it again but the mission head, and
\* that no wave has been planned meanwhile.
Remediate(a) ==
  /\ pc[a] = "remediate"
  /\ Remediable /\ FailedReview = <<work[a].kind, work[a].commit>>
  /\ waves = work[a].waves
  /\ PlanWave /\ phase' = "execution" /\ proof' = Pending(NoCommit)
  /\ Return(a)
  /\ UNCHANGED <<cancelled, active, proposed, runtime, heads, passed, turns>>

-----------------------------------------------------------------------------
(* Candidates *)

\* The source has left the base the mission was planned on.
Drifted(source) == source # 0

CallRefresh(a) ==
  /\ Aside(a) /\ ~cancelled
  /\ Goto(a, "preflight")
  /\ UNCHANGED <<mission, runtime, heads, work, passed>>

\* createOrRefresh looks at both heads and makes the commit ...
Preflight(a) ==
  /\ pc[a] = "preflight"
  /\ Goto(a, "record")
  /\ Knows(a, [NoWork EXCEPT !.sourceHead = sourceHead, !.missionHead = missionHead])
  /\ UNCHANGED <<mission, runtime, heads, passed, turns>>

\* The active proposal is superseded, and the mission lets go of it.
Superseded == [p \in ProposalId |->
  IF p = proposed THEN [proposals[p] EXCEPT !.status = "superseded"] ELSE proposals[p]]

\* Mutant: the mission still names it.
Supersede_Named == proposals' = Superseded /\ UNCHANGED proposed

Supersede == proposals' = Superseded /\ proposed' = 0

\* ... and records the candidate: the active proposal is superseded, and after
\* a drift the mission goes back to its validation.
RecordCandidate(a) ==
  /\ pc[a] = "record" /\ ~cancelled
  /\ \E c \in CandidateId :
       LET w == work[a]
           commit == IF Drifted(w.sourceHead) THEN Merge(c) ELSE Head(w.missionHead)
       IN
       /\ \A d \in CandidateId : candidates[d] = Absent <=> d >= c
       /\ candidates' = [candidates EXCEPT ![c] =
            [status |-> "recorded", commit |-> commit,
             sourceHead |-> w.sourceHead, missionHead |-> w.missionHead]]
       /\ active' = c
       /\ proof' = IF Drifted(w.sourceHead) THEN Pending(commit) ELSE proof
       /\ phase' = IF Drifted(w.sourceHead) THEN "validation" ELSE "candidate"
  /\ Supersede
  /\ Return(a)
  /\ UNCHANGED <<cancelled, tasks, waves, heads, passed, turns>>

\* Mutant: the source is not looked at.
HeadsMoved_MissionOnly(c) == missionHead # candidates[c].missionHead

HeadsMoved(c) ==
  sourceHead # candidates[c].sourceHead \/ missionHead # candidates[c].missionHead

\* advance in the candidate or finalize phase looks at the heads: another
\* candidate is made when one has moved, or in the candidate phase when there
\* is none with fresh proof.
Compare(a) ==
  LET w == work[a] IN
  /\ UNCHANGED <<mission, runtime, heads, passed, turns>>
  /\ \/ /\ pc[a] = "candidate" /\ ~w.ok
        /\ Goto(a, "preflight") /\ Knows(a, NoWork)
     \/ /\ pc[a] \in {"candidate", "finalize"} /\ w.candidate # 0 /\ HeadsMoved(w.candidate)
        /\ Goto(a, "preflight") /\ Knows(a, NoWork)
     \/ /\ pc[a] = "candidate" /\ w.ok /\ ~HeadsMoved(w.candidate)
        /\ Goto(a, "ready") /\ Knows(a, NoWork)
     \/ /\ pc[a] = "finalize" /\ w.ok /\ ~HeadsMoved(w.candidate)
        /\ Goto(a, "propose")
        /\ Knows(a, [NoWork EXCEPT !.candidate = w.candidate,
                                   !.commit = candidates[w.candidate].commit,
                                   !.sourceHead = sourceHead, !.missionHead = missionHead])

\* mission_candidate_ready
CandidateReady(a) ==
  /\ pc[a] = "ready" /\ ~cancelled
  /\ phase' = "finalize"
  /\ Return(a)
  /\ UNCHANGED <<cancelled, tasks, waves, proof, active, proposed, runtime, heads, passed, turns>>

-----------------------------------------------------------------------------
(* Merge proposals *)

\* proposalMatches
Matches(p, w) ==
  /\ p # 0
  /\ proposals[p] = [status |-> "proposed", candidate |-> w.candidate, commit |-> w.commit,
                     sourceHead |-> w.sourceHead, missionHead |-> w.missionHead]

\* mission_finalize_proposed, unless the proposal stands already.
Propose(a) ==
  /\ pc[a] = "propose" /\ ~cancelled /\ ~Matches(proposed, work[a])
  /\ \E p \in ProposalId :
       /\ \A q \in ProposalId : proposals[q] = Absent <=> q >= p
       /\ proposals' = [proposals EXCEPT ![p] =
            [status |-> "proposed", candidate |-> work[a].candidate,
             commit |-> work[a].commit, sourceHead |-> work[a].sourceHead,
             missionHead |-> work[a].missionHead]]
       /\ proposed' = p
  /\ phase' = "finalize"
  /\ Return(a)
  /\ UNCHANGED <<cancelled, tasks, waves, proof, active, candidates, heads, passed, turns>>

-----------------------------------------------------------------------------
(* The operator and the user *)

\* Mutant: cancelling is made a phase.
Cancel_Phase(a) ==
  /\ Aside(a)
  /\ cancelled' = TRUE /\ phase' = "cancelled"
  /\ UNCHANGED <<tasks, waves, proof, active, proposed, runtime, heads, calls, passed>>

\* mission_cancel
Cancel(a) ==
  /\ Aside(a)
  /\ cancelled' = TRUE
  /\ UNCHANGED <<phase, tasks, waves, proof, active, proposed, runtime, heads, calls, passed>>

MoveSource ==
  /\ sourceHead < MaxSource /\ Turn
  /\ sourceHead' = sourceHead + 1
  /\ UNCHANGED <<mission, runtime, missionHead, calls, passed>>

-----------------------------------------------------------------------------

Next ==
  \/ \E a \in Call :
       \/ CallExecute(a) \/ RunWave(a) \/ ScheduleRepair(a) \/ ExecutionComplete(a)
       \/ Advance(a) \/ AdvanceExamines(a) \/ CallReview(a)
       \/ RecordValidation(a) \/ RecordReview(a) \/ MarkReviewed(a)
       \/ CallRemediate(a) \/ Remediate(a)
       \/ CallRefresh(a) \/ Preflight(a) \/ RecordCandidate(a)
       \/ Compare(a) \/ CandidateReady(a) \/ Propose(a)
       \/ Cancel(a) \/ Fails(a)
  \/ MoveSource

Spec == Init /\ [][Next]_vars

-----------------------------------------------------------------------------
(* Properties *)

\* Types of the variables.
TypeOK ==
  /\ phase \in Phase /\ cancelled \in BOOLEAN /\ tasks \in {"planned", "done"} /\ waves \in Nat
  /\ proof \in [Kind -> Proof]
  /\ active \in 0..MaxCandidates /\ proposed \in 0..MaxProposals
  /\ candidates \in [CandidateId -> Candidate \cup {Absent}]
  /\ proposals \in [ProposalId -> Proposal \cup {Absent}]
  /\ sourceHead \in 0..MaxSource /\ missionHead \in 0..MaxHead
  /\ pc \in [Call -> Step] /\ work \in [Call -> Work]
  /\ passed \subseteq Kind \X Commit /\ turns \in Nat

\* "A proof-fresh candidate produces a durable merge proposal": a commit that
\* was ever proposed has passed its validation and both reviews itself, however
\* late or stale the results that were recorded for the mission.
ProposalIsProven ==
  \A p \in ProposalId : proposals[p] # Absent =>
    \A k \in Kind : <<k, proposals[p].commit>> \in passed

Stands(p) == proposals[p] # Absent /\ proposals[p].status = "proposed"

\* What an operator is asked to merge is one thing: the candidate that was
\* proved, and the two heads that candidate was made from.
ProposalExpectsItsHeads ==
  \A p \in ProposalId : proposals[p] # Absent =>
    LET c == candidates[proposals[p].candidate] IN
    /\ c.commit = proposals[p].commit
    /\ c.sourceHead = proposals[p].sourceHead /\ c.missionHead = proposals[p].missionHead

\* The proposal the mission names still stands: nothing supersedes it without
\* the mission letting go of it.
NamedProposalStands == proposed # 0 => Stands(proposed)

\* A cancelled mission stays where it is, whichever calls finish late
\* ("late advance state must not cross the cancelled phase boundary").
CancelledIsFrozen ==
  [][cancelled /\ cancelled' => UNCHANGED <<phase, active, proposed, runtime>>]_vars

\* "Cancelled missions cannot be resumed" (mission-service.mjs).
CancelledIsFinal == [][cancelled => cancelled']_vars

\* "Source or mission drift supersedes the proposal and forces candidate
\* refresh plus revalidation/re-review" (README.md): a proposal that stands
\* names the commit of the active candidate.
ProposalFollowsCandidate ==
  \A p \in ProposalId : Stands(p) =>
    active # 0 /\ proposals[p].commit = candidates[active].commit

=============================================================================
