---------------------------- MODULE ValidationPlan ----------------------------
(***************************************************************************)
(* The final validation of a mission: validation-scheduler.mjs plans the   *)
(* required capabilities in tiers and batches, and runValidationPlan of    *)
(* mission-advance-core.mjs runs them, as many together as the limit and   *)
(* their resources allow, until one has failed; those in progress are      *)
(* drained then and the rest is deferred.                                  *)
(*                                                                         *)
(* The catalog is arbitrary: every assignment of tiers, of conflicts on    *)
(* runtime resources and service ports, and of a limit.  Capabilities are  *)
(* their places in the list of required ones, which has no duplicates.     *)
(***************************************************************************)
EXTENDS Naturals, SequencesExt

CONSTANTS
  Count,       \* the number of required capabilities
  MaxLimit     \* bound: the maxParallel of the validation policy

Capability == 1..Count

VARIABLES
  tier,        \* 0 for commands, 1 for services, 2 for browsers and the like
  conflicts,   \* the pairs of capabilities that conflict on a resource
  limit,       \* maxParallel
  stage,       \* of the loop: start, admitting, waiting or over
  current,     \* the tier in progress
  pending,     \* those of the tier that have not started, in the plan's order
  active,      \* those that have started and have not been dealt with
  running,     \* those that run
  completed,   \* the active ones that have ended
  report,      \* what each has reported when it ended
  results,     \* resultByCapability
  failed,      \* the loop has seen a failure
  verdict      \* the validation of the mission

catalog == <<tier, conflicts, limit>>
planVars == <<catalog, stage, current, pending, active, running, completed, report,
              results, failed, verdict>>

Conflict(c, d) == {c, d} \in conflicts

Init ==
  /\ tier \in [Capability -> 0..2]
  /\ conflicts \in SUBSET kSubset(2, Capability)
  /\ limit \in 1..MaxLimit
  /\ stage = "start" /\ current = 0
  /\ pending = <<>> /\ active = {} /\ running = {} /\ completed = {}
  /\ report = [c \in Capability |-> "none"]
  /\ results = [c \in Capability |-> "none"]
  /\ failed = FALSE /\ verdict = "none"

-----------------------------------------------------------------------------
(* The plan *)

\* conflictDegree
Degree(c, remaining) == Cardinality({d \in remaining \ {c} : Conflict(c, d)})

\* The next batch: from the least conflicting capability on, whatever fits to
\* those before it.
Batch(remaining) ==
  LET ranked == SetToSortSeq(remaining, LAMBDA c, d :
                  \/ Degree(c, remaining) < Degree(d, remaining)
                  \/ Degree(c, remaining) = Degree(d, remaining) /\ c < d)
      Take(selected, c) ==
        IF Cardinality(selected) < limit /\ \A d \in selected : ~Conflict(c, d)
        THEN selected \cup {c} ELSE selected
  IN FoldLeft(Take, {}, ranked)

\* planValidationBatches for one tier: a sequence of batches.
Batches(caps) ==
  LET plan[remaining \in SUBSET caps] ==
        IF remaining = {} THEN <<>>
        ELSE <<Batch(remaining)>> \o plan[remaining \ Batch(remaining)]
  IN plan[caps]

TierMembers(t) == {c \in Capability : tier[c] = t}

\* validationTierQueues: the batches of a tier, one after the other.
Queue(t) ==
  LET batches == Batches(TierMembers(t))
  IN FlattenSeq([i \in DOMAIN batches |-> SetToSortSeq(batches[i], <)])

-----------------------------------------------------------------------------
(* The loop *)

Tiers == {tier[c] : c \in Capability}

StartTier(t) ==
  /\ current' = t /\ pending' = Queue(t)
  /\ stage' = "admitting"

Start ==
  /\ stage = "start"
  /\ StartTier(Min(Tiers))
  /\ UNCHANGED <<catalog, active, running, completed, report, results, failed, verdict>>

\* Mutant: the tiers are thought to keep conflicting capabilities apart.
Together_Tier(caps) == \A c, d \in caps : tier[c] = tier[d]

\* validationCapabilitiesCanRunTogether
Together(caps) ==
  \A c, d \in caps : tier[c] = tier[d] /\ (c # d => ~Conflict(c, d))

CanAdmit(i) == Together(active \cup {pending[i]})

\* One turn of admit(): the first capability that goes with the active ones.
Admit ==
  /\ stage = "admitting" /\ Cardinality(active) < limit
  /\ \E i \in DOMAIN pending :
       /\ CanAdmit(i) /\ \A j \in 1..(i - 1) : ~CanAdmit(j)
       /\ active' = active \cup {pending[i]}
       /\ running' = running \cup {pending[i]}
       /\ pending' = RemoveAt(pending, i)
  /\ UNCHANGED <<catalog, stage, current, completed, report, results, failed, verdict>>

AdmitEnds ==
  /\ stage = "admitting"
  /\ Cardinality(active) >= limit \/ \A i \in DOMAIN pending : ~CanAdmit(i)
  /\ stage' = "waiting"
  /\ UNCHANGED <<catalog, current, pending, active, running, completed, report, results, failed,
                 verdict>>

\* runValidationCapability ends: a validation that failed, could not be run, or
\* has seen another commit counts as failed.  The callback runs between the
\* loop's turns.
RunEnds(c) ==
  /\ stage \in {"waiting", "over"} /\ c \in running
  /\ running' = running \ {c}
  /\ completed' = completed \cup {c}
  /\ report' \in {[report EXCEPT ![c] = r] : r \in {"passed", "failed"}}
  /\ UNCHANGED <<catalog, stage, current, pending, active, results, failed, verdict>>

\* Mutant: the loop takes one of those that have ended.
Turn_One ==
  /\ stage = "waiting" /\ completed # {}
  /\ LET ready == {Min(completed)}
     IN /\ active' = active \ ready
        /\ completed' = completed \ ready
        /\ results' = [c \in Capability |-> IF c \in ready THEN report[c] ELSE results[c]]
        /\ failed' = (failed \/ \E c \in ready : report[c] = "failed")
  /\ stage' = IF failed' THEN "waiting" ELSE "admitting"
  /\ UNCHANGED <<catalog, current, pending, running, report, verdict>>

\* The loop wakes up and deals with all that have ended; after a failure it
\* admits no other.
Turn ==
  /\ stage = "waiting" /\ completed # {}
  /\ active' = active \ completed
  /\ completed' = {}
  /\ results' = [c \in Capability |-> IF c \in completed THEN report[c] ELSE results[c]]
  /\ failed' = (failed \/ \E c \in completed : report[c] = "failed")
  /\ stage' = IF failed' THEN "waiting" ELSE "admitting"
  /\ UNCHANGED <<catalog, current, pending, running, report, verdict>>

Passed == \A c \in Capability : results[c] = "passed"

\* Mutant: the last tier is not noticed.
TierEnds_NextNumber ==
  /\ stage = "waiting" /\ active = {}
  /\ IF failed
     THEN stage' = "over" /\ verdict' = "failed" /\ UNCHANGED <<current, pending>>
     ELSE StartTier(current + 1) /\ UNCHANGED verdict
  /\ UNCHANGED <<catalog, active, running, completed, report, results, failed>>

\* Nothing is active: the next tier, or persistValidationAggregate.
TierEnds ==
  /\ stage = "waiting" /\ active = {}
  /\ LET later == {t \in Tiers : t > current}
     IN IF failed \/ later = {}
        THEN /\ stage' = "over" /\ verdict' = IF Passed THEN "passed" ELSE "failed"
             /\ UNCHANGED <<current, pending>>
        ELSE StartTier(Min(later)) /\ UNCHANGED verdict
  /\ UNCHANGED <<catalog, active, running, completed, report, results, failed>>

Loop == Start \/ Admit \/ AdmitEnds \/ Turn \/ TierEnds

Next == Loop \/ \E c \in Capability : RunEnds(c)

\* The loop is woken by every end of a run, and every run ends: a command, a
\* service's readiness and a probe all have a time limit.
Fairness == WF_planVars(Loop) /\ \A c \in Capability : WF_planVars(RunEnds(c))

Spec == Init /\ [][Next]_planVars /\ Fairness

-----------------------------------------------------------------------------
(* Properties *)

\* Types of the variables.
TypeOK ==
  /\ tier \in [Capability -> 0..2]
  /\ conflicts \subseteq SUBSET Capability
  /\ limit \in 1..MaxLimit
  /\ stage \in {"start", "admitting", "waiting", "over"}
  /\ current \in 0..2
  /\ pending \in Seq(Capability)
  /\ active \subseteq Capability /\ running \subseteq Capability /\ completed \subseteq Capability
  /\ report \in [Capability -> {"none", "passed", "failed"}]
  /\ results \in [Capability -> {"none", "passed", "failed"}]
  /\ failed \in BOOLEAN
  /\ verdict \in {"none", "passed", "failed"}

Started == active \cup {c \in Capability : results[c] # "none"}

\* Capabilities that need the same resource for themselves, or are of different
\* tiers, never run together, and never more than the policy allows.
RunsTogether ==
  /\ \A c, d \in running : tier[c] = tier[d] /\ (c # d => ~Conflict(c, d))
  /\ Cardinality(running) <= limit

\* No capability starts once one has ended with a failure, also when the loop
\* finds several that have ended ("drain-in-flight").
NothingStartsAfterFailure ==
  [][(\E c \in Capability : report[c] = "failed") => Started' \subseteq Started]_planVars

\* A capability starts after those of all earlier tiers have passed.
TiersInOrder ==
  \A c \in Started, d \in Capability : tier[d] < tier[c] => results[d] = "passed"

\* A verdict is given when nothing runs any more and everything that ran is in
\* it; it is "failed" only with a capability that has failed.
VerdictIsTheWhole ==
  verdict # "none" =>
    /\ running = {}
    /\ \A c \in Capability : results[c] = report[c]
    /\ verdict = "failed" <=> \E c \in Capability : report[c] = "failed"

\* A tier begins with each of its capabilities in the queue, and in it once.
QueueIsTheTier ==
  stage = "admitting" /\ (\A c \in Started : tier[c] # current) =>
    /\ pending \in Seq(Capability) /\ IsInjective(pending)
    /\ \A c \in Capability : tier[c] = current <=> \E i \in DOMAIN pending : pending[i] = c

\* The order in which the capabilities end, fail and leave room for others never
\* brings two together that conflict, a tier before its time, or a verdict that
\* leaves a run out; and the queues leave none out.
PlanIsRespected == RunsTogether /\ TiersInOrder /\ VerdictIsTheWhole /\ QueueIsTheTier

Decided == verdict # "none"

\* Every plan comes to a verdict.
PlanEnds == <>[]Decided

=============================================================================
