-------------------------- MODULE MCServices_proofs --------------------------
(***************************************************************************)
(* Proofs about the services of MCServices, for any number of calls, *)
(* operations, cleanups, runs and failures: the types of all variables,    *)
(* what the PostgreSQL backend promises and what its audit tells, what a   *)
(* cleanup removes, and how the groups of workers are contained.           *)
(*                                                                         *)
(* A service that does not run takes no step, so its invariant is one of   *)
(* the composition; the last section puts the parts together.  The ledger  *)
(* has its proofs in RequestLedger_proofs, the workers have theirs in      *)
(* WorkerService_proofs. *)
(***************************************************************************)
EXTENDS MCServices, RequestLedger_proofs, WorkerService_proofs

-----------------------------------------------------------------------------
(* The PostgreSQL backend *)

\* What is asked of the constants.
PgConstants == Nobody \notin Call /\ Earlier \notin Call

CommitId == Call \cup {Earlier}
PgRow == [revision : Nat, commits : Seq(CommitId)]
PgView == [row : PgRow, log : Seq(CommitId)]
PgReply == {"none", "ok", "error", "conflict", "not applied", "unknown"}
PgStage == {"idle", "read", "locked", "written", "sent", "resolving", "done"}
PgSession == {"none", "open", "committing", "committed", "aborted"}

-----------------------------------------------------------------------------
(* Types *)

LEMMA MembersOfAppend ==
  ASSUME NEW S, NEW s \in Seq(S), NEW e \in S
  PROVE  /\ Append(s, e) \in Seq(S) /\ Len(Append(s, e)) = Len(s) + 1
         /\ Postgres!Members(Append(s, e)) = Postgres!Members(s) \cup {e}
<1>1. /\ Append(s, e) \in Seq(S) /\ Len(s) \in Nat /\ DOMAIN s = 1..Len(s)
      /\ Len(Append(s, e)) = Len(s) + 1 /\ DOMAIN Append(s, e) = 1..(Len(s) + 1)
      /\ \A i \in 1..Len(s) : Append(s, e)[i] = s[i]
      /\ Append(s, e)[Len(s) + 1] = e
  OBVIOUS
<1>2. Postgres!Members(Append(s, e)) \subseteq Postgres!Members(s) \cup {e}
  BY <1>1 DEF Postgres!Members
<1>3. Postgres!Members(s) \subseteq Postgres!Members(Append(s, e))
        /\ e \in Postgres!Members(Append(s, e))
  BY <1>1 DEF Postgres!Members
<1> QED
  BY <1>1, <1>2, <1>3

LEMMA PgTypeInit == Postgres!Init => Postgres!TypeOK
<1> SUFFICES ASSUME Postgres!Init PROVE Postgres!TypeOK
  OBVIOUS
<1>1. <<>> \in Seq(CommitId) /\ <<Earlier>> \in Seq(CommitId)
  BY DEF CommitId
<1>2. Postgres!NoRow \in PgRow /\ [revision |-> 1, commits |-> <<Earlier>>] \in PgRow
  BY <1>1 DEF Postgres!NoRow, PgRow
<1>4. row \in PgRow /\ log \in Seq(CommitId)
  BY <1>1, <1>2 DEF Postgres!Init
<1>3. view \in [Call -> PgView]
  BY <1>1, <1>2 DEF Postgres!Init, PgView
<1> QED
  BY <1>3, <1>4 DEF Postgres!Init, Postgres!TypeOK, CommitId, PgRow, PgView

\* What the transaction of a call may see.
LEMMA ViewTypes ==
  ASSUME NEW r \in PgRow, NEW l \in Seq(CommitId), NEW c \in Call
  PROVE  /\ Postgres!Reconciled(r, l) \in Seq(CommitId)
         /\ Postgres!Commits(r, c) \in PgRow /\ Append(l, c) \in Seq(CommitId)
<1>1. r.commits \in Seq(CommitId) /\ r.revision \in Nat
  BY DEF PgRow
<1>2. ASSUME r.commits # <<>> PROVE r.commits[Len(r.commits)] \in CommitId
  BY <1>1, <1>2
<1>3. Postgres!Reconciled(r, l) \in Seq(CommitId)
  BY <1>2 DEF Postgres!Reconciled
<1>4. Postgres!Commits(r, c) \in PgRow
  BY <1>1 DEF Postgres!Commits, PgRow, CommitId
<1> QED
  BY <1>3, <1>4 DEF CommitId

LEMMA PgTypeStep == Postgres!TypeOK /\ [Postgres!Next]_(Postgres!pgVars) => Postgres!TypeOK'
<1> SUFFICES ASSUME Postgres!TypeOK, [Postgres!Next]_(Postgres!pgVars) PROVE Postgres!TypeOK'
  OBVIOUS
<1>0. /\ row \in PgRow /\ log \in Seq(CommitId)
      /\ holder \in Call \cup {Nobody}
      /\ callKind \in [Call -> {"bootstrap", "recover", "transaction", "compareAndCommit"}]
      /\ expected \in [Call -> Nat]
      /\ stage \in [Call -> PgStage]
      /\ view \in [Call -> PgView]
      /\ session \in [Call -> PgSession]
      /\ reply \in [Call -> PgReply]
      /\ early \subseteq Call
      /\ losses \in Nat
  BY DEF Postgres!TypeOK, CommitId, PgRow, PgView, PgStage, PgSession, PgReply
<1>1. CASE UNCHANGED Postgres!pgVars
  BY <1>1 DEF Postgres!pgVars, Postgres!server, Postgres!client, Postgres!TypeOK
<1>2. ASSUME NEW c \in Call, Postgres!Step(c) PROVE Postgres!TypeOK'
  <2>0. /\ view[c] \in PgView /\ view[c].row \in PgRow /\ view[c].log \in Seq(CommitId)
        /\ row.revision \in Nat
    BY <1>0 DEF PgView, PgRow
  <2>1. row' \in PgRow /\ log' \in Seq(CommitId) /\ holder' \in Call \cup {Nobody}
    BY <1>0, <1>2, <2>0
       DEF Postgres!Step, Postgres!ReadSnapshot, Postgres!Lock, Postgres!Rejects,
           Postgres!MutatorThrows, Postgres!RollsBack, Postgres!Write, Postgres!QueryFails,
           Postgres!SendCommit, Postgres!ServerCommits, Postgres!CommitIsLost,
           Postgres!ServerAborts, Postgres!Acknowledged, Postgres!CommitFails, Postgres!Resolve,
           Postgres!ResolveFails, Postgres!server
  <2>2. callKind' = callKind /\ (expected' = expected
          \/ expected' = [expected EXCEPT ![c] = row.revision])
        /\ early' \subseteq early \cup {c} /\ losses' \in {losses, losses + 1}
    BY <1>2
       DEF Postgres!Step, Postgres!ReadSnapshot, Postgres!Lock, Postgres!Rejects,
           Postgres!MutatorThrows, Postgres!RollsBack, Postgres!Write, Postgres!QueryFails,
           Postgres!SendCommit, Postgres!ServerCommits, Postgres!CommitIsLost,
           Postgres!ServerAborts, Postgres!Acknowledged, Postgres!CommitFails, Postgres!Resolve,
           Postgres!ResolveFails, Postgres!client, Postgres!Loses
  <2>5. expected' \in [Call -> Nat] /\ early' \subseteq Call /\ losses' \in Nat
    <3>1. expected' \in [Call -> Nat]
      BY <1>0, <2>0, <2>2
    <3>2. early' \subseteq Call
      BY <1>0, <2>2
    <3>3. losses' \in Nat
      BY <1>0, <2>2
    <3> QED
      BY <3>1, <3>2, <3>3
  <2>3. /\ stage' \in [Call -> PgStage]
        /\ session' \in [Call -> PgSession] /\ reply' \in [Call -> PgReply]
    <3>1. stage' \in [Call -> PgStage]
      BY <1>0, <1>2
         DEF Postgres!Step, Postgres!ReadSnapshot, Postgres!Lock, Postgres!Rejects,
             Postgres!MutatorThrows, Postgres!RollsBack, Postgres!Write, Postgres!QueryFails,
             Postgres!SendCommit, Postgres!ServerCommits, Postgres!CommitIsLost,
             Postgres!ServerAborts, Postgres!Acknowledged, Postgres!CommitFails, Postgres!Resolve,
             Postgres!ResolveFails, Postgres!client, Postgres!Goto, Postgres!Answers, PgStage
    <3>2. session' \in [Call -> PgSession]
      BY <1>0, <1>2
         DEF Postgres!Step, Postgres!ReadSnapshot, Postgres!Lock, Postgres!Rejects,
             Postgres!MutatorThrows, Postgres!RollsBack, Postgres!Write, Postgres!QueryFails,
             Postgres!SendCommit, Postgres!ServerCommits, Postgres!CommitIsLost,
             Postgres!ServerAborts, Postgres!Acknowledged, Postgres!CommitFails, Postgres!Resolve,
             Postgres!ResolveFails, Postgres!client, Postgres!Becomes, Postgres!Answers,
             PgSession
    <3>3. reply' \in [Call -> PgReply]
      BY <1>0, <1>2
         DEF Postgres!Step, Postgres!ReadSnapshot, Postgres!Lock, Postgres!Rejects,
             Postgres!MutatorThrows, Postgres!RollsBack, Postgres!Write, Postgres!QueryFails,
             Postgres!SendCommit, Postgres!ServerCommits, Postgres!CommitIsLost,
             Postgres!ServerAborts, Postgres!Acknowledged, Postgres!CommitFails, Postgres!Resolve,
             Postgres!ResolveFails, Postgres!client, Postgres!Becomes, Postgres!Answers, PgReply
    <3> QED
      BY <3>1, <3>2, <3>3
  <2>4. view' \in [Call -> PgView]
    <3>1. CASE Postgres!Lock(c)
      <4> DEFINE written == [row |-> row,
                          log |-> IF callKind[c] = "bootstrap" THEN log
                            ELSE Postgres!Reconciled(row, log)]
      <4>1. written \in PgView
        BY <1>0, ViewTypes DEF PgView
      <4> QED
        BY <1>0, <3>1, <4>1 DEF Postgres!Lock
    <3>2. CASE Postgres!Write(c)
      <4> DEFINE written == [row |-> Postgres!Commits(view[c].row, c),
                   log |-> Append(view[c].log, c)]
      <4>1. written \in PgView
        BY <2>0, ViewTypes DEF PgView
      <4>2. view' = [view EXCEPT ![c] = written] \/ view' = view
        BY <3>2 DEF Postgres!Write
      <4> QED
        BY <1>0, <4>1, <4>2
    <3>3. CASE ~Postgres!Lock(c) /\ ~Postgres!Write(c)
      <4>1. view' = view
        BY <1>2, <3>3
           DEF Postgres!Step, Postgres!ReadSnapshot, Postgres!Rejects, Postgres!MutatorThrows,
               Postgres!RollsBack, Postgres!QueryFails, Postgres!SendCommit,
               Postgres!ServerCommits, Postgres!CommitIsLost, Postgres!ServerAborts,
               Postgres!Acknowledged, Postgres!CommitFails, Postgres!Resolve,
               Postgres!ResolveFails
      <4> QED
        BY <1>0, <4>1
    <3> QED
      BY <3>1, <3>2, <3>3
  <2> QED
    BY <1>0, <2>1, <2>2, <2>3, <2>4, <2>5
       DEF Postgres!TypeOK, CommitId, PgRow, PgView, PgStage, PgSession, PgReply
<1> QED
  BY <1>1, <1>2 DEF Postgres!Next

\* The variables of the backend keep their types.
THEOREM PostgresTypes == Postgres!Spec => []Postgres!TypeOK
  BY PgTypeInit, PgTypeStep, PTL DEF Postgres!Spec

-----------------------------------------------------------------------------
(* The invariant.  The properties are not inductive: they say nothing of    *)
(* what a session has written and not committed yet, which is the next      *)
(* state, nor of a session whose client has left.                           *)

\* A log that tells of exactly the commits, or the damaged one of the start.
PgComplete(r, l) ==
  /\ r.revision = Len(r.commits)
  /\ l = r.commits \/ (r.commits = <<Earlier>> /\ l = <<>>)

\* Where a call, its session at the server and what it was told may be.
PgControl(c) ==
  /\ stage[c] \in {"idle", "read"} => session[c] = "none"
  /\ stage[c] \in {"locked", "written"} => session[c] = "open"
  /\ stage[c] \in {"sent", "resolving"} => session[c] \in {"committing", "committed", "aborted"}
  /\ stage[c] # "done" => reply[c] = "none"
  /\ stage[c] = "resolving" => Postgres!Mutates(c)
  /\ session[c] \in {"open", "committing"} => holder = c
  /\ session[c] = "open" => stage[c] \in {"locked", "written", "done"}
  /\ stage[c] = "done" /\ reply[c] \in {"error", "conflict"} /\ Postgres!Mutates(c) =>
       session[c] \in {"open", "aborted"}
  /\ callKind[c] # "compareAndCommit" \/ stage[c] = "idle" => expected[c] = 0

\* A transaction that can still commit: what its session sees is the state
\* under the instance's lock, and what it has written the next state.
PgAtWork(c) == stage[c] \in {"locked", "written"} \/ session[c] = "committing"

PgSees(c) ==
  /\ PgComplete(view[c].row, view[c].log)
  /\ stage[c] = "locked" =>
       /\ view[c].row = row
       /\ callKind[c] # "bootstrap" => view[c].log = row.commits
  /\ stage[c] # "locked" =>
       \/ /\ view[c].row = Postgres!Commits(row, c) /\ view[c].log = view[c].row.commits
          /\ expected[c] \in {0, row.revision}
       \/ view[c].row = row /\ ~Postgres!Mutates(c)

\* The commits of the state are those of the sessions that have committed.
PgMade(c) ==
  /\ c \in Postgres!Members(row.commits) => session[c] = "committed"
  /\ session[c] = "committed" /\ Postgres!Mutates(c) => c \in Postgres!Members(row.commits)
  /\ reply[c] = "ok" /\ Postgres!Mutates(c) => session[c] = "committed"
  /\ reply[c] = "not applied" => session[c] = "aborted" \/ c \in early

PgCallInv(c) == PgControl(c) /\ (PgAtWork(c) => PgSees(c)) /\ PgMade(c)

PgInv == Postgres!TypeOK /\ PgComplete(row, log) /\ \A c \in Call : PgCallInv(c)

\* What the variables are, for the provers.
LEMMA PgFacts ==
  ASSUME Postgres!TypeOK
  PROVE  /\ row \in PgRow /\ row.commits \in Seq(CommitId) /\ row.revision \in Nat
              /\ log \in Seq(CommitId)
         /\ callKind \in [Call -> {"bootstrap", "recover", "transaction", "compareAndCommit"}]
         /\ expected \in [Call -> Nat] /\ stage \in [Call -> PgStage]
         /\ session \in [Call -> PgSession] /\ reply \in [Call -> PgReply]
         /\ view \in [Call -> PgView]
         /\ \A c \in Call : /\ view[c] \in PgView /\ view[c].row \in PgRow
                                 /\ view[c].log \in Seq(CommitId)
                            /\ view[c].row.commits \in Seq(CommitId)
                                 /\ view[c].row.revision \in Nat
  BY DEF Postgres!TypeOK, CommitId, PgRow, PgView, PgStage, PgSession, PgReply

LEMMA PgInit == ASSUME PgConstants, Postgres!Init PROVE PgInv
<1>1. Postgres!TypeOK
  BY PgTypeInit
<1>2. row \in {Postgres!NoRow, [revision |-> 1, commits |-> <<Earlier>>]} /\ PgComplete(row, log)
  <2>1. Len(<<>>) = 0 /\ Len(<<Earlier>>) = 1
    OBVIOUS
  <2>2. CASE row = Postgres!NoRow /\ log = <<>>
    BY <2>1, <2>2 DEF Postgres!NoRow, PgComplete
  <2>3. CASE row = [revision |-> 1, commits |-> <<Earlier>>] /\ log \in {<<Earlier>>, <<>>}
    BY <2>1, <2>3 DEF PgComplete
  <2> QED
    BY <2>2, <2>3 DEF Postgres!Init
<1>3. \A c \in Call : c \notin Postgres!Members(row.commits)
  <2>1. Postgres!Members(<<>>) = {} /\ Postgres!Members(<<Earlier>>) = {Earlier}
    BY DEF Postgres!Members
  <2> QED
    BY <1>2, <2>1 DEF Postgres!NoRow, PgConstants
<1>4. \A c \in Call : PgCallInv(c)
  BY <1>3 DEF Postgres!Init, PgCallInv, PgControl, PgAtWork, PgMade
<1> QED
  BY <1>1, <1>2, <1>4 DEF PgInv

\* The state and its log change together, and only to what a session at work
\* has written.
LEMMA ServerStep ==
  ASSUME PgInv, NEW c \in Call, Postgres!Step(c)
  PROVE  \/ row' = row /\ log' = log
         \/ /\ session[c] = "committing" /\ stage[c] # "locked" /\ PgSees(c)
            /\ row' = view[c].row /\ log' = view[c].log
            /\ row' \in {row, Postgres!Commits(row, c)}
<1>1. CASE Postgres!ServerCommits(c)
  <2>1. session[c] = "committing" /\ stage[c] # "locked" /\ PgSees(c)
    BY <1>1 DEF Postgres!ServerCommits, PgInv, PgCallInv, PgControl, PgAtWork
  <2> QED
    BY <1>1, <2>1 DEF Postgres!ServerCommits, PgSees
<1>2. CASE ~Postgres!ServerCommits(c)
  BY <1>2
     DEF Postgres!Step, Postgres!ReadSnapshot, Postgres!Lock, Postgres!Rejects,
         Postgres!MutatorThrows, Postgres!RollsBack, Postgres!Write, Postgres!QueryFails,
         Postgres!SendCommit, Postgres!CommitIsLost, Postgres!ServerAborts, Postgres!Acknowledged,
         Postgres!CommitFails, Postgres!Resolve, Postgres!ResolveFails, Postgres!server
<1> QED
  BY <1>1, <1>2

LEMMA CompleteStep == ASSUME PgInv, NEW c \in Call, Postgres!Step(c) PROVE PgComplete(row, log)'
  BY ServerStep DEF PgInv, PgSees, PgComplete

\* What a commit adds to the commits.
LEMMA CommitMembers ==
  ASSUME Postgres!TypeOK, NEW c \in Call
  PROVE  /\ Postgres!Members(Postgres!Commits(row,
              c).commits) = Postgres!Members(row.commits) \cup {c}
         /\ Postgres!Commits(row, c).revision = row.revision + 1
         /\ Postgres!Commits(row, c).commits = Append(row.commits, c)
         /\ Len(Postgres!Commits(row, c).commits) = Len(row.commits) + 1
<1>1. row.commits \in Seq(CommitId) /\ c \in CommitId
  BY PgFacts DEF CommitId
<1> QED
  BY <1>1, MembersOfAppend DEF Postgres!Commits

\* A step of one call leaves alone what is said of another: what is at work in
\* the database holds the lock.
LEMMA PgOthersStay ==
  ASSUME PgConstants, PgInv, NEW c \in Call, Postgres!Step(c), NEW d \in Call \ {c}
  PROVE  PgCallInv(d)'
<1>0. Postgres!TypeOK /\ PgCallInv(c) /\ PgCallInv(d)
  BY DEF PgInv
<1>1. /\ stage'[d] = stage[d] /\ session'[d] = session[d] /\ reply'[d] = reply[d]
      /\ expected'[d] = expected[d]
      /\ callKind' = callKind /\ early \subseteq early'
  BY <1>0, PgFacts
     DEF Postgres!Step, Postgres!ReadSnapshot, Postgres!Lock, Postgres!Rejects,
         Postgres!MutatorThrows, Postgres!RollsBack, Postgres!Write, Postgres!QueryFails,
         Postgres!SendCommit, Postgres!ServerCommits, Postgres!CommitIsLost,
         Postgres!ServerAborts, Postgres!Acknowledged, Postgres!CommitFails, Postgres!Resolve,
         Postgres!ResolveFails, Postgres!client, Postgres!Goto, Postgres!Becomes,
         Postgres!Answers
<1>2. view'[d] = view[d]
  BY <1>0, PgFacts
     DEF Postgres!Step, Postgres!ReadSnapshot, Postgres!Lock, Postgres!Rejects,
         Postgres!MutatorThrows, Postgres!RollsBack, Postgres!Write, Postgres!QueryFails,
         Postgres!SendCommit, Postgres!ServerCommits, Postgres!CommitIsLost,
         Postgres!ServerAborts, Postgres!Acknowledged, Postgres!CommitFails, Postgres!Resolve,
         Postgres!ResolveFails
<1>3. ASSUME holder = d PROVE holder' = holder /\ row' = row
  <2>1. d # Nobody
    BY DEF PgConstants
  <2>2. session[c] \notin {"open", "committing"} /\ stage[c] \notin {"locked", "written"}
    BY <1>0, <1>3 DEF PgCallInv, PgControl
  <2> QED
    BY <1>3, <2>1, <2>2, ServerStep
       DEF Postgres!Step, Postgres!ReadSnapshot, Postgres!Lock, Postgres!Rejects,
           Postgres!MutatorThrows, Postgres!RollsBack, Postgres!Write, Postgres!QueryFails,
           Postgres!SendCommit, Postgres!ServerCommits, Postgres!CommitIsLost,
           Postgres!ServerAborts, Postgres!Acknowledged, Postgres!CommitFails, Postgres!Resolve,
           Postgres!ResolveFails, Postgres!server
<1>4. Postgres!Members(row'.commits) \subseteq Postgres!Members(row.commits) \cup {c}
      /\ Postgres!Members(row.commits) \subseteq Postgres!Members(row'.commits)
  BY <1>0, ServerStep, CommitMembers
<1>5. PgControl(d)'
  BY <1>0, <1>1, <1>3 DEF PgCallInv, PgControl, Postgres!Mutates
<1>6. PgAtWork(d)' => PgSees(d)'
  <2> SUFFICES ASSUME PgAtWork(d)' PROVE PgSees(d)'
    OBVIOUS
  <2>1. PgAtWork(d) /\ holder = d
    BY <1>0, <1>1 DEF PgAtWork, PgCallInv, PgControl
  <2> QED
    BY <1>0, <1>1, <1>2, <1>3, <2>1 DEF PgCallInv, PgSees, Postgres!Mutates
<1>7. PgMade(d)'
  BY <1>0, <1>1, <1>4 DEF PgCallInv, PgMade, Postgres!Mutates
<1> QED
  BY <1>5, <1>6, <1>7 DEF PgCallInv

\* Reconciling completes a log.
LEMMA ReconciledIsComplete ==
  ASSUME PgConstants, NEW r \in PgRow, NEW l \in Seq(CommitId), PgComplete(r, l)
  PROVE  Postgres!Reconciled(r, l) = r.commits
<1>1. r.commits \in Seq(CommitId)
  BY DEF PgRow
<1>2. CASE r.commits = <<>>
  BY <1>2 DEF Postgres!Reconciled, PgComplete
<1>3. CASE r.commits # <<>> /\ l = r.commits
  <2>1. Len(l) \in DOMAIN l
    BY <1>1, <1>3
  <2> QED
    BY <1>3, <2>1 DEF Postgres!Reconciled, Postgres!Members
<1>4. CASE r.commits = <<Earlier>> /\ l = <<>>
  <2>1. Postgres!Members(l) = {} /\ <<Earlier>> # <<>> /\ Len(<<Earlier>>) = 1
          /\ <<Earlier>>[1] = Earlier
    BY <1>4 DEF Postgres!Members
  <2>2. Append(<<>>, Earlier) = <<Earlier>>
    OBVIOUS
  <2> QED
    BY <1>4, <2>1, <2>2 DEF Postgres!Reconciled
<1> QED
  BY <1>2, <1>3, <1>4 DEF PgComplete

LEMMA OwnControl ==
  ASSUME PgConstants, PgInv, NEW c \in Call, Postgres!Step(c)
  PROVE  PgControl(c)'
<1>0. Postgres!TypeOK /\ PgControl(c)
  BY DEF PgInv, PgCallInv
<1>1. CASE Postgres!ReadSnapshot(c) \/ Postgres!Lock(c) \/ Postgres!Write(c)
             \/ Postgres!SendCommit(c) \/ Postgres!ServerCommits(c)
           \/ Postgres!CommitIsLost(c) \/ Postgres!ServerAborts(c)
  BY <1>0, <1>1, PgFacts
     DEF PgControl, Postgres!Mutates, Postgres!ReadSnapshot, Postgres!Lock, Postgres!Write,
         Postgres!SendCommit, Postgres!ServerCommits, Postgres!CommitIsLost,
         Postgres!ServerAborts, Postgres!Goto, Postgres!Becomes, Postgres!server, Postgres!client
<1>2. CASE Postgres!Rejects(c) \/ Postgres!MutatorThrows(c) \/ Postgres!QueryFails(c)
             \/ Postgres!Acknowledged(c) \/ Postgres!CommitFails(c)
           \/ Postgres!Resolve(c) \/ Postgres!ResolveFails(c)
  BY <1>0, <1>2, PgFacts
     DEF PgControl, Postgres!Mutates, Postgres!Rejects, Postgres!MutatorThrows,
         Postgres!RollsBack, Postgres!QueryFails, Postgres!Acknowledged, Postgres!CommitFails,
         Postgres!Resolve, Postgres!ResolveFails, Postgres!Goto, Postgres!Becomes,
         Postgres!Answers, Postgres!server
<1> QED
  BY <1>1, <1>2 DEF Postgres!Step

LEMMA OwnView ==
  ASSUME PgConstants, PgInv, NEW c \in Call, Postgres!Step(c), PgAtWork(c)'
  PROVE  PgSees(c)'
<1>0. /\ Postgres!TypeOK /\ PgControl(c) /\ PgComplete(row, log)
      /\ PgAtWork(c) => PgSees(c)
  BY DEF PgInv, PgCallInv
<1>1. CASE Postgres!Lock(c)
  <2>1. /\ view'[c].row = row /\ row' = row /\ stage'[c] = "locked" /\ callKind' = callKind
        /\ view'[c].log = IF callKind[c] = "bootstrap" THEN log ELSE Postgres!Reconciled(row, log)
    BY <1>0, <1>1, PgFacts DEF Postgres!Lock, Postgres!Goto
  <2>2. Postgres!Reconciled(row, log) = row.commits
    BY <1>0, PgFacts, ReconciledIsComplete
  <2> QED
    BY <1>0, <2>1, <2>2 DEF PgSees, PgComplete
<1>2. CASE Postgres!Write(c)
  <2>1. /\ stage[c] = "locked" /\ stage'[c] = "written" /\ row' = row
        /\ callKind' = callKind /\ expected' = expected
    BY <1>0, <1>2, PgFacts DEF Postgres!Write, Postgres!Goto, Postgres!server
  <2>2. PgSees(c) /\ view[c].row = row
    BY <1>0, <2>1 DEF PgAtWork, PgSees
  <2>3. expected[c] \in {0, row.revision}
    BY <1>0, <1>2, <2>2 DEF Postgres!Write, Postgres!Conflict, PgControl
  <2>4. CASE view' = view /\ ~Postgres!Mutates(c)
    BY <2>1, <2>2, <2>4 DEF PgSees, Postgres!Mutates
  <2>5. CASE /\ Postgres!Mutates(c) \/ callKind[c] = "recover" \/ view[c].row = Postgres!NoRow
             /\ view' = [view EXCEPT ![c] = [row |-> Postgres!Commits(@.row, c),
                  log |-> Append(@.log, c)]]
    <3>1. view[c].log = row.commits
      <4>1. CASE callKind[c] # "bootstrap"
        BY <2>1, <2>2, <4>1 DEF PgSees
      <4>2. CASE callKind[c] = "bootstrap"
        <5>1. row = Postgres!NoRow
          BY <2>2, <2>5, <4>2 DEF Postgres!Mutates
        <5>2. row.commits = <<>> /\ <<Earlier>> # <<>>
          BY <5>1 DEF Postgres!NoRow
        <5> QED
          BY <2>2, <5>2 DEF PgSees, PgComplete
      <4> QED
        BY <4>1, <4>2
    <3>2. /\ view'[c].row = Postgres!Commits(row, c) /\ view'[c].log = Append(row.commits, c)
      BY <1>0, <2>2, <2>5, <3>1, PgFacts
    <3>3. row.revision = Len(row.commits)
      BY <1>0 DEF PgComplete
    <3>4. /\ view'[c].log = view'[c].row.commits
          /\ view'[c].row.revision = Len(view'[c].row.commits)
      BY <1>0, <3>2, <3>3, CommitMembers
    <3> QED
      BY <2>1, <2>3, <3>2, <3>4 DEF PgSees, PgComplete
  <2> QED
    BY <1>2, <2>4, <2>5 DEF Postgres!Write
<1>3. CASE ~Postgres!Lock(c) /\ ~Postgres!Write(c)
  <2>1. /\ PgAtWork(c) /\ ~Postgres!ServerCommits(c) /\ stage'[c] # "locked" /\ view' = view
        /\ callKind' = callKind /\ (stage[c] = "locked" => FALSE)
    BY <1>0, <1>3, PgFacts
       DEF Postgres!Step, Postgres!ReadSnapshot, Postgres!Rejects, Postgres!MutatorThrows,
           Postgres!RollsBack, Postgres!QueryFails, Postgres!SendCommit, Postgres!ServerCommits,
           Postgres!CommitIsLost, Postgres!ServerAborts, Postgres!Acknowledged,
           Postgres!CommitFails, Postgres!Resolve, Postgres!ResolveFails, Postgres!client,
           Postgres!Goto, Postgres!Becomes, Postgres!Answers, PgAtWork, PgControl
  <2>2. row' = row /\ expected' = expected
    BY <1>0, <1>3, <2>1
       DEF Postgres!Step, Postgres!ReadSnapshot, Postgres!Rejects, Postgres!MutatorThrows,
           Postgres!RollsBack, Postgres!QueryFails, Postgres!SendCommit, Postgres!CommitIsLost,
           Postgres!ServerAborts, Postgres!Acknowledged, Postgres!CommitFails, Postgres!Resolve,
           Postgres!ResolveFails, Postgres!client, Postgres!server, PgControl, PgAtWork
  <2> QED
    BY <1>0, <2>1, <2>2 DEF PgSees, Postgres!Mutates
<1> QED
  BY <1>1, <1>2, <1>3

LEMMA OwnCommit ==
  ASSUME PgConstants, PgInv, NEW c \in Call, Postgres!Step(c)
  PROVE  PgMade(c)'
<1>0. /\ Postgres!TypeOK /\ PgControl(c) /\ PgMade(c) /\ PgComplete(row, log)
      /\ PgAtWork(c) => PgSees(c)
  BY DEF PgInv, PgCallInv
<1>1. callKind' = callKind /\ early \subseteq early'
  BY DEF Postgres!Step, Postgres!ReadSnapshot, Postgres!Lock, Postgres!Rejects,
         Postgres!MutatorThrows, Postgres!RollsBack, Postgres!Write, Postgres!QueryFails,
         Postgres!SendCommit, Postgres!ServerCommits, Postgres!CommitIsLost,
         Postgres!ServerAborts, Postgres!Acknowledged, Postgres!CommitFails, Postgres!Resolve,
         Postgres!ResolveFails, Postgres!client
<1>2. CASE Postgres!ServerCommits(c)
  <2>1. /\ session'[c] = "committed" /\ reply' = reply /\ row' = view[c].row
        /\ session[c] = "committing" /\ stage[c] # "locked"
    BY <1>0, <1>2, PgFacts
       DEF Postgres!ServerCommits, Postgres!Becomes, Postgres!client, PgControl
  <2>2. PgSees(c)
    BY <1>0, <2>1 DEF PgAtWork
  <2>3. Postgres!Mutates(c) => c \in Postgres!Members(row'.commits)
    BY <1>0, <2>1, <2>2, CommitMembers DEF PgSees
  <2> QED
    BY <1>0, <1>1, <2>1, <2>3 DEF PgMade, Postgres!Mutates
<1>3. CASE ~Postgres!ServerCommits(c)
  <2>1. row' = row
    BY <1>3, ServerStep
       DEF Postgres!Step, Postgres!ReadSnapshot, Postgres!Lock, Postgres!Rejects,
           Postgres!MutatorThrows, Postgres!RollsBack, Postgres!Write, Postgres!QueryFails,
           Postgres!SendCommit, Postgres!CommitIsLost, Postgres!ServerAborts,
           Postgres!Acknowledged, Postgres!CommitFails, Postgres!Resolve, Postgres!ResolveFails,
           Postgres!server
  <2>2. (session[c] = "committed") <=> (session'[c] = "committed")
    BY <1>0, <1>3, PgFacts
       DEF Postgres!Step, Postgres!ReadSnapshot, Postgres!Lock, Postgres!Rejects,
           Postgres!MutatorThrows, Postgres!RollsBack, Postgres!Write, Postgres!QueryFails,
           Postgres!SendCommit, Postgres!CommitIsLost, Postgres!ServerAborts,
           Postgres!Acknowledged, Postgres!CommitFails, Postgres!Resolve, Postgres!ResolveFails,
           Postgres!Becomes, PgControl
  <2>3. CASE Postgres!Resolve(c)
    <3>1. /\ stage[c] = "resolving" /\ session' = session
          /\ reply'[c] = IF c \in Postgres!Members(log) THEN "ok" ELSE "not applied"
          /\ session[c] = "committing" => c \in early'
      BY <1>0, <2>3, PgFacts DEF Postgres!Resolve, Postgres!Answers
    <3>2. ASSUME c \notin Postgres!Members(log) PROVE session[c] # "committed"
      <4>1. ASSUME c \in Postgres!Members(row.commits) PROVE FALSE
        <5>1. Postgres!Members(<<Earlier>>) = {Earlier}
          BY DEF Postgres!Members
        <5> QED
          BY <1>0, <3>2, <4>1, <5>1 DEF PgComplete, PgConstants
      <4> QED
        BY <1>0, <3>1, <4>1 DEF PgMade, PgControl
    <3>3. Postgres!Members(log) \subseteq Postgres!Members(row.commits)
      BY <1>0 DEF PgComplete, Postgres!Members
    <3>4. c \in Postgres!Members(log) => session[c] = "committed"
      BY <1>0, <3>3 DEF PgMade
    <3> QED
      BY <1>0, <1>1, <2>1, <3>1, <3>2, <3>4 DEF PgMade, Postgres!Mutates, PgControl
  <2>4. CASE ~Postgres!Resolve(c)
    <3>1. reply'[c] = "not applied" => reply[c] = "not applied" /\ stage[c] = "done"
      BY <1>0, <1>3, <2>4, PgFacts
         DEF Postgres!Step, Postgres!ReadSnapshot, Postgres!Lock, Postgres!Rejects,
             Postgres!MutatorThrows, Postgres!RollsBack, Postgres!Write, Postgres!QueryFails,
             Postgres!SendCommit, Postgres!CommitIsLost, Postgres!ServerAborts,
             Postgres!Acknowledged, Postgres!CommitFails, Postgres!ResolveFails, Postgres!Answers,
             Postgres!client, PgControl
    <3>2. stage[c] = "done" /\ session[c] = "aborted" => session'[c] = "aborted"
      BY <1>0, <1>3, PgFacts
         DEF Postgres!Step, Postgres!ReadSnapshot, Postgres!Lock, Postgres!Rejects,
             Postgres!MutatorThrows, Postgres!RollsBack, Postgres!Write, Postgres!QueryFails,
             Postgres!SendCommit, Postgres!CommitIsLost, Postgres!ServerAborts,
             Postgres!Acknowledged, Postgres!CommitFails, Postgres!Resolve, Postgres!ResolveFails,
             Postgres!Becomes
    <3>3. reply'[c] = "ok" => reply[c] = "ok" \/ session'[c] = "committed"
      BY <1>0, <1>3, <2>4, PgFacts
         DEF Postgres!Step, Postgres!ReadSnapshot, Postgres!Lock, Postgres!Rejects,
             Postgres!MutatorThrows, Postgres!RollsBack, Postgres!Write, Postgres!QueryFails,
             Postgres!SendCommit, Postgres!CommitIsLost, Postgres!ServerAborts,
             Postgres!Acknowledged, Postgres!CommitFails, Postgres!ResolveFails, Postgres!Answers,
             Postgres!client, PgControl
    <3> QED
      BY <1>0, <1>1, <2>1, <2>2, <3>1, <3>2, <3>3 DEF PgMade, Postgres!Mutates
  <2> QED
    BY <2>3, <2>4
<1> QED
  BY <1>2, <1>3

LEMMA PgStep == ASSUME PgConstants, PgInv, [Postgres!Next]_(Postgres!pgVars) PROVE PgInv'
<1>1. Postgres!TypeOK'
  BY PgTypeStep DEF PgInv
<1>2. CASE UNCHANGED Postgres!pgVars
  <2>1. UNCHANGED <<row, log, holder, callKind, expected, stage, view, session, reply, early>>
    BY <1>2 DEF Postgres!pgVars, Postgres!server, Postgres!client
  <2>2. PgComplete(row, log)'
    BY <2>1 DEF PgInv, PgComplete
  <2>3. \A c \in Call : PgCallInv(c)'
    BY <2>1 DEF PgInv, PgCallInv, PgControl, PgAtWork, PgSees, PgMade, Postgres!Mutates
  <2> QED
    BY <1>1, <2>2, <2>3 DEF PgInv
<1>3. ASSUME NEW c \in Call, Postgres!Step(c) PROVE PgInv'
  <2>1. PgCallInv(c)'
    BY <1>3, OwnControl, OwnView, OwnCommit DEF PgCallInv
  <2>2. \A d \in Call \ {c} : PgCallInv(d)'
    BY <1>3, PgOthersStay
  <2> QED
    BY <1>1, <1>3, <2>1, <2>2, CompleteStep DEF PgInv
<1> QED
  BY <1>2, <1>3 DEF Postgres!Next

\* PgInv holds throughout.
THEOREM PostgresInvariance == ASSUME PgConstants PROVE Postgres!Spec => []PgInv
<1>1. Postgres!Init => PgInv
  BY PgInit
<1>2. PgInv /\ [Postgres!Next]_(Postgres!pgVars) => PgInv'
  BY PgStep
<1> QED
  BY <1>1, <1>2, PTL DEF Postgres!Spec

\* What is read in the log is true, of the state and of a COMMIT whose answer
\* was lost.
THEOREM PostgresLogTellsTheTruth == ASSUME PgConstants
  PROVE Postgres!Spec => []Postgres!LogTellsTheTruth
<1>1. ASSUME PgInv PROVE Postgres!LogIsTheHistory
  <2>1. Postgres!Members(<<Earlier>>) = {Earlier}
    BY DEF Postgres!Members
  <2> QED
    BY <1>1, <2>1 DEF PgInv, PgComplete, Postgres!LogIsTheHistory, PgConstants
<1>2. ASSUME PgInv PROVE Postgres!DeniedOnlyInFlight
  BY <1>2 DEF PgInv, PgCallInv, PgMade, Postgres!DeniedOnlyInFlight
<1>3. PgInv => Postgres!LogTellsTheTruth
  BY <1>1, <1>2 DEF Postgres!LogTellsTheTruth
<1> QED
  BY <1>3, PostgresInvariance, PTL

-----------------------------------------------------------------------------
(* Refinement of RevisionedStore *)

\* What the callers were told, as a function.
Told == [c \in Call |-> Postgres!Outcome(c)]

\* A step that does not answer a mutation leaves what was told alone.
LEMMA ToldStays ==
  ASSUME Postgres!TypeOK, UNCHANGED <<callKind, reply>>
  PROVE  Told' = Told
  BY PgFacts DEF Told, Postgres!Outcome, Postgres!Mutates

\* An answer to a call is told to it alone.
LEMMA ToldOne ==
  ASSUME Postgres!TypeOK, callKind' = callKind, NEW c \in Call, NEW answer \in PgReply,
         reply' = [reply EXCEPT ![c] = answer]
  PROVE  Told' = [Told EXCEPT ![c] =
           IF Postgres!Mutates(c) /\ answer = "ok" THEN "ok"
           ELSE IF Postgres!Mutates(c)
             /\ answer \in {"error", "conflict"} THEN "refused" ELSE "none"]
<1>1. \A d \in Call : reply'[d] = IF d = c THEN answer ELSE reply[d]
  BY PgFacts
<1>2. \A d \in Call \ {c} : Postgres!Outcome(d)' = Postgres!Outcome(d)
  BY <1>1 DEF Postgres!Outcome, Postgres!Mutates
<1>3. Postgres!Outcome(c)' = IF Postgres!Mutates(c) /\ answer = "ok" THEN "ok"
           ELSE IF Postgres!Mutates(c)
             /\ answer \in {"error", "conflict"} THEN "refused" ELSE "none"
  <2>1. reply'[c] = answer
    BY <1>1
  <2> QED
    BY <2>1 DEF Postgres!Outcome, Postgres!Mutates
<1> QED
  BY <1>2, <1>3 DEF Told

\* The steps that move neither the state nor what was told.
LEMMA SilentSteps ==
  ASSUME PgInv, NEW c \in Call,
         \/ Postgres!Lock(c) \/ Postgres!Write(c) \/ Postgres!SendCommit(c)
              \/ Postgres!CommitIsLost(c) \/ Postgres!ServerAborts(c)
  PROVE  UNCHANGED <<row, expected, Told>>
<1>1. UNCHANGED <<row, expected, callKind, reply>>
  BY DEF Postgres!Lock, Postgres!Write, Postgres!SendCommit, Postgres!CommitIsLost,
         Postgres!ServerAborts, Postgres!client, Postgres!server
<1> QED
  BY <1>1, ToldStays DEF PgInv

\* A snapshot is read: the call expects its revision.
LEMMA SnapshotExpects ==
  ASSUME PgInv, NEW c \in Call, Postgres!ReadSnapshot(c)
  PROVE  Postgres!Promised!Expect(c)
<1>0. Postgres!TypeOK /\ PgCallInv(c) /\ row.revision = Len(row.commits)
  BY DEF PgInv, PgComplete
<1>1. /\ stage[c] = "idle" /\ UNCHANGED <<row, callKind, reply>>
      /\ expected' = [expected EXCEPT ![c] = row.revision]
  BY DEF Postgres!ReadSnapshot, Postgres!server
<1>2. c \notin Postgres!Members(row.commits) /\ expected[c] = 0 /\ Postgres!Outcome(c) = "none"
  BY <1>0, <1>1 DEF PgCallInv, PgControl, PgMade, Postgres!Outcome
<1> QED
  BY <1>0, <1>1, <1>2, ToldStays
     DEF Postgres!Promised!Expect, Postgres!Promised!Members, Postgres!Members, Told

\* The server commits: the call's commit is applied, or nothing is.
LEMMA CommitApplies ==
  ASSUME PgInv, NEW c \in Call, Postgres!ServerCommits(c)
  PROVE  Postgres!Promised!Apply(c) \/ UNCHANGED <<row, expected, Told>>
<1>0. /\ Postgres!TypeOK /\ PgControl(c) /\ PgMade(c) /\ session[c] = "committing"
           /\ stage[c] # "locked"
      /\ row' = view[c].row /\ UNCHANGED <<callKind, reply, expected>>
      /\ row.revision = Len(row.commits)
  BY DEF PgInv, PgCallInv, PgControl, Postgres!ServerCommits, Postgres!client, PgComplete
<1>1. Told' = Told
  BY <1>0, ToldStays
<1>2. PgSees(c)
  BY <1>0 DEF PgInv, PgCallInv, PgAtWork
<1>3. CASE view[c].row = row
  BY <1>0, <1>1, <1>3
<1>4. CASE view[c].row = Postgres!Commits(row, c) /\ expected[c] \in {0, row.revision}
  <2>1. c \notin Postgres!Members(row.commits)
    BY <1>0 DEF PgMade
  <2>2. Postgres!Outcome(c) = "none"
    <3>1. ~Postgres!Mutates(c) \/ reply[c] \notin {"ok", "error", "conflict"}
      BY <1>0 DEF PgControl, PgMade
    <3> QED
      BY <3>1 DEF Postgres!Outcome
  <2>3. row'.commits = Append(row.commits, c)
    BY <1>0, <1>4, CommitMembers
  <2> QED
    BY <1>0, <1>1, <1>4, <2>1, <2>2, <2>3
       DEF Postgres!Promised!Apply, Postgres!Promised!Members, Postgres!Members, Told
<1> QED
  BY <1>0, <1>2, <1>3, <1>4 DEF PgSees

\* An answer is true when it is given: "ok" of a commit that is there, an error
\* of one that will never be.
LEMMA AnswersAreHonest ==
  ASSUME PgInv, NEW c \in Call,
         \/ Postgres!Rejects(c) \/ Postgres!MutatorThrows(c) \/ Postgres!QueryFails(c)
              \/ Postgres!Acknowledged(c)
         \/ Postgres!CommitFails(c) \/ Postgres!Resolve(c) \/ Postgres!ResolveFails(c)
  PROVE  \/ Postgres!Promised!Acknowledge(c) \/ Postgres!Promised!Refuse(c)
         \/ UNCHANGED <<row, expected, Told>>
<1>0. /\ Postgres!TypeOK /\ PgControl(c) /\ PgMade(c) /\ UNCHANGED <<row, callKind, expected>>
      /\ PgComplete(row, log)
  BY DEF PgInv, PgCallInv, Postgres!Rejects, Postgres!MutatorThrows, Postgres!RollsBack,
         Postgres!QueryFails, Postgres!Acknowledged, Postgres!CommitFails, Postgres!Resolve,
         Postgres!ResolveFails, Postgres!server
<1>1. stage[c] # "done" /\ reply[c] = "none"
  BY <1>0
     DEF Postgres!Rejects, Postgres!MutatorThrows, Postgres!RollsBack, Postgres!QueryFails,
         Postgres!Acknowledged, Postgres!CommitFails, Postgres!Resolve, Postgres!ResolveFails,
         PgControl
<1>2. PICK answer \in PgReply :
        /\ reply' = [reply EXCEPT ![c] = answer]
        /\ Postgres!Mutates(c) /\ answer = "ok" => c \in Postgres!Members(row.commits)
        /\ Postgres!Mutates(c) /\ answer \in {"error", "conflict"} =>
             c \notin Postgres!Members(row.commits)
  <2>1. CASE Postgres!CommitFails(c) /\ Postgres!Mutates(c)
    <3>1. reply' = [reply EXCEPT ![c] = "none"]
      BY <1>0, <1>1, <2>1, PgFacts DEF Postgres!CommitFails
    <3> QED
      BY <3>1 DEF PgReply
  <2>2. CASE Postgres!CommitFails(c) /\ ~Postgres!Mutates(c)
    BY <2>2 DEF Postgres!CommitFails, Postgres!Answers, PgReply
  <2>3. CASE Postgres!Rejects(c) \/ Postgres!MutatorThrows(c) \/ Postgres!QueryFails(c)
    <3>1. c \notin Postgres!Members(row.commits)
      BY <1>0, <2>3
         DEF Postgres!Rejects, Postgres!MutatorThrows, Postgres!QueryFails, PgControl, PgMade
    <3>2. \E answer \in {"error", "conflict"} : reply' = [reply EXCEPT ![c] = answer]
      BY <2>3
         DEF Postgres!Rejects, Postgres!MutatorThrows, Postgres!RollsBack, Postgres!QueryFails,
             Postgres!Answers
    <3> QED
      BY <3>1, <3>2 DEF PgReply
  <2>4. CASE Postgres!Acknowledged(c)
    BY <1>0, <2>4 DEF Postgres!Acknowledged, Postgres!Answers, PgMade, PgReply
  <2>5. CASE Postgres!Resolve(c)
    <3>1. reply' = [reply EXCEPT ![c] = IF c \in Postgres!Members(log) THEN "ok"
            ELSE "not applied"]
      BY <2>5 DEF Postgres!Resolve, Postgres!Answers
    <3>2. Postgres!Members(log) \subseteq Postgres!Members(row.commits)
      BY <1>0 DEF PgComplete, Postgres!Members
    <3> QED
      BY <3>1, <3>2 DEF PgReply
  <2>6. CASE Postgres!ResolveFails(c)
    BY <2>6 DEF Postgres!ResolveFails, Postgres!Answers, PgReply
  <2> QED
    BY <2>1, <2>2, <2>3, <2>4, <2>5, <2>6
<1>3. Postgres!Outcome(c) = "none" /\ Told[c] = "none"
  BY <1>1 DEF Postgres!Outcome, Told
<1>4. CASE Postgres!Mutates(c) /\ answer = "ok"
  <2>1. Told' = [Told EXCEPT ![c] = "ok"]
    BY <1>0, <1>2, <1>4, ToldOne
  <2> QED
    BY <1>0, <1>2, <1>3, <1>4, <2>1
       DEF Postgres!Promised!Acknowledge, Postgres!Promised!Members, Postgres!Members, Told
<1>5. CASE Postgres!Mutates(c) /\ answer \in {"error", "conflict"}
  <2>1. Told' = [Told EXCEPT ![c] = "refused"]
    BY <1>0, <1>2, <1>5, ToldOne
  <2> QED
    BY <1>0, <1>2, <1>3, <1>5, <2>1
       DEF Postgres!Promised!Refuse, Postgres!Promised!Members, Postgres!Members, Told
<1>6. CASE ~Postgres!Mutates(c) \/ answer \notin {"ok", "error", "conflict"}
  <2>1. Told' = [Told EXCEPT ![c] = "none"]
    BY <1>0, <1>2, <1>6, ToldOne
  <2>2. Told' = Told
    BY <1>3, <2>1 DEF Told
  <2> QED
    BY <1>0, <2>2
<1> QED
  BY <1>4, <1>5, <1>6

\* The backend keeps the promise of a store that several runtimes share:
\* nothing is lost or made twice, a compare and commit follows the revision it
\* expected, and what a caller was told stays true.
THEOREM PostgresKeepsPromise == ASSUME PgConstants PROVE Postgres!Spec => Postgres!KeepsPromise
<1>1. Postgres!Init => Postgres!Promised!Init
  <2> SUFFICES ASSUME Postgres!Init PROVE Postgres!Promised!Init
    OBVIOUS
  <2>1. row.commits \in {<<>>, <<Earlier>>}
    BY DEF Postgres!Init, Postgres!NoRow
  <2>2. [c \in Call |-> Postgres!Outcome(c)] = [c \in Call |-> "none"]
    BY DEF Postgres!Init, Postgres!Outcome
  <2> QED
    BY <2>1, <2>2 DEF Postgres!Init, Postgres!Promised!Init
<1>2. PgInv /\ [Postgres!Next]_(Postgres!pgVars) =>
        [Postgres!Promised!Next]_(Postgres!Promised!store)
  <2> SUFFICES ASSUME PgInv, [Postgres!Next]_(Postgres!pgVars)
               PROVE  Postgres!Promised!Next \/ UNCHANGED <<row, expected, Told>>
    BY DEF Postgres!Promised!store, Told
  <2>1. CASE UNCHANGED Postgres!pgVars
    <3>1. UNCHANGED <<row, expected, callKind, reply>>
      BY <2>1 DEF Postgres!pgVars, Postgres!server, Postgres!client
    <3> QED
      BY <3>1, ToldStays DEF PgInv
  <2>2. ASSUME NEW c \in Call, Postgres!Step(c)
        PROVE  Postgres!Promised!Next \/ UNCHANGED <<row, expected, Told>>
    BY <2>2, SilentSteps, SnapshotExpects, CommitApplies, AnswersAreHonest
       DEF Postgres!Step, Postgres!Promised!Next
  <2> QED
    BY <2>1, <2>2 DEF Postgres!Next
<1> QED
  BY <1>1, <1>2, PostgresInvariance, PTL DEF Postgres!Spec, Postgres!KeepsPromise

-----------------------------------------------------------------------------
(* The cleanup *)

\* What is asked of the constants: the names of operations and directories are
\* different, and a cleanup's "nothing" is not one of them.
CleanConstants ==
  /\ Mission \notin Op \cup {Stray} /\ Stray \notin Op
  /\ Nothing \notin Op \cup {Mission, Stray}

CleanDir == Op \cup {Mission, Stray}
OpPlace == {"idle", "reserve", "create", "reclaim", "dispatch", "working", "idling",
          "remove", "undo", "unlease", "ref", "record", "done", "dead"}
OpStatus == {"none", "started", "completed", "failed", "unknown"}
CleanStage == {"idle", "blocked", "list", "check", "remove", "stopped", "prune",
               "refs", "check refs", "remove ref", "done"}

OpTypes ==
  /\ opKind \in [Op -> DOMAIN Cleanup!Does] /\ dir \in [Op -> CleanDir]
  /\ opTool \in [Op -> Cleanup!Validating \cup Cleanup!Producing]
  /\ at \in [Op -> OpPlace] /\ request \in [Op -> OpStatus]
WorldTypes ==
  /\ dirs \subseteq CleanDir /\ registered \subseteq CleanDir /\ referenced \subseteq CleanDir
  /\ refs \subseteq Op \cup {Stray} /\ owned \subseteq Op
  /\ hit \subseteq Op /\ late \subseteq Op /\ undone \subseteq Op
CleanerTypes ==
  /\ cleaning \in [Cleaner -> CleanStage]
  /\ orphans \in [Cleaner -> SUBSET CleanDir] /\ seen \in [Cleaner -> SUBSET Op]
  /\ target \in [Cleaner -> CleanDir \cup {Nothing}]

LEMMA CleanTypes == /\ Cleanup!TypeOK <=> OpTypes /\ WorldTypes /\ CleanerTypes
                    /\ Cleanup!TypeOK' <=> OpTypes' /\ WorldTypes' /\ CleanerTypes'
  BY DEF Cleanup!TypeOK, OpTypes, WorldTypes, CleanerTypes, CleanDir, OpPlace, OpStatus,
         CleanStage

LEMMA CleanTypeInit == Cleanup!Init => Cleanup!TypeOK
<1> SUFFICES ASSUME Cleanup!Init PROVE OpTypes /\ WorldTypes /\ CleanerTypes
  BY CleanTypes
<1>1. OpTypes
  BY DEF Cleanup!Init, OpTypes, CleanDir, OpPlace, OpStatus
<1>2. WorldTypes
  BY DEF Cleanup!Init, WorldTypes, CleanDir
<1>3. CleanerTypes
  BY DEF Cleanup!Init, CleanerTypes, CleanDir, CleanStage
<1> QED
  BY <1>1, <1>2, <1>3

\* What a step of an operation does to what operations have and to the world.
LEMMA OpTypeStep ==
  ASSUME OpTypes, WorldTypes, CleanerTypes, NEW o \in Op, Cleanup!Operate(o)
  PROVE  OpTypes' /\ WorldTypes' /\ CleanerTypes'
<1>1. UNCHANGED <<opKind, opTool, dir, Cleanup!cleanVars>>
  BY DEF Cleanup!Operate, Cleanup!Begin, Cleanup!Arrives, Cleanup!Reserve, Cleanup!Create,
         Cleanup!Dispatch,
         Cleanup!Work, Cleanup!RemoveOwn, Cleanup!Unlease, Cleanup!CreateRef,
         Cleanup!RecordCandidate, Cleanup!Crash
<1>2. CleanerTypes'
  BY <1>1 DEF CleanerTypes, Cleanup!cleanVars
<1>3. at' \in [Op -> OpPlace]
  BY DEF Cleanup!Operate, Cleanup!Begin, Cleanup!Arrives, Cleanup!Reserve, Cleanup!Create,
         Cleanup!Dispatch,
         Cleanup!Work, Cleanup!RemoveOwn, Cleanup!Unlease, Cleanup!CreateRef,
         Cleanup!RecordCandidate, Cleanup!Crash, Cleanup!Goto, Cleanup!Ends, OpTypes, OpPlace
<1>4. request' \in [Op -> OpStatus]
  BY DEF Cleanup!Operate, Cleanup!Begin, Cleanup!Arrives, Cleanup!Reserve, Cleanup!Create,
         Cleanup!Dispatch,
         Cleanup!Work, Cleanup!RemoveOwn, Cleanup!Unlease, Cleanup!CreateRef,
         Cleanup!RecordCandidate, Cleanup!Crash, Cleanup!Ends, OpTypes, OpStatus
<1>5. dir[o] \in CleanDir /\ o \in CleanDir
  BY DEF OpTypes, CleanDir
<1>6. /\ dirs' \subseteq dirs \cup {dir[o]} /\ registered' \subseteq registered \cup {dir[o]}
      /\ referenced' \subseteq referenced \cup {dir[o]}
  BY DEF Cleanup!Operate, Cleanup!Begin, Cleanup!Arrives, Cleanup!Reserve, Cleanup!Create,
         Cleanup!Dispatch,
         Cleanup!Work, Cleanup!RemoveOwn, Cleanup!Unlease, Cleanup!CreateRef,
         Cleanup!RecordCandidate, Cleanup!Crash, Cleanup!world
<1>7. /\ refs' \subseteq refs \cup {o} /\ owned' \subseteq owned \cup {o}
      /\ hit' = hit /\ late' \subseteq late \cup {o} /\ undone' \subseteq undone \cup {o}
  BY DEF Cleanup!Operate, Cleanup!Begin, Cleanup!Arrives, Cleanup!Reserve, Cleanup!Create,
         Cleanup!Dispatch,
         Cleanup!Work, Cleanup!RemoveOwn, Cleanup!Unlease, Cleanup!CreateRef,
         Cleanup!RecordCandidate, Cleanup!Crash, Cleanup!world, Cleanup!history
<1>8. WorldTypes'
  BY <1>5, <1>6, <1>7 DEF WorldTypes
<1> QED
  BY <1>1, <1>2, <1>3, <1>4, <1>8 DEF OpTypes

LEMMA CleanerTypeStep ==
  ASSUME OpTypes, WorldTypes, CleanerTypes, NEW k \in Cleaner, Cleanup!Clean(k)
  PROVE  OpTypes' /\ WorldTypes' /\ CleanerTypes'
<1>1. OpTypes'
  BY DEF OpTypes, Cleanup!Clean, Cleanup!ReadState, Cleanup!SkipWorktrees,
         Cleanup!ListDirectories, Cleanup!CheckDirectory, Cleanup!RemoveDirectory,
         Cleanup!CheckPrune, Cleanup!Prune, Cleanup!ListRefs, Cleanup!CheckRef, Cleanup!RemoveRef,
         Cleanup!Finish, Cleanup!opVars
<1>2. /\ dirs' \subseteq dirs /\ registered' \subseteq registered /\ referenced' = referenced
      /\ refs' \subseteq refs /\ owned' = owned /\ hit' \subseteq Op
      /\ late' = late /\ undone' = undone
  BY DEF WorldTypes, Cleanup!Clean, Cleanup!ReadState, Cleanup!SkipWorktrees,
         Cleanup!ListDirectories, Cleanup!CheckDirectory, Cleanup!RemoveDirectory,
         Cleanup!CheckPrune, Cleanup!Prune, Cleanup!ListRefs, Cleanup!CheckRef, Cleanup!RemoveRef,
         Cleanup!Finish, Cleanup!world, Cleanup!history
<1>3. cleaning' \in [Cleaner -> CleanStage]
  BY DEF CleanerTypes, Cleanup!Clean, Cleanup!ReadState, Cleanup!SkipWorktrees,
         Cleanup!ListDirectories, Cleanup!CheckDirectory, Cleanup!RemoveDirectory,
         Cleanup!CheckPrune, Cleanup!Prune, Cleanup!ListRefs, Cleanup!CheckRef, Cleanup!RemoveRef,
         Cleanup!Finish, Cleanup!CGoto, CleanStage
<1>4. seen' \in [Cleaner -> SUBSET Op]
  BY DEF CleanerTypes, WorldTypes, Cleanup!Clean, Cleanup!ReadState, Cleanup!SkipWorktrees,
         Cleanup!ListDirectories, Cleanup!CheckDirectory, Cleanup!RemoveDirectory,
         Cleanup!CheckPrune, Cleanup!Prune, Cleanup!ListRefs, Cleanup!CheckRef, Cleanup!RemoveRef,
         Cleanup!Finish
<1>5. dirs \subseteq CleanDir /\ referenced \subseteq CleanDir /\ refs \subseteq CleanDir
        /\ orphans[k] \subseteq CleanDir
  BY DEF WorldTypes, CleanerTypes, CleanDir
<1>6. orphans' \in [Cleaner -> SUBSET CleanDir]
  <2>1. PICK new \in SUBSET CleanDir : orphans' = [orphans EXCEPT ![k] = new]
    <3>1. CASE Cleanup!ReadState(k)
      BY <1>5, <3>1 DEF Cleanup!ReadState
    <3>2. CASE Cleanup!ListDirectories(k)
      BY <1>5, <3>2 DEF Cleanup!ListDirectories
    <3>3. CASE Cleanup!ListRefs(k)
      BY <1>5, <3>3 DEF Cleanup!ListRefs
    <3>4. CASE Cleanup!CheckDirectory(k)
      BY <1>5, <3>4 DEF Cleanup!CheckDirectory
    <3>5. CASE Cleanup!CheckRef(k)
      BY <1>5, <3>5 DEF Cleanup!CheckRef
    <3>6. CASE ~(Cleanup!ReadState(k) \/ Cleanup!ListDirectories(k) \/ Cleanup!ListRefs(k)
                 \/ Cleanup!CheckDirectory(k) \/ Cleanup!CheckRef(k))
      <4>1. orphans' = orphans
        BY <3>6
           DEF Cleanup!Clean, Cleanup!SkipWorktrees, Cleanup!RemoveDirectory, Cleanup!CheckPrune,
               Cleanup!Prune, Cleanup!RemoveRef, Cleanup!Finish
      <4>2. orphans' = [orphans EXCEPT ![k] = orphans[k]]
        BY <4>1 DEF CleanerTypes
      <4> QED
        BY <1>5, <4>2
    <3> QED
      BY <3>1, <3>2, <3>3, <3>4, <3>5, <3>6
  <2> QED
    BY <2>1 DEF CleanerTypes
<1>7. target' \in [Cleaner -> CleanDir \cup {Nothing}]
  <2>1. CASE Cleanup!CheckDirectory(k) \/ Cleanup!CheckRef(k)
    <3>1. target' = target \/ \E d \in orphans[k] : target' = [target EXCEPT ![k] = d]
      BY <2>1 DEF Cleanup!CheckDirectory, Cleanup!CheckRef
    <3> QED
      BY <1>5, <3>1 DEF CleanerTypes
  <2>2. CASE ~Cleanup!CheckDirectory(k) /\ ~Cleanup!CheckRef(k)
    BY <2>2
       DEF CleanerTypes, Cleanup!Clean, Cleanup!ReadState, Cleanup!SkipWorktrees,
           Cleanup!ListDirectories, Cleanup!RemoveDirectory, Cleanup!CheckPrune, Cleanup!Prune,
           Cleanup!ListRefs, Cleanup!RemoveRef, Cleanup!Finish
  <2> QED
    BY <2>1, <2>2
<1>8. WorldTypes'
  BY <1>2 DEF WorldTypes
<1>9. CleanerTypes'
  BY <1>3, <1>4, <1>6, <1>7 DEF CleanerTypes
<1> QED
  BY <1>1, <1>8, <1>9

LEMMA CleanTypeStep == Cleanup!TypeOK /\ [Cleanup!Next]_(Cleanup!cleanupVars) => Cleanup!TypeOK'
<1> SUFFICES ASSUME OpTypes, WorldTypes, CleanerTypes, [Cleanup!Next]_(Cleanup!cleanupVars)
             PROVE  OpTypes' /\ WorldTypes' /\ CleanerTypes'
  BY CleanTypes
<1>1. CASE Cleanup!CloseMission
  BY <1>1
     DEF Cleanup!CloseMission, Cleanup!opVars, Cleanup!cleanVars, Cleanup!history, OpTypes,
         WorldTypes, CleanerTypes
<1>2. CASE UNCHANGED Cleanup!cleanupVars
  BY <1>2
     DEF Cleanup!cleanupVars, Cleanup!opVars, Cleanup!world, Cleanup!cleanVars, Cleanup!history,
         OpTypes, WorldTypes, CleanerTypes
<1> QED
  BY <1>1, <1>2, OpTypeStep, CleanerTypeStep DEF Cleanup!Next
-----------------------------------------------------------------------------
(* The invariant.  RemovesOnlyOrphans is not inductive: it says nothing of  *)
(* a directory, or of a ref, that a cleanup has found to be an orphan and   *)
(* has not removed yet.                                                     *)

\* Only sessions meet in a directory; it is not that of the mission.  Tasks are
\* not of validation_run, and candidates are of the tools that produce them.
DirInv ==
  /\ \A o \in Op : opKind[o] \in {"task", "live_session"} => dir[o] \in {o, Stray}
  /\ \A o, p \in Op : o # p /\ dir[o] = dir[p] /\ dir[o] # Mission =>
       opKind[o] = "live_session" /\ opKind[p] = "live_session"
  /\ \A o \in Op : /\ opKind[o] = "task" => opTool[o] # "validation_run"
                   /\ opKind[o] = "candidate" => opTool[o] \in Cleanup!Producing

\* The request of an operation is started while it is at work.
RequestInv(o) ==
  /\ at[o] = "idle" => request[o] = "none"
  /\ at[o] \in {"reserve", "create", "reclaim", "dispatch", "working", "remove", "undo", "ref",
                "record"} => request[o] = "started"
  /\ at[o] = "idling" => request[o] = "completed"
  /\ at[o] = "unlease" => request[o] \in {"started", "completed"}
  /\ at[o] = "done" => request[o] \in {"completed", "failed", "unknown"}
  /\ at[o] = "dead" => request[o] \in {"unknown", "completed"}
  /\ at[o] \in {"reserve", "reclaim", "idling", "unlease"} => opKind[o] = "live_session"
  /\ at[o] = "dispatch" => opKind[o] = "task"
  /\ at[o] = "remove" => opKind[o] # "live_session"
  /\ at[o] \in {"ref", "record"} => opKind[o] = "candidate"
  /\ at[o] = "dead" /\ request[o] = "completed" => opKind[o] = "live_session"

\* A session at work has the lease of its directory.
HasLease(o) == opKind[o] = "live_session" /\ at[o] \in Cleanup!Leased
LeaseInv ==
  /\ \A o \in Op : HasLease(o) => dir[o] \in referenced
  /\ \A o, p \in Op : HasLease(o) /\ HasLease(p) /\ dir[o] = dir[p] => o = p

\* An operation that is waited for does not work in a directory that is about to
\* go, and the state does not refer to that of another, unless the operation has
\* come after the last look at the state.
Settled(o) == at[o] \in {"unlease", "done", "dead"} /\ request[o] \in {"completed", "failed"}
Spared(o, d) ==
  /\ dir[o] = d => at[o] = "idle" \/ o \in late \/ Settled(o)
  /\ d = Mission /\ opKind[o] = "task" =>
       at[o] \notin {"create", "dispatch", "working"}
RefersTo(o) == HasLease(o) \/ (opKind[o] # "live_session" /\ dir[o] \in referenced)
DirectoryGoes(k) ==
  cleaning[k] = "remove" =>
    /\ \A o \in Op : opTool[o] \in Cleanup!Fenced => Spared(o, target[k])
    /\ \A o \in Op : dir[o] = target[k] /\ RefersTo(o) => o \in late
    /\ target[k] = Mission => Mission \notin referenced

\* Who has made a ref makes it once; one that is about to go is of an operation
\* that is over and has left no candidate.
MadeRef(r) == r \in Op => opKind[r] = "candidate" /\ at[r] \in {"record", "done", "dead"}
RefGoes(k) ==
  /\ cleaning[k] \in {"check refs", "remove ref"} => \A r \in orphans[k] : MadeRef(r)
  /\ cleaning[k] = "remove ref" =>
       target[k] \notin owned /\ (target[k] \in Op => at[target[k]] = "done")
RefInv ==
  /\ \A r \in refs : MadeRef(r)
  /\ \A o \in Op : at[o] = "record" => o \in refs
  /\ \A o \in owned : at[o] = "done"

CleanInv ==
  /\ Cleanup!TypeOK /\ DirInv /\ LeaseInv /\ RefInv
  /\ \A o \in Op : RequestInv(o)
  /\ \A k \in Cleaner : DirectoryGoes(k) /\ RefGoes(k)
  /\ Cleanup!RemovesOnlyOrphans

LEMMA CleanInit == ASSUME CleanConstants, Cleanup!Init PROVE CleanInv
<1>1. Cleanup!TypeOK
  BY CleanTypeInit
<1>2. DirInv
  <2>1. ASSUME NEW o \in Op
        PROVE  /\ opKind[o] \in {"task", "live_session"} => dir[o] \in {o, Stray}
               /\ dir[o] \in {o, Stray, Mission}
    BY DEF Cleanup!Init
  <2>2. \A o, p \in Op : o # p /\ dir[o] = Stray /\ dir[p] = Stray =>
          {opKind[o], opKind[p]} = {"live_session"}
    BY DEF Cleanup!Init
  <2>3. ASSUME NEW o \in Op, NEW p \in Op, o # p, dir[o] = dir[p], dir[o] # Mission
        PROVE  opKind[o] = "live_session" /\ opKind[p] = "live_session"
    <3>1. dir[o] = Stray /\ dir[p] = Stray
      BY <2>1, <2>3 DEF CleanConstants
    <3> QED
      BY <2>2, <2>3, <3>1
  <2>4. ASSUME NEW o \in Op
        PROVE  /\ opKind[o] = "task" => opTool[o] # "validation_run"
               /\ opKind[o] = "candidate" => opTool[o] \in Cleanup!Producing
    <3>1. opTool[o] \in Cleanup!Does[opKind[o]]
      BY DEF Cleanup!Init
    <3>2. /\ opKind[o] = "task" => opTool[o] \in Cleanup!Executing
          /\ opKind[o] = "candidate" => opTool[o] \in Cleanup!Producing
      BY <3>1 DEF Cleanup!Does
    <3> QED
      BY <3>2 DEF Cleanup!Executing
  <2> QED
    BY <2>1, <2>3, <2>4 DEF DirInv
<1>3. LeaseInv /\ RefInv
  BY DEF CleanConstants, Cleanup!Init, LeaseInv, HasLease, Cleanup!Leased, RefInv, MadeRef
<1>4. \A o \in Op : RequestInv(o)
  BY DEF Cleanup!Init, RequestInv
<1>5. \A k \in Cleaner : DirectoryGoes(k) /\ RefGoes(k)
  BY DEF Cleanup!Init, DirectoryGoes, RefGoes
<1>6. Cleanup!RemovesOnlyOrphans
  BY DEF Cleanup!Init, Cleanup!RemovesOnlyOrphans, Cleanup!RemovalSparesWork,
         Cleanup!CandidateKeepsItsRef
<1> QED
  BY <1>1, <1>2, <1>3, <1>4, <1>5, <1>6 DEF CleanInv

\* A step of an operation is its own.
LEMMA OperateOne ==
  ASSUME Cleanup!TypeOK, NEW o \in Op, Cleanup!Operate(o)
  PROVE  /\ UNCHANGED <<opKind, opTool, dir, Cleanup!cleanVars>> /\ hit' = hit
         /\ late \subseteq late' /\ late' \subseteq late \cup {o}
         /\ \A p \in Op \ {o} : at'[p] = at[p] /\ request'[p] = request[p]
<1>1. OpTypes
  BY CleanTypes
<1> QED
  BY <1>1
     DEF Cleanup!Operate, Cleanup!Begin, Cleanup!Arrives, Cleanup!Reserve, Cleanup!Create,
            Cleanup!Dispatch,
         Cleanup!Work, Cleanup!RemoveOwn, Cleanup!Unlease, Cleanup!CreateRef,
         Cleanup!RecordCandidate, Cleanup!Crash, Cleanup!history, Cleanup!Goto, Cleanup!Ends,
         OpTypes

\* Where it goes from where.
LEMMA OperateMoves ==
  ASSUME Cleanup!TypeOK, NEW o \in Op, Cleanup!Operate(o), RequestInv(o)
  PROVE  /\ RequestInv(o)' /\ at'[o] # "idle"
         /\ at[o] \in {"unlease", "done", "dead"} => at'[o] \in {"done", "dead"}
         /\ at'[o] \in {"dispatch", "working", "undo", "idling"} =>
              at[o] \in {"create", "reclaim", "dispatch", "working"}
                \/ opKind[o] = "resume"
         /\ Settled(o) => Settled(o)'
<1>1. OpTypes
  BY CleanTypes
<1>2. CASE Cleanup!Begin(o)
  BY <1>1, <1>2 DEF Cleanup!Begin, Cleanup!Arrives, Cleanup!Goto, OpTypes, RequestInv,
         Cleanup!Producing, Settled
<1>3. CASE Cleanup!Reserve(o) \/ Cleanup!Create(o) \/ Cleanup!Dispatch(o)
  BY <1>1, <1>3
     DEF Cleanup!Reserve, Cleanup!Create, Cleanup!Dispatch, Cleanup!Goto, Cleanup!Ends, OpTypes,
         RequestInv, Settled
<1>4. CASE Cleanup!Work(o) \/ Cleanup!RemoveOwn(o) \/ Cleanup!Unlease(o)
  BY <1>1, <1>4
     DEF Cleanup!Work, Cleanup!RemoveOwn, Cleanup!Unlease, Cleanup!Goto, Cleanup!Ends, OpTypes,
         RequestInv, Settled
<1>5. CASE Cleanup!CreateRef(o) \/ Cleanup!RecordCandidate(o)
  BY <1>1, <1>5
     DEF Cleanup!CreateRef, Cleanup!RecordCandidate, Cleanup!Goto, Cleanup!Ends, OpTypes,
         RequestInv, Settled
<1>6. CASE Cleanup!Crash(o)
  <2>1. /\ at[o] \in OpPlace /\ at[o] \notin {"idle", "done", "dead"} /\ at'[o] = "dead"
        /\ request'[o] = IF request[o] = "started" THEN "unknown" ELSE request[o]
        /\ opKind' = opKind
    BY <1>1, <1>6 DEF Cleanup!Crash, Cleanup!Goto, OpTypes
  <2>2. request[o] = "started" \/ (request[o] = "completed" /\ opKind[o] = "live_session")
    BY <2>1 DEF RequestInv, OpPlace
  <2> QED
    BY <2>1, <2>2 DEF RequestInv, Settled
<1> QED
  BY <1>2, <1>3, <1>4, <1>5, <1>6 DEF Cleanup!Operate
\* An operation takes only its own reference away, and gets a lease only where
\* there is none.
LEMMA OperateReferences ==
  ASSUME CleanConstants, Cleanup!TypeOK, DirInv, LeaseInv, NEW o \in Op, Cleanup!Operate(o),
           RequestInv(o)
  PROVE  /\ Mission \in referenced' => Mission \in referenced
         /\ \A p \in Op \ {o} : HasLease(p) /\ dir[p] \in referenced => dir[p] \in referenced'
         /\ HasLease(o)' => dir[o] \in referenced'
         /\ HasLease(o)' => HasLease(o) \/ ~Cleanup!LiveLease(dir[o])
<1>1. OpTypes /\ UNCHANGED <<opKind, opTool, dir>>
  BY CleanTypes, OperateOne
<1>2. CASE Cleanup!Reserve(o)
  <2>1. dir[o] \in {o, Stray} /\ dir[o] # Mission
    BY <1>2 DEF Cleanup!Reserve, RequestInv, DirInv, CleanConstants
  <2>2. \A p \in Op : HasLease(p) => Cleanup!LiveLease(dir[p])
    BY DEF HasLease, Cleanup!LiveLease, Cleanup!Sessions
  <2>3. CASE Cleanup!LiveLease(dir[o])
    BY <1>1, <1>2, <2>3
       DEF Cleanup!Reserve, Cleanup!Ends, Cleanup!Goto, Cleanup!world, HasLease, Cleanup!Leased,
           OpTypes
  <2>4. CASE ~Cleanup!LiveLease(dir[o])
    <3>1. referenced' = {d \in referenced : Cleanup!DeadLease(d) =>
            Cleanup!LiveLease(d)} \cup {dir[o]}
      BY <1>2, <2>4 DEF Cleanup!Reserve
    <3> QED
      BY <2>1, <2>2, <2>4, <3>1
  <2> QED
    BY <2>3, <2>4
<1>3. CASE Cleanup!Begin(o)
  BY <1>1, <1>3
     DEF Cleanup!Begin, Cleanup!Arrives, Cleanup!Goto, Cleanup!world, HasLease, Cleanup!Leased,
            OpTypes,
         Cleanup!Producing
<1>4. CASE Cleanup!Create(o)
  <2>1. /\ referenced' = referenced /\ at[o] \in Cleanup!Leased
    BY <1>4 DEF Cleanup!Create, Cleanup!world, Cleanup!Leased
  <2> QED
    BY <1>1, <2>1 DEF HasLease, LeaseInv
<1>5. CASE Cleanup!Dispatch(o)
  <2>1. /\ opKind[o] = "task" /\ referenced' \in {referenced, referenced \cup {dir[o]}}
    BY <1>5 DEF Cleanup!Dispatch, RequestInv
  <2>2. dir[o] # Mission
    BY <2>1 DEF DirInv, CleanConstants
  <2> QED
    BY <1>1, <2>1, <2>2 DEF HasLease
<1>6. CASE Cleanup!Work(o)
  <2>1. CASE opKind[o] = "task"
    <3>1. referenced' = referenced \ {dir[o]} /\ dir[o] # Mission
      BY <1>6, <2>1 DEF Cleanup!Work, DirInv, CleanConstants
    <3>2. \A p \in Op \ {o} : HasLease(p) => dir[p] # dir[o]
      BY <2>1, <3>1 DEF HasLease, DirInv
    <3> QED
      BY <1>1, <2>1, <3>1, <3>2 DEF HasLease
  <2>2. CASE opKind[o] # "task"
    <3>1. referenced' = referenced /\ at[o] \in Cleanup!Leased
      BY <1>6, <2>2 DEF Cleanup!Work, Cleanup!Leased
    <3> QED
      BY <1>1, <3>1 DEF HasLease, LeaseInv
  <2> QED
    BY <2>1, <2>2
<1>7. CASE Cleanup!RemoveOwn(o)
  <2>1. /\ referenced' = referenced
        /\ opKind[o] = "live_session" => at[o] \in {"remove", "undo", "idling"}
    BY <1>7 DEF Cleanup!RemoveOwn
  <2> QED
    BY <1>1, <1>7, <2>1 DEF HasLease, LeaseInv, Cleanup!Leased, RequestInv
<1>8. CASE Cleanup!Unlease(o)
  <2>1. /\ referenced' = referenced \ {dir[o]} /\ at'[o] = "done"
        /\ opKind[o] = "live_session"
    BY <1>1, <1>8 DEF Cleanup!Unlease, Cleanup!Goto, RequestInv, OpTypes
  <2>2. dir[o] # Mission /\ HasLease(o)
    BY <1>8, <2>1 DEF DirInv, CleanConstants, Cleanup!Unlease, HasLease, Cleanup!Leased
  <2>3. \A p \in Op \ {o} : HasLease(p) => dir[p] # dir[o]
    BY <2>2 DEF LeaseInv
  <2> QED
    BY <1>1, <2>1, <2>2, <2>3 DEF HasLease, Cleanup!Leased
<1>9. CASE Cleanup!CreateRef(o) \/ Cleanup!RecordCandidate(o) \/ Cleanup!Crash(o)
  <2>1. referenced' = referenced /\ at'[o] \in {"record", "done", "dead"}
    BY <1>1, <1>9
       DEF Cleanup!CreateRef, Cleanup!RecordCandidate, Cleanup!Crash, Cleanup!world, Cleanup!Goto,
           Cleanup!Ends, OpTypes
  <2> QED
    BY <1>1, <2>1 DEF HasLease, Cleanup!Leased
<1> QED
  BY <1>2, <1>3, <1>4, <1>5, <1>6, <1>7, <1>8, <1>9 DEF Cleanup!Operate

LEMMA LeaseStep ==
  ASSUME CleanConstants, CleanInv, NEW o \in Op, Cleanup!Operate(o)
  PROVE  LeaseInv' /\ (Mission \in referenced' => Mission \in referenced)
<1>0. /\ Cleanup!TypeOK /\ DirInv /\ LeaseInv /\ RequestInv(o)
      /\ UNCHANGED <<opKind, opTool, dir>> /\ \A p \in Op \ {o} : at'[p] = at[p]
  BY OperateOne DEF CleanInv
<1>1. \A p \in Op \ {o} : HasLease(p)' = HasLease(p)
  BY <1>0 DEF HasLease
<1>2. \A p \in Op : HasLease(p)' => dir'[p] \in referenced'
  BY <1>0, <1>1, OperateReferences DEF LeaseInv
<1>3. ASSUME HasLease(o)', NEW p \in Op \ {o}, HasLease(p)', dir[o] = dir[p]
      PROVE  FALSE
  <2>1. HasLease(p) /\ Cleanup!LiveLease(dir[o])
    BY <1>1, <1>3 DEF HasLease, Cleanup!LiveLease, Cleanup!Sessions
  <2> QED
    BY <1>0, <1>3, <2>1, OperateReferences DEF LeaseInv
<1>4. \A p, q \in Op : HasLease(p)' /\ HasLease(q)' /\ dir'[p] = dir'[q] => p = q
  BY <1>0, <1>1, <1>3 DEF LeaseInv
<1> QED
  BY <1>0, <1>2, <1>4, OperateReferences DEF LeaseInv

\* What comes to refer to a directory that is about to go is late.
LEMMA ReferencesAreLate ==
  ASSUME CleanConstants, CleanInv, NEW o \in Op, Cleanup!Operate(o), NEW k \in Cleaner,
         cleaning[k] = "remove", NEW p \in Op, dir[p] = target[k], RefersTo(p)'
  PROVE  p \in late'
<1>0. /\ Cleanup!TypeOK /\ OpTypes /\ DirInv /\ RequestInv(o)
      /\ UNCHANGED <<opKind, opTool, dir, cleaning, target>> /\ late \subseteq late'
      /\ p # o => at'[p] = at[p]
      /\ RefersTo(p) => p \in late
  BY OperateOne, CleanTypes DEF CleanInv, DirectoryGoes, Cleanup!cleanVars
<1>1. SUFFICES ASSUME ~RefersTo(p) PROVE p \in late'
  BY <1>0
<1>2. Cleanup!Arrives(o) => (dir[o] = target[k] => o \in late')
  BY DEF Cleanup!Arrives, Cleanup!AboutToGo
<1>3. ASSUME HasLease(o)', ~HasLease(o) PROVE Cleanup!Arrives(o)
  <2>1. opKind[o] = "live_session" /\ at[o] \notin Cleanup!Leased /\ at'[o] \in Cleanup!Leased
    BY <1>0, <1>3 DEF HasLease
  <2>2. Cleanup!Reserve(o)
    BY <1>0, <2>1
       DEF Cleanup!Operate, Cleanup!Begin, Cleanup!Create, Cleanup!Dispatch, Cleanup!Work,
           Cleanup!RemoveOwn, Cleanup!Unlease, Cleanup!CreateRef, Cleanup!RecordCandidate,
           Cleanup!Crash, Cleanup!Goto, Cleanup!Ends, Cleanup!Leased, OpTypes, RequestInv
  <2>3. ~Cleanup!LiveLease(dir[o])
    BY <1>0, <2>1, <2>2 DEF Cleanup!Reserve, Cleanup!Ends, Cleanup!Goto, Cleanup!Leased, OpTypes
  <2> QED
    BY <2>2, <2>3 DEF Cleanup!Reserve
<1>4. ASSUME NEW d \in referenced' \ referenced PROVE d = dir[o] /\ Cleanup!Arrives(o)
  BY <1>4
     DEF Cleanup!Operate, Cleanup!Begin, Cleanup!Reserve, Cleanup!Create, Cleanup!Dispatch,
         Cleanup!Work, Cleanup!RemoveOwn, Cleanup!Unlease, Cleanup!CreateRef,
         Cleanup!RecordCandidate, Cleanup!Crash, Cleanup!world
<1>5. CASE opKind[p] = "live_session"
  <2>1. HasLease(p)' /\ ~HasLease(p)
    BY <1>0, <1>1, <1>5 DEF RefersTo
  <2>2. p = o
    BY <1>0, <2>1 DEF HasLease
  <2> QED
    BY <1>2, <1>3, <2>1, <2>2
<1>6. CASE opKind[p] # "live_session"
  <2>1. dir[p] \in referenced' \ referenced
    BY <1>0, <1>1, <1>6 DEF RefersTo, HasLease
  <2>2. dir[p] = dir[o] /\ Cleanup!Arrives(o)
    BY <1>4, <2>1
  <2>3. dir[p] # Mission
    BY <2>1, LeaseStep
  <2>4. p = o
    BY <1>0, <1>6, <2>2, <2>3 DEF DirInv
  <2> QED
    BY <1>2, <2>2, <2>4
<1> QED
  BY <1>5, <1>6

\* An operation that begins in a directory that is about to go is late.
LEMMA DirectoryGoesOn ==
  ASSUME CleanConstants, CleanInv, NEW o \in Op, Cleanup!Operate(o), NEW k \in Cleaner
  PROVE  DirectoryGoes(k)'
<1>0. /\ Cleanup!TypeOK /\ DirInv /\ RequestInv(o) /\ DirectoryGoes(k)
      /\ UNCHANGED <<opKind, opTool, dir, cleaning, target>> /\ late \subseteq late'
      /\ \A p \in Op \ {o} : at'[p] = at[p] /\ request'[p] = request[p]
  BY OperateOne DEF CleanInv, Cleanup!cleanVars
<1> SUFFICES ASSUME cleaning[k] = "remove" PROVE DirectoryGoes(k)'
  BY <1>0 DEF DirectoryGoes
<1>1. target[k] = Mission => Mission \notin referenced /\ Mission \notin referenced'
  BY <1>0, LeaseStep DEF DirectoryGoes
<1>2. \A p \in Op \ {o} : opTool[p] \in Cleanup!Fenced => Spared(p, target[k])'
  BY <1>0 DEF DirectoryGoes, Spared, Settled
<1>3. ASSUME opTool[o] \in Cleanup!Fenced PROVE Spared(o, target[k])'
  <2>0. Spared(o, target[k])
    BY <1>0, <1>3 DEF DirectoryGoes
  <2>1. CASE Cleanup!Begin(o)
    <3>1. dir[o] = target[k] => o \in late'
      BY <1>0, <2>1 DEF Cleanup!Begin, Cleanup!Arrives, Cleanup!AboutToGo
    <3>2. target[k] = Mission => opKind[o] # "task"
      BY <1>0, <1>1, <2>1 DEF Cleanup!Begin, DirInv
    <3> QED
      BY <1>0, <3>1, <3>2 DEF Spared
  <2>2. CASE ~Cleanup!Begin(o)
    <3>1. at[o] # "idle"
      BY <2>2
         DEF Cleanup!Operate, Cleanup!Reserve, Cleanup!Create, Cleanup!Dispatch, Cleanup!Work,
             Cleanup!RemoveOwn, Cleanup!Unlease, Cleanup!CreateRef, Cleanup!RecordCandidate,
             Cleanup!Crash
    <3>2. Settled(o) => Settled(o)'
      BY <1>0, OperateMoves
    <3>3. target[k] = Mission /\ opKind[o] = "task" =>
            at'[o] \notin {"create", "dispatch", "working"}
      <4>1. opKind[o] = "task" /\ at'[o] \in {"dispatch", "working"} =>
              at[o] \in {"create", "dispatch", "working"}
        BY <1>0, OperateMoves DEF RequestInv
      <4>2. opKind[o] = "task" => at'[o] # "create"
        BY <1>0, <2>2, CleanTypes
           DEF Cleanup!Operate, Cleanup!Reserve, Cleanup!Create, Cleanup!Dispatch, Cleanup!Work,
               Cleanup!RemoveOwn, Cleanup!Unlease, Cleanup!CreateRef, Cleanup!RecordCandidate,
               Cleanup!Crash, Cleanup!Goto, Cleanup!Ends, OpTypes, RequestInv
      <4> QED
        BY <2>0, <4>1, <4>2 DEF Spared
    <3> QED
      BY <1>0, <2>0, <3>1, <3>2, <3>3 DEF Spared
  <2> QED
    BY <2>1, <2>2
<1>4. \A p \in Op : dir[p] = target[k] /\ RefersTo(p)' => p \in late'
  BY ReferencesAreLate
<1> QED
  BY <1>0, <1>1, <1>2, <1>3, <1>4 DEF DirectoryGoes

\* Refs and candidates: an operation makes its own, and a candidate only of a
\* ref that is there.
LEMMA OperateRefs ==
  ASSUME CleanConstants, CleanInv, NEW o \in Op, Cleanup!Operate(o)
  PROVE  /\ RefInv' /\ Cleanup!CandidateKeepsItsRef'
         /\ \A r : MadeRef(r) => MadeRef(r)'
         /\ \A r \in Op : at[r] = "done" => at'[r] = "done"
         /\ \A r \in owned' \ owned : r = o /\ at[o] = "record"
<1>0. /\ Cleanup!TypeOK /\ RefInv /\ Cleanup!CandidateKeepsItsRef /\ RequestInv(o)
      /\ UNCHANGED <<opKind, opTool, dir>> /\ \A p \in Op \ {o} : at'[p] = at[p]
      /\ OpTypes /\ WorldTypes /\ Stray \notin Op
  BY OperateOne, CleanTypes DEF CleanInv, Cleanup!RemovesOnlyOrphans, CleanConstants
<1>1. at[o] # "done" /\ (at[o] = "record" => at'[o] \in {"done", "dead"})
      /\ (at[o] = "dead" => FALSE)
  BY <1>0
     DEF Cleanup!Operate, Cleanup!Begin, Cleanup!Arrives, Cleanup!Reserve, Cleanup!Create,
            Cleanup!Dispatch,
         Cleanup!Work, Cleanup!RemoveOwn, Cleanup!Unlease, Cleanup!CreateRef,
         Cleanup!RecordCandidate, Cleanup!Crash, Cleanup!Goto, Cleanup!Ends, OpTypes
<1>2. \A r : MadeRef(r) => MadeRef(r)'
  BY <1>0, <1>1 DEF MadeRef
<1>3. CASE Cleanup!CreateRef(o)
  <2>1. /\ at[o] = "ref" /\ at'[o] = "record" /\ refs' = refs \cup {o}
        /\ UNCHANGED <<owned, undone>>
    BY <1>0, <1>3 DEF Cleanup!CreateRef, Cleanup!Goto, OpTypes, Cleanup!history
  <2>2. MadeRef(o)'
    BY <1>0, <2>1 DEF MadeRef, RequestInv
  <2>3. RefInv'
    BY <1>0, <1>1, <1>2, <2>1, <2>2 DEF RefInv, WorldTypes
  <2> QED
    BY <1>0, <1>1, <1>2, <2>1, <2>3 DEF Cleanup!CandidateKeepsItsRef
<1>4. CASE Cleanup!RecordCandidate(o)
  <2>1. /\ at[o] = "record" /\ at'[o] = "done" /\ refs' \in {refs, refs \ {o}}
        /\ owned' \in {owned, owned \cup {o}} /\ undone' \in {undone, undone \cup {o}}
        /\ owned' = owned \/ refs' = refs \/ o \in undone'
    BY <1>0, <1>4 DEF Cleanup!RecordCandidate, Cleanup!Goto, Cleanup!Ends, OpTypes
  <2>2. o \in refs /\ o \notin owned
    BY <1>0, <2>1 DEF RefInv
  <2>3. RefInv'
    <3>1. \A r \in refs' : MadeRef(r)'
      BY <1>0, <1>2, <2>1 DEF RefInv
    <3>2. \A p \in Op : at'[p] = "record" => p \in refs'
      BY <1>0, <2>1 DEF RefInv
    <3>3. \A p \in owned' : at'[p] = "done"
      BY <1>0, <1>1, <2>1 DEF RefInv, WorldTypes
    <3> QED
      BY <3>1, <3>2, <3>3 DEF RefInv
  <2>4. Cleanup!CandidateKeepsItsRef'
    BY <1>0, <2>1, <2>2 DEF Cleanup!CandidateKeepsItsRef
  <2> QED
    BY <1>0, <1>1, <1>2, <2>1, <2>3, <2>4
<1>5. CASE ~Cleanup!CreateRef(o) /\ ~Cleanup!RecordCandidate(o)
  <2>1. UNCHANGED <<refs, owned, undone>> /\ at'[o] # "record"
    BY <1>0, <1>5
       DEF Cleanup!Operate, Cleanup!Begin, Cleanup!Arrives, Cleanup!Reserve, Cleanup!Create,
              Cleanup!Dispatch,
           Cleanup!Work, Cleanup!RemoveOwn, Cleanup!Unlease, Cleanup!Crash, Cleanup!Goto,
           Cleanup!Ends, OpTypes, Cleanup!world, Cleanup!history
  <2>2. RefInv'
    BY <1>0, <1>1, <1>2, <2>1 DEF RefInv, WorldTypes
  <2> QED
    BY <1>0, <1>1, <1>2, <2>1, <2>2 DEF Cleanup!CandidateKeepsItsRef
<1> QED
  BY <1>3, <1>4, <1>5

\* A ref that is about to go stays one without a candidate.
LEMMA RefGoesOn ==
  ASSUME CleanConstants, CleanInv, NEW o \in Op, Cleanup!Operate(o), NEW k \in Cleaner
  PROVE  RefGoes(k)'
<1>1. /\ RefGoes(k) /\ UNCHANGED <<cleaning, orphans, target>> /\ owned \subseteq Op
  BY OperateOne, CleanTypes DEF CleanInv, Cleanup!cleanVars, WorldTypes
<1>2. /\ \A r : MadeRef(r) => MadeRef(r)'
      /\ \A r \in Op : at[r] = "done" => at'[r] = "done"
      /\ \A r \in owned' \ owned : r = o /\ at[o] = "record"
  BY OperateRefs
<1>3. ASSUME cleaning[k] = "remove ref", target[k] \in owned' PROVE FALSE
  <2>1. target[k] = o /\ at[o] = "record"
    BY <1>1, <1>2, <1>3 DEF RefGoes
  <2> QED
    BY <1>1, <1>3, <2>1 DEF RefGoes
<1> QED
  BY <1>1, <1>2, <1>3 DEF RefGoes

LEMMA OperateKeeps ==
  ASSUME CleanConstants, CleanInv, NEW o \in Op, Cleanup!Operate(o)
  PROVE  CleanInv'
<1>1. Cleanup!TypeOK'
  BY CleanTypeStep DEF CleanInv, Cleanup!Next
<1>2. DirInv'
  BY OperateOne DEF CleanInv, DirInv
<1>3. \A p \in Op : RequestInv(p)'
  <2>1. RequestInv(o)'
    BY OperateMoves DEF CleanInv
  <2>2. \A p \in Op \ {o} : RequestInv(p)'
    BY OperateOne DEF CleanInv, RequestInv
  <2> QED
    BY <2>1, <2>2
<1>4. Cleanup!RemovalSparesWork'
  <2>1. hit' = hit /\ late \subseteq late'
    BY OperateOne DEF CleanInv
  <2> QED
    BY <2>1 DEF CleanInv, Cleanup!RemovesOnlyOrphans, Cleanup!RemovalSparesWork
<1> QED
  BY <1>1, <1>2, <1>3, <1>4, LeaseStep, DirectoryGoesOn, RefGoesOn, OperateRefs
     DEF CleanInv, Cleanup!RemovesOnlyOrphans

-----------------------------------------------------------------------------
(* The steps of a cleanup *)

\* A step of a cleanup is its own; what it hits is what it was about to remove.
LEMMA CleanOne ==
  ASSUME Cleanup!TypeOK, NEW k \in Cleaner, Cleanup!Clean(k)
  PROVE  /\ UNCHANGED <<Cleanup!opVars, referenced, owned, late, undone>>
         /\ refs' = refs \/ (cleaning[k] = "remove ref" /\ refs' = refs \ {target[k]})
         /\ \/ hit' = hit
            \/ cleaning[k] = "remove" /\ hit' = hit \cup {o \in Op : target[k] \in dirs
                 /\ Cleanup!Uses(o, target[k]) /\ Cleanup!KeptFor(o, target[k])}
         /\ \A j \in Cleaner \ {k} :
              cleaning'[j] = cleaning[j] /\ target'[j] = target[j] /\ orphans'[j] = orphans[j]
<1>1. CleanerTypes
  BY CleanTypes
<1>2. /\ UNCHANGED <<Cleanup!opVars, referenced, owned, late, undone>>
      /\ refs' = refs \/ (cleaning[k] = "remove ref" /\ refs' = refs \ {target[k]})
      /\ \/ hit' = hit
         \/ cleaning[k] = "remove" /\ hit' = hit \cup {o \in Op : target[k] \in dirs
              /\ Cleanup!Uses(o, target[k]) /\ Cleanup!KeptFor(o, target[k])}
  BY DEF Cleanup!Clean, Cleanup!ReadState, Cleanup!SkipWorktrees, Cleanup!ListDirectories,
         Cleanup!CheckDirectory, Cleanup!RemoveDirectory, Cleanup!CheckPrune, Cleanup!Prune,
         Cleanup!ListRefs, Cleanup!CheckRef, Cleanup!RemoveRef, Cleanup!Finish, Cleanup!world,
         Cleanup!history
<1>3. \A j \in Cleaner \ {k} :
        cleaning'[j] = cleaning[j] /\ target'[j] = target[j] /\ orphans'[j] = orphans[j]
  BY <1>1
     DEF Cleanup!Clean, Cleanup!ReadState, Cleanup!SkipWorktrees, Cleanup!ListDirectories,
         Cleanup!CheckDirectory, Cleanup!RemoveDirectory, Cleanup!CheckPrune, Cleanup!Prune,
         Cleanup!ListRefs, Cleanup!CheckRef, Cleanup!RemoveRef, Cleanup!Finish, Cleanup!CGoto,
         CleanerTypes
<1> QED
  BY <1>2, <1>3

\* After a look at a state without a fenced request in progress, nothing works
\* in a directory that the state does not refer to.
LEMMA UnusedDirectory ==
  ASSUME CleanConstants, CleanInv, ~Cleanup!Blocked(Cleanup!Fenced), NEW d, d \notin referenced,
         NEW o \in Op, opTool[o] \in Cleanup!Fenced
  PROVE  Spared(o, d)
<1>1. at[o] \in OpPlace /\ RequestInv(o) /\ request[o] \notin {"started", "unknown"}
  BY CleanTypes DEF CleanInv, Cleanup!Blocked, OpTypes
<1>2. at[o] \in {"idle", "idling"} \/ Settled(o)
  BY <1>1 DEF RequestInv, OpPlace, Settled
<1>3. at[o] = "idling" => dir[o] # d
  BY <1>1 DEF CleanInv, LeaseInv, HasLease, Cleanup!Leased, RequestInv
<1> QED
  BY <1>2, <1>3 DEF Spared, Settled

LEMMA CleanKeepsDirectories ==
  ASSUME CleanConstants, CleanInv, NEW k \in Cleaner, Cleanup!Clean(k), NEW j \in Cleaner
  PROVE  DirectoryGoes(j)'
<1>0. /\ Cleanup!TypeOK /\ CleanerTypes /\ DirectoryGoes(j)
      /\ UNCHANGED <<Cleanup!opVars, referenced, late>>
      /\ j # k => cleaning'[j] = cleaning[j] /\ target'[j] = target[j]
  BY CleanOne, CleanTypes DEF CleanInv
<1>1. CASE j # k
  <2>1. /\ \A o \in Op : Spared(o, target[j])' <=> Spared(o, target[j])
        /\ \A o \in Op : RefersTo(o)' <=> RefersTo(o)
        /\ UNCHANGED <<opTool, dir>>
    BY <1>0, <1>1 DEF Spared, Settled, RefersTo, HasLease, Cleanup!opVars
  <2> QED
    BY <1>0, <1>1, <2>1 DEF DirectoryGoes
<1>2. CASE j = k /\ Cleanup!CheckDirectory(k)
  <2>1. cleaning'[k] = "remove" => ~Cleanup!Blocked(Cleanup!Fenced)
          /\ target'[k] \notin referenced
    BY <1>0, <1>2 DEF Cleanup!CheckDirectory, Cleanup!CGoto, CleanerTypes
  <2>2. ASSUME cleaning'[k] = "remove", NEW o \in Op, opTool[o] \in Cleanup!Fenced
        PROVE  Spared(o, target'[k])
    BY <2>1, <2>2, UnusedDirectory
  <2>3. /\ \A o \in Op : Spared(o, target[k])' <=> Spared(o, target'[k])
        /\ \A o \in Op : RefersTo(o)' <=> RefersTo(o)
        /\ UNCHANGED <<opTool, dir>>
    BY <1>0 DEF Spared, Settled, RefersTo, HasLease, Cleanup!opVars
  <2>4. \A o \in Op : RefersTo(o) => dir[o] \in referenced
    BY DEF CleanInv, LeaseInv, RefersTo
  <2> QED
    BY <1>0, <1>2, <2>1, <2>2, <2>3, <2>4 DEF DirectoryGoes
<1>3. CASE j = k /\ ~Cleanup!CheckDirectory(k)
  <2>1. cleaning'[k] # "remove"
    BY <1>0, <1>3
       DEF Cleanup!Clean, Cleanup!ReadState, Cleanup!SkipWorktrees, Cleanup!ListDirectories,
           Cleanup!RemoveDirectory, Cleanup!CheckPrune, Cleanup!Prune, Cleanup!ListRefs,
           Cleanup!CheckRef, Cleanup!RemoveRef, Cleanup!Finish, Cleanup!CGoto, CleanerTypes
  <2> QED
    BY <1>3, <2>1 DEF DirectoryGoes
<1> QED
  BY <1>1, <1>2, <1>3

\* After a look at a state without a producing request in progress, who has made
\* a ref is over.
LEMMA UnusedRef ==
  ASSUME CleanInv, ~Cleanup!Blocked(Cleanup!Producing), NEW r, r \in Op, MadeRef(r)
  PROVE  at[r] = "done"
<1>1. opKind[r] = "candidate" /\ at[r] \in {"record", "done", "dead"} /\ RequestInv(r)
  BY DEF CleanInv, MadeRef
<1>2. request[r] \notin {"started", "unknown"}
  BY <1>1 DEF CleanInv, DirInv, Cleanup!Blocked
<1> QED
  BY <1>1, <1>2 DEF RequestInv

LEMMA CleanKeepsRefs ==
  ASSUME CleanConstants, CleanInv, NEW k \in Cleaner, Cleanup!Clean(k), NEW j \in Cleaner
  PROVE  RefGoes(j)'
<1>0. /\ Cleanup!TypeOK /\ CleanerTypes /\ WorldTypes /\ RefGoes(j) /\ RefInv
      /\ UNCHANGED <<Cleanup!opVars, owned>>
      /\ j # k => cleaning'[j] = cleaning[j] /\ target'[j] = target[j] /\ orphans'[j] = orphans[j]
  BY CleanOne, CleanTypes DEF CleanInv
<1>1. \A r : MadeRef(r)' <=> MadeRef(r)
  BY <1>0 DEF MadeRef, Cleanup!opVars
<1>2. at' = at
  BY <1>0 DEF Cleanup!opVars
<1>3. CASE j # k
  BY <1>0, <1>1, <1>2, <1>3 DEF RefGoes
<1>4. CASE j = k /\ Cleanup!ListRefs(k)
  <2>1. orphans'[k] \subseteq refs /\ cleaning'[k] = "check refs"
    BY <1>0, <1>4 DEF Cleanup!ListRefs, Cleanup!CGoto, CleanerTypes
  <2> QED
    BY <1>0, <1>1, <1>4, <2>1 DEF RefGoes, RefInv
<1>5. CASE j = k /\ Cleanup!CheckRef(k)
  <2>1. PICK r \in orphans[k] :
          /\ cleaning[k] = "check refs"
          /\ orphans' = [orphans EXCEPT ![k] = @ \ {r}]
          /\ IF Cleanup!Blocked(Cleanup!Producing) THEN Cleanup!CGoto(k, "done")
               /\ UNCHANGED target
             ELSE IF r \in owned THEN UNCHANGED <<cleaning, target>>
             ELSE Cleanup!CGoto(k, "remove ref") /\ target' = [target EXCEPT ![k] = r]
    BY <1>5 DEF Cleanup!CheckRef
  <2>2. /\ orphans'[k] \subseteq orphans[k] /\ \A q \in orphans[k] : MadeRef(q)
        /\ cleaning'[k] = "remove ref" =>
             target'[k] = r /\ r \notin owned /\ ~Cleanup!Blocked(Cleanup!Producing)
    BY <1>0, <1>5, <2>1 DEF Cleanup!CGoto, CleanerTypes, RefGoes
  <2>3. cleaning'[k] = "remove ref" /\ r \in Op => at[r] = "done"
    BY <2>2, UnusedRef
  <2> QED
    BY <1>0, <1>1, <1>2, <1>5, <2>2, <2>3 DEF RefGoes
<1>6. CASE j = k /\ ~Cleanup!ListRefs(k) /\ ~Cleanup!CheckRef(k)
  <2>1. /\ cleaning'[k] # "remove ref"
        /\ cleaning'[k] = "check refs" => cleaning[k] = "remove ref" /\ orphans'[k] = orphans[k]
    BY <1>0, <1>6
       DEF Cleanup!Clean, Cleanup!ReadState, Cleanup!SkipWorktrees, Cleanup!ListDirectories,
           Cleanup!CheckDirectory, Cleanup!RemoveDirectory, Cleanup!CheckPrune, Cleanup!Prune,
           Cleanup!RemoveRef, Cleanup!Finish, Cleanup!CGoto, CleanerTypes
  <2> QED
    BY <1>0, <1>1, <1>6, <2>1 DEF RefGoes
<1> QED
  BY <1>3, <1>4, <1>5, <1>6

LEMMA CleanKeeps ==
  ASSUME CleanConstants, CleanInv, NEW k \in Cleaner, Cleanup!Clean(k)
  PROVE  CleanInv'
<1>0. /\ UNCHANGED <<Cleanup!opVars, referenced, owned, late, undone>>
      /\ refs' = refs \/ (cleaning[k] = "remove ref" /\ refs' = refs \ {target[k]})
      /\ \/ hit' = hit
         \/ cleaning[k] = "remove" /\ hit' = hit \cup {o \in Op : target[k] \in dirs
              /\ Cleanup!Uses(o, target[k]) /\ Cleanup!KeptFor(o, target[k])}
  BY CleanOne DEF CleanInv
<1>1. Cleanup!TypeOK'
  BY CleanTypeStep DEF CleanInv, Cleanup!Next
<1>2. DirInv' /\ LeaseInv' /\ \A o \in Op : RequestInv(o)'
  BY <1>0 DEF CleanInv, DirInv, LeaseInv, HasLease, RequestInv, Cleanup!opVars
<1>3. /\ \A r \in refs' : MadeRef(r)
      /\ \A r \in owned : r \in refs => r \in refs'
      /\ \A o \in Op : at[o] = "record" => o \in refs'
  BY <1>0 DEF CleanInv, RefInv, RefGoes
<1>4. RefInv' /\ Cleanup!CandidateKeepsItsRef'
  BY <1>0, <1>3
     DEF CleanInv, Cleanup!RemovesOnlyOrphans, RefInv, MadeRef, Cleanup!CandidateKeepsItsRef,
         Cleanup!opVars
<1>5. Cleanup!RemovalSparesWork'
  <2>1. ASSUME NEW o \in Op, cleaning[k] = "remove", opTool[o] \in Cleanup!Fenced,
                 Cleanup!Uses(o, target[k])
        PROVE  o \in late
    <3>1. Spared(o, target[k]) /\ (target[k] = Mission => Mission \notin referenced)
      BY <2>1 DEF CleanInv, DirectoryGoes
    <3> QED
      BY <2>1, <3>1 DEF Spared, Settled, Cleanup!Uses
  <2>2. ASSUME NEW o \in Op, cleaning[k] = "remove", target[k] \in referenced,
               opKind[o] = "live_session" => at[o] # "dead", Cleanup!Uses(o, target[k])
        PROVE  o \in late
    <3>1. /\ dir[o] = target[k] /\ RefersTo(o) => o \in late
          /\ target[k] # Mission /\ RequestInv(o)
      BY <2>2 DEF CleanInv, DirectoryGoes
    <3>2. dir[o] = target[k] /\ at[o] \in {"dispatch", "working", "idling", "dead"}
      BY <2>2, <3>1 DEF Cleanup!Uses
    <3>3. RefersTo(o)
      BY <2>2, <3>1, <3>2 DEF RefersTo, HasLease, Cleanup!Leased, RequestInv
    <3> QED
      BY <3>1, <3>2, <3>3
  <2>3. \A o \in hit' : o \in late
    BY <1>0, <2>1, <2>2
       DEF CleanInv, Cleanup!RemovesOnlyOrphans, Cleanup!RemovalSparesWork, Cleanup!KeptFor
  <2> QED
    BY <1>0, <2>3
       DEF CleanInv, Cleanup!RemovesOnlyOrphans, Cleanup!RemovalSparesWork, Cleanup!opVars
<1> QED
  BY <1>1, <1>2, <1>4, <1>5, CleanKeepsDirectories, CleanKeepsRefs
     DEF CleanInv, Cleanup!RemovesOnlyOrphans

LEMMA CloseKeeps == ASSUME CleanConstants, CleanInv, Cleanup!CloseMission PROVE CleanInv'
<1>0. /\ UNCHANGED <<Cleanup!opVars, refs, owned, Cleanup!cleanVars, Cleanup!history>>
           /\ referenced' = referenced \ {Mission}
  BY DEF Cleanup!CloseMission
<1>1. Cleanup!TypeOK'
  BY CleanTypeStep DEF CleanInv, Cleanup!Next
<1>2. \A o \in Op : HasLease(o) => dir[o] # Mission
  BY DEF CleanInv, DirInv, HasLease, CleanConstants
<1>3. DirInv' /\ LeaseInv' /\ \A o \in Op : RequestInv(o)'
  BY <1>0, <1>2 DEF CleanInv, DirInv, LeaseInv, HasLease, RequestInv, Cleanup!opVars
<1>4. RefInv' /\ \A k \in Cleaner : DirectoryGoes(k)' /\ RefGoes(k)'
  <2>1. \A o \in Op : RefersTo(o)' => RefersTo(o)
    BY <1>0 DEF RefersTo, HasLease, Cleanup!opVars
  <2>2. \A k \in Cleaner : DirectoryGoes(k)'
    BY <1>0, <2>1
       DEF CleanInv, DirectoryGoes, Spared, Settled, Cleanup!opVars, Cleanup!cleanVars,
           Cleanup!history
  <2>3. RefInv' /\ \A k \in Cleaner : RefGoes(k)'
    BY <1>0
       DEF CleanInv, RefInv, MadeRef, RefGoes, Cleanup!opVars, Cleanup!cleanVars
  <2> QED
    BY <2>2, <2>3
<1>5. Cleanup!RemovesOnlyOrphans'
  BY <1>0
     DEF CleanInv, Cleanup!RemovesOnlyOrphans, Cleanup!RemovalSparesWork,
         Cleanup!CandidateKeepsItsRef, Cleanup!opVars, Cleanup!history
<1> QED
  BY <1>1, <1>3, <1>4, <1>5 DEF CleanInv

LEMMA CleanStep == ASSUME CleanConstants, CleanInv, [Cleanup!Next]_(Cleanup!cleanupVars)
  PROVE CleanInv'
<1>1. CASE UNCHANGED Cleanup!cleanupVars
  <2>1. UNCHANGED <<opKind, opTool, dir, at, request, Cleanup!world, cleaning, orphans, seen,
         target,
                    Cleanup!history>>
    BY <1>1 DEF Cleanup!cleanupVars, Cleanup!opVars, Cleanup!cleanVars
  <2>2. Cleanup!TypeOK'
    BY <1>1, CleanTypeStep DEF CleanInv
  <2>3. DirInv' /\ LeaseInv' /\ RefInv' /\ (\A o \in Op : RequestInv(o)')
          /\ Cleanup!RemovesOnlyOrphans'
    BY <2>1
       DEF CleanInv, DirInv, LeaseInv, HasLease, RefInv, MadeRef, RequestInv,
           Cleanup!RemovesOnlyOrphans, Cleanup!RemovalSparesWork, Cleanup!CandidateKeepsItsRef,
           Cleanup!world, Cleanup!history
  <2>4. \A k \in Cleaner : DirectoryGoes(k)' /\ RefGoes(k)'
    BY <2>1
       DEF CleanInv, DirectoryGoes, Spared, Settled, RefersTo, HasLease, RefGoes, MadeRef,
           Cleanup!world, Cleanup!history
  <2> QED
    BY <2>2, <2>3, <2>4 DEF CleanInv
<1> QED
  BY <1>1, OperateKeeps, CleanKeeps, CloseKeeps DEF Cleanup!Next

-----------------------------------------------------------------------------
(* The composition *)

\* What is asked of the constants.
ServicesConstants == PgConstants /\ CleanConstants

\* A step of the composition is one of each service, or leaves it alone.
LEMMA ServicesSteps ==
  ASSUME [ServicesNext]_serviceVars
  PROVE  /\ [Next]_vars /\ [Postgres!Next]_(Postgres!pgVars)
         /\ [Cleanup!Next]_(Cleanup!cleanupVars) /\ [Workers!Next]_(Workers!workerVars)
<1>1. UNCHANGED postgresVars => UNCHANGED Postgres!pgVars
  BY DEF postgresVars, Postgres!pgVars, Postgres!server, Postgres!client
<1>2. UNCHANGED cleanVars => UNCHANGED Cleanup!cleanupVars
  BY DEF cleanVars, Cleanup!cleanupVars, Cleanup!opVars, Cleanup!world, Cleanup!cleanVars,
         Cleanup!history
<1>3. UNCHANGED workerVars => UNCHANGED Workers!workerVars
  BY DEF workerVars, Workers!workerVars, Workers!adapter, Workers!worker
<1> QED
  BY <1>1, <1>2, <1>3 DEF ServicesNext, serviceVars

\* The behaviours of the composition are behaviours of each service.
LEMMA ServicesImplement ==
  ServicesSpec => /\ Spec /\ Postgres!Spec /\ Cleanup!Spec
                  /\ Workers!Init /\ [][Workers!Next]_(Workers!workerVars)
<1>1. ServicesInit => Init /\ Postgres!Init /\ Cleanup!Init /\ Workers!Init
  BY DEF ServicesInit
<1>2. [ServicesNext]_serviceVars =>
        /\ [Next]_vars /\ [Postgres!Next]_(Postgres!pgVars)
        /\ [Cleanup!Next]_(Cleanup!cleanupVars) /\ [Workers!Next]_(Workers!workerVars)
  BY ServicesSteps
<1> QED
  BY <1>1, <1>2, PTL DEF ServicesSpec, Spec, Postgres!Spec, Cleanup!Spec

\* The variables of the four services keep their types.
THEOREM ServicesTypes == ServicesSpec => []ServicesTypeOK
<1>1. ServicesInit => ServicesTypeOK
  BY TypeInit, PgTypeInit, CleanTypeInit, WorkerTypeInit DEF ServicesInit, ServicesTypeOK
<1>2. ServicesTypeOK /\ [ServicesNext]_serviceVars => ServicesTypeOK'
  BY ServicesSteps, TypeStep, PgTypeStep, CleanTypeStep, WorkerTypeStep DEF ServicesTypeOK
<1> QED
  BY <1>1, <1>2, PTL DEF ServicesSpec

\* The audit in PostgreSQL tells of exactly the commits of the state, and "not
\* applied" is true of every COMMIT that was not in flight.
THEOREM AuditTellsTheTruth ==
  ASSUME ServicesConstants PROVE ServicesSpec => []LogTellsTheTruth
<1>1. Postgres!Spec => []Postgres!LogTellsTheTruth
  BY PostgresLogTellsTheTruth DEF ServicesConstants
<1> QED
  BY <1>1, ServicesImplement, PTL DEF LogTellsTheTruth

\* The PostgreSQL backend implements RevisionedStore: nothing is lost or made
\* twice, a compare and commit follows the revision it expected, and what a
\* caller was told stays true.
THEOREM BackendKeepsPromise ==
  ASSUME ServicesConstants PROVE ServicesSpec => KeepsPromise
<1>1. Postgres!Spec => Postgres!KeepsPromise
  BY PostgresKeepsPromise DEF ServicesConstants
<1> QED
  BY <1>1, ServicesImplement, PTL DEF KeepsPromise

\* CleanInv holds throughout.
THEOREM CleanupInvariance == ASSUME ServicesConstants PROVE ServicesSpec => []CleanInv
<1>1. Cleanup!Init => CleanInv
  BY CleanInit DEF ServicesConstants
<1>2. CleanInv /\ [Cleanup!Next]_(Cleanup!cleanupVars) => CleanInv'
  BY CleanStep DEF ServicesConstants
<1> QED
  BY <1>1, <1>2, ServicesImplement, PTL DEF Cleanup!Spec

\* A cleanup takes no directory from an operation of a tool it waits for, nor from
\* any other whose directory the state refers to, unless that came after the last
\* look at the state; and it removes no ref of a candidate in the state.
THEOREM CleanupRemovesOnlyOrphans ==
  ASSUME ServicesConstants PROVE ServicesSpec => []RemovesOnlyOrphans
<1>1. CleanInv => RemovesOnlyOrphans
  BY DEF CleanInv, RemovesOnlyOrphans
<1> QED
  BY <1>1, CleanupInvariance, PTL

\* WorkerInv holds throughout.
THEOREM WorkersInvariance == ServicesSpec => []WorkerInv
  BY WorkerInit, WorkerStep, ServicesImplement, PTL

\* A worker's result means that its group is gone, and two groups of one task
\* live together only after a lost supervisor.
THEOREM WorkersAreContained == ServicesSpec => []GroupsAreContained
<1>1. WorkerInv => GroupsAreContained
  BY WorkerContains DEF GroupsAreContained
<1> QED
  BY <1>1, WorkersInvariance, PTL

\* Nothing is forked for a cancelled mission or task.
THEOREM CancelledStaysCancelled == ServicesSpec => CancelledNeverForks
<1>1. WorkerInv /\ [Workers!Next]_(Workers!workerVars) =>
        [\A r \in Workers!Run : supervisor[r] = "none" /\ supervisor'[r] # "none" =>
           ~fenced /\ asked[r] = "none"]_(Workers!workerVars)
  BY WorkerForks
<1> QED
  BY <1>1, WorkersInvariance, ServicesImplement, PTL
     DEF CancelledNeverForks, Workers!CancelledNeverForks

=============================================================================
