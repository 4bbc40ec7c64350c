---------------------------- MODULE PostgresStore ----------------------------
(***************************************************************************)
(* The state backend on PostgreSQL (postgres-state-backend.mjs): calls of  *)
(* several runtimes on the row and the audit table of one instance, each   *)
(* in a database transaction under the instance's advisory lock, with      *)
(* connections that break before, during and after a COMMIT.               *)
(*                                                                         *)
(* PostgreSQL is modelled by what the backend relies on: the writes of a   *)
(* transaction become visible together when it commits, its locks are      *)
(* released when it ends, and a server session outlives the connection of  *)
(* its client until the server has committed or notices the loss.  A       *)
(* commit is identified by the call that makes it.  The advisory lock and  *)
(* FOR UPDATE are one lock: they are always taken together.                *)
(***************************************************************************)
EXTENDS Naturals, Sequences

CONSTANTS
  Call,        \* transactions on the instance
  Nobody,      \* no call
  Earlier,     \* the commit of a database that was there before the calls
  MaxLosses    \* bound: connections and commits that fail

VARIABLES
  row,        \* the instance's row of the state table: revision and commits
  log,        \* its rows of the audit table: the audited commits, in order
  holder,     \* the session that holds the instance's lock
  kind,       \* what each call is
  expected,   \* the revision a compareAndCommit has read, else 0
  stage,      \* where each call is
  view,       \* what its session sees, its own writes included
  session,    \* its session at the server
  reply,      \* what it has returned or thrown
  early,      \* history: calls that looked for a commit still in flight
  losses

client == <<kind, expected, stage, reply, early>>
server == <<row, log, holder>>
pgVars == <<server, view, session, client, losses>>

Members(s) == {s[i] : i \in DOMAIN s}

\* There is no row before the bootstrap.
NoRow == [revision |-> 0, commits |-> <<>>]

\* A database of an earlier runtime may have lost the last line of its audit.
Init ==
  /\ \/ row = NoRow /\ log = <<>>
     \/ row = [revision |-> 1, commits |-> <<Earlier>>] /\ log \in {<<Earlier>>, <<>>}
  /\ holder = Nobody
  /\ kind \in [Call -> {"bootstrap", "recover", "transaction", "compareAndCommit"}]
  /\ expected = [c \in Call |-> 0]
  /\ stage = [c \in Call |-> "idle"]
  /\ view = [c \in Call |-> [row |-> NoRow, log |-> <<>>]]
  /\ session = [c \in Call |-> "none"]
  /\ reply = [c \in Call |-> "none"]
  /\ early = {}
  /\ losses = 0

Goto(c, s) == stage' = [stage EXCEPT ![c] = s]
Becomes(c, s) == session' = [session EXCEPT ![c] = s]
Answers(c, answer) ==
  /\ Goto(c, "done")
  /\ reply' = [reply EXCEPT ![c] = answer]
Loses == losses < MaxLosses /\ losses' = losses + 1

\* transaction and compareAndCommit go through #mutate; only they resolve a
\* COMMIT that was not acknowledged.
Mutates(c) == kind[c] \in {"transaction", "compareAndCommit"}

-----------------------------------------------------------------------------
(* The transaction *)

\* readSnapshot, before the compareAndCommit.
ReadSnapshot(c) ==
  /\ stage[c] = "idle" /\ kind[c] = "compareAndCommit" /\ row # NoRow
  /\ expected' = [expected EXCEPT ![c] = row.revision]
  /\ Goto(c, "read")
  /\ UNCHANGED <<server, view, session, kind, reply, early, losses>>

\* #reconcileLocked: the last commit of the state is audited if it is not yet.
Reconciled(r, l) ==
  IF r.commits = <<>> \/ r.commits[Len(r.commits)] \in Members(l) THEN l
  ELSE Append(l, r.commits[Len(r.commits)])

\* BEGIN, #lockInstance, #readStateForUpdate, #reconcileLocked; the bootstrap
\* does not reconcile.
Lock(c) ==
  /\ stage[c] = IF kind[c] = "compareAndCommit" THEN "read" ELSE "idle"
  /\ holder = Nobody
  /\ holder' = c
  /\ Becomes(c, "open")
  /\ view' = [view EXCEPT ![c] =
       [row |-> row, log |-> IF kind[c] = "bootstrap" THEN log ELSE Reconciled(row, log)]]
  /\ Goto(c, "locked")
  /\ UNCHANGED <<row, log, kind, expected, reply, early, losses>>

\* ROLLBACK, and what the call throws.
RollsBack(c, answer) ==
  /\ Answers(c, answer)
  /\ Becomes(c, "aborted")
  /\ holder' = Nobody
  /\ UNCHANGED <<row, log, view, kind, expected, early, losses>>

\* Mutant: the expected revision is not looked at again.
Conflict_Blind(c) == FALSE

\* The state has moved since the snapshot.
Conflict(c) == kind[c] = "compareAndCommit" /\ expected[c] # view[c].row.revision

Missing(c) == kind[c] # "bootstrap" /\ view[c].row = NoRow

Rejects(c) ==
  /\ stage[c] = "locked" /\ (Missing(c) \/ Conflict(c))
  /\ RollsBack(c, IF Missing(c) THEN "error" ELSE "conflict")

MutatorThrows(c) ==
  /\ stage[c] = "locked" /\ Mutates(c)
  /\ RollsBack(c, "error")

Commits(r, c) == [revision |-> r.revision + 1, commits |-> Append(r.commits, c)]

\* The mutator has run; the new state and its line of the audit are written by
\* the same transaction.  A bootstrap that finds the row, and a recovery that
\* finds no started request, change nothing more.
Write(c) ==
  /\ stage[c] = "locked" /\ ~Missing(c) /\ ~Conflict(c)
  /\ \/ /\ Mutates(c) \/ kind[c] = "recover" \/ view[c].row = NoRow
        /\ view' = [view EXCEPT ![c] = [row |-> Commits(@.row, c), log |-> Append(@.log, c)]]
     \/ ~Mutates(c) /\ view[c].row # NoRow /\ UNCHANGED view
  /\ Goto(c, "written")
  /\ UNCHANGED <<server, session, kind, expected, reply, early, losses>>

\* A query fails because the connection is lost: so does the ROLLBACK, whose
\* error is swallowed, and the session keeps its lock until the server notices.
QueryFails(c) ==
  /\ stage[c] \in {"locked", "written"}
  /\ Loses
  /\ Answers(c, "error")
  /\ UNCHANGED <<server, view, session, kind, expected, early>>

-----------------------------------------------------------------------------
(* The COMMIT *)

SendCommit(c) ==
  /\ stage[c] = "written"
  /\ Goto(c, "sent")
  /\ Becomes(c, "committing")
  /\ UNCHANGED <<server, view, kind, expected, reply, early, losses>>

\* The server commits, whether or not its client is still there.
ServerCommits(c) ==
  /\ session[c] = "committing"
  /\ row' = view[c].row /\ log' = view[c].log
  /\ holder' = Nobody
  /\ Becomes(c, "committed")
  /\ UNCHANGED <<view, client, losses>>

\* The COMMIT fails, or never arrives.
CommitIsLost(c) ==
  /\ session[c] = "committing"
  /\ Loses
  /\ holder' = Nobody
  /\ Becomes(c, "aborted")
  /\ UNCHANGED <<row, log, view, client>>

\* The server ends a session whose connection is gone.
ServerAborts(c) ==
  /\ session[c] = "open" /\ stage[c] = "done"
  /\ holder' = Nobody
  /\ Becomes(c, "aborted")
  /\ UNCHANGED <<row, log, view, client, losses>>

Acknowledged(c) ==
  /\ stage[c] = "sent" /\ session[c] = "committed"
  /\ Answers(c, "ok")
  /\ UNCHANGED <<server, view, session, kind, expected, early, losses>>

\* Mutant: a COMMIT that throws is taken for one that was not applied.
CommitFails_Denied(c) ==
  /\ stage[c] = "sent"
  /\ IF session[c] = "aborted" THEN UNCHANGED losses ELSE Loses
  /\ Answers(c, IF Mutates(c) THEN "not applied" ELSE "error")
  /\ UNCHANGED <<server, view, session, kind, expected, early>>

\* The COMMIT, or what follows it, throws: a mutation has an uncertain outcome,
\* and its client is destroyed; an init fails.
CommitFails(c) ==
  /\ stage[c] = "sent"
  /\ IF session[c] = "aborted" THEN UNCHANGED losses ELSE Loses
  /\ IF Mutates(c) THEN Goto(c, "resolving") /\ UNCHANGED reply ELSE Answers(c, "error")
  /\ UNCHANGED <<server, view, session, kind, expected, early>>

\* #resolveCommitOutcome: a snapshot of the audit table, taken without the
\* instance's lock, has the commit or has it not (POSTGRES_COMMIT_NOT_APPLIED).
Resolve(c) ==
  /\ stage[c] = "resolving"
  /\ Answers(c, IF c \in Members(log) THEN "ok" ELSE "not applied")
  /\ early' = IF session[c] = "committing" THEN early \cup {c} ELSE early
  /\ UNCHANGED <<server, view, session, kind, expected, losses>>

\* The log cannot be read: the outcome stays unknown.
ResolveFails(c) ==
  /\ stage[c] = "resolving"
  /\ Loses
  /\ Answers(c, "unknown")
  /\ UNCHANGED <<server, view, session, kind, expected, early>>

-----------------------------------------------------------------------------

Step(c) ==
  \/ ReadSnapshot(c) \/ Lock(c) \/ Rejects(c) \/ MutatorThrows(c) \/ Write(c)
  \/ QueryFails(c) \/ SendCommit(c) \/ ServerCommits(c) \/ CommitIsLost(c)
  \/ ServerAborts(c) \/ Acknowledged(c) \/ CommitFails(c) \/ Resolve(c)
  \/ ResolveFails(c)

Next == \E c \in Call : Step(c)

Spec == Init /\ [][Next]_pgVars

-----------------------------------------------------------------------------
(* Properties *)

\* Types of the variables.
TypeOK ==
  LET Id == Call \cup {Earlier}
      Row == [revision : Nat, commits : Seq(Id)]
  IN /\ row \in Row /\ log \in Seq(Id)
     /\ holder \in Call \cup {Nobody}
     /\ kind \in [Call -> {"bootstrap", "recover", "transaction", "compareAndCommit"}]
     /\ expected \in [Call -> Nat]
     /\ stage \in [Call -> {"idle", "read", "locked", "written", "sent", "resolving", "done"}]
     /\ view \in [Call -> [row : Row, log : Seq(Id)]]
     /\ session \in [Call -> {"none", "open", "committing", "committed", "aborted"}]
     /\ reply \in [Call -> {"none", "ok", "error", "conflict", "not applied", "unknown"}]
     /\ early \subseteq Call
     /\ losses \in Nat

\* "PostgreSQL state and audit append commit in one SQL transaction"
\* (README.md): whatever connections break, the audit log tells of exactly the
\* commits of the state, in their order, and the revision counts them; a log
\* that an operator damaged is complete again with the first commit.
LogIsTheHistory ==
  /\ row.revision = Len(row.commits)
  /\ (\E c \in Call : c \in Members(row.commits)) => log = row.commits

\* A call that was told that its COMMIT was not applied is right, unless the
\* COMMIT was still on its way when the log was read.
DeniedOnlyInFlight ==
  \A c \in Call :
    reply[c] = "not applied" /\ c \in Members(row.commits) => c \in early

\* What is read in the log is true: of the state at any time, and of a COMMIT
\* whose answer was lost, save for one that was still on its way.
LogTellsTheTruth == LogIsTheHistory /\ DeniedOnlyInFlight

\* The promise to the callers: nothing is lost or made twice, a compare and
\* commit follows the revision it expected, "ok" and errors are true for good.
Outcome(c) ==
  CASE Mutates(c) /\ reply[c] = "ok" -> "ok"
    [] Mutates(c) /\ reply[c] \in {"error", "conflict"} -> "refused"
    [] OTHER -> "none"

Promised == INSTANCE RevisionedStore WITH
  commits <- row.commits, outcome <- [c \in Call |-> Outcome(c)]

\* The backend implements the promise of a shared store: "without lost updates
\* or audit divergence" (README.md).
KeepsPromise == Promised!Init /\ [][Promised!Next]_(Promised!store)

=============================================================================
