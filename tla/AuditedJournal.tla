---------------------------- MODULE AuditedJournal ----------------------------
(***************************************************************************)
(* What a durable state store promises about its two durable records: the  *)
(* commits its state contains, and the commits its audit log tells of.     *)
(*                                                                         *)
(* A commit is made only when the previous one has been audited, so the    *)
(* log is at most one commit behind; nothing is audited twice, and commits *)
(* are audited in the order in which they were made.  Recovery from a      *)
(* backup may undo commits, but never touches the log.                     *)
(***************************************************************************)
EXTENDS Naturals, Sequences

CONSTANT MaxCommits   \* bound: commit identities

VARIABLES
  committed,   \* identities of the commits in the durable state, in order
  audited      \* identities of the commits in the audit log, in order

journal == <<committed, audited>>

Members(s) == {s[i] : i \in DOMAIN s}

\* The last commit of the state is the only one the log may not have yet.
Settled == committed = <<>> \/ committed[Len(committed)] \in Members(audited)

Init == committed = <<>> /\ audited = <<>>

Commit ==
  /\ Settled
  /\ \E c \in 1..MaxCommits :
       /\ \A d \in Members(committed) \cup Members(audited) : d < c
       /\ committed' = Append(committed, c)
  /\ UNCHANGED audited

Audit ==
  /\ ~Settled
  /\ audited' = Append(audited, committed[Len(committed)])
  /\ UNCHANGED committed

Rollback ==
  /\ \E n \in 0..(Len(committed) - 1) : committed' = [i \in 1..n |-> committed[i]]
  /\ UNCHANGED audited

Next == Commit \/ Audit \/ Rollback

Spec == Init /\ [][Next]_journal

=============================================================================
