---------------------------- MODULE RevisionedStore ----------------------------
(***************************************************************************)
(* What a state store shared by several runtimes promises to its callers:  *)
(* the state is a sequence of commits that only grows, every call commits  *)
(* at most once, a call that expects a revision commits right behind it,   *)
(* one that is told "ok" has committed and one that is told "refused"      *)
(* never does.  A call that is told neither may have committed, or still   *)
(* commit.                                                                 *)
(***************************************************************************)
EXTENDS Naturals, Sequences

CONSTANTS
  Call,      \* calls of transaction and compareAndCommit
  Earlier    \* the commit of a database that was there before them

VARIABLES
  commits,    \* the calls whose commit the state contains, in order
  expected,   \* the revision a call expects, 0 if any will do
  outcome     \* what a call was told

store == <<commits, expected, outcome>>

Members(s) == {s[i] : i \in DOMAIN s}

Init ==
  /\ commits \in {<<>>, <<Earlier>>}
  /\ expected = [c \in Call |-> 0]
  /\ outcome = [c \in Call |-> "none"]

\* A call takes the revision it has read for the one it expects.
Expect(c) ==
  /\ expected[c] = 0 /\ c \notin Members(commits) /\ outcome[c] = "none"
  /\ expected' = [expected EXCEPT ![c] = Len(commits)]
  /\ UNCHANGED <<commits, outcome>>

Apply(c) ==
  /\ c \notin Members(commits) /\ outcome[c] = "none"
  /\ expected[c] \in {0, Len(commits)}
  /\ commits' = Append(commits, c)
  /\ UNCHANGED <<expected, outcome>>

Acknowledge(c) ==
  /\ outcome[c] = "none" /\ c \in Members(commits)
  /\ outcome' = [outcome EXCEPT ![c] = "ok"]
  /\ UNCHANGED <<commits, expected>>

Refuse(c) ==
  /\ outcome[c] = "none" /\ c \notin Members(commits)
  /\ outcome' = [outcome EXCEPT ![c] = "refused"]
  /\ UNCHANGED <<commits, expected>>

Next == \E c \in Call : Expect(c) \/ Apply(c) \/ Acknowledge(c) \/ Refuse(c)

Spec == Init /\ [][Next]_store

=============================================================================
