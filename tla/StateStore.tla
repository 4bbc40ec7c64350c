------------------------------ MODULE StateStore ------------------------------
(***************************************************************************)
(* The local JSON store (src/src/state-store.mjs): init, transaction and   *)
(* reconcilePendingAudit over three durable files, state.json,             *)
(* state.json.bak and audit.jsonl, with a failure or a crash possible      *)
(* between any two of their file system calls.                             *)
(*                                                                         *)
(* The content of a state file is abstracted to the sequence of the        *)
(* commits it contains: the last one is its durability marker,             *)
(* runtime.durability.lastStateCommit.  The lock is taken and released in  *)
(* one step here; StateLock models its protocol.                           *)
(***************************************************************************)
EXTENDS Naturals, Sequences

CONSTANTS
  Process,      \* runtimes that work on the store under its lock
  Nobody,       \* the holder of a free lock
  MaxCommits,   \* bound: commit identities drawn
  MaxFaults,    \* bound: file system calls that fail
  MaxCrashes,   \* bound: crashes of runtimes
  MaxDamages,   \* bound: times state.json becomes unreadable at rest
  TornAppend,   \* may a failed or crashed append leave half a line?
  ReleaseMayFail \* may the release of the lock throw?

ASSUME StoreAssumption ==
  /\ Nobody \notin Process
  /\ MaxCommits \in Nat /\ MaxFaults \in Nat
  /\ MaxCrashes \in Nat /\ MaxDamages \in Nat
  /\ TornAppend \in BOOLEAN /\ ReleaseMayFail \in BOOLEAN

VARIABLES
  state,     \* state.json
  backup,    \* state.json.bak
  audit,     \* commit identities in audit.jsonl, in the order of its lines
  chain,     \* whether the lines of audit.jsonl form a hash chain, or the last is torn
  holder,    \* the runtime that holds the lock, or Nobody
  pc,        \* where each runtime is
  op,        \* the operation each runtime is executing
  work,      \* the state each runtime has in memory
  commit,    \* the commit identity an operation has drawn, or 0
  reply,     \* the result an operation is going to report
  issued,    \* commit identities drawn so far
  outcome,   \* what the caller was told of each commit
  undone,    \* history: commits undone by a recovery from the backup
  faults, crashes, damages

files == <<state, backup, audit, chain>>
local == <<pc, op, work, commit, reply>>
count == <<faults, crashes, damages>>
vars == <<files, local, count, holder, issued, outcome, undone>>

File == [form : {"missing", "damaged", "ok"}, commits : Seq(Nat)]
Missing == [form |-> "missing", commits |-> <<>>]
Damaged == [form |-> "damaged", commits |-> <<>>]
Content(cs) == [form |-> "ok", commits |-> cs]

Readable(f) == f.form = "ok"
\* What a caller may be told of a commit.  An error thrown by the release is
\* an ordinary error to the caller; it is told apart here to speak of it.
Outcome == {"none", "ok", "failed", "unknown", "release error"}
Members(s) == {s[i] : i \in DOMAIN s}
Increasing(s) == \A i, j \in DOMAIN s : i < j => s[i] < s[j]
Marker(cs) == cs[Len(cs)]
Audited(cs) == cs = <<>> \/ Marker(cs) \in Members(audit)

\* Phases of an operation between its acquireLock and its release.
Locked == {"read", "restore", "log", "reconcile", "mutate", "copy", "copying",
           "rename", "append", "release"}
Phase == Locked \cup {"down", "idle"}

Init ==
  /\ state = Missing /\ backup = Missing
  /\ audit = <<>> /\ chain = "intact"
  /\ holder = Nobody
  /\ pc = [p \in Process |-> "down"]
  /\ op = [p \in Process |-> "init"]
  /\ work = [p \in Process |-> <<>>]
  /\ commit = [p \in Process |-> 0]
  /\ reply = [p \in Process |-> "ok"]
  /\ issued = 0
  /\ outcome = [c \in 1..MaxCommits |-> "none"]
  /\ undone = {}
  /\ faults = 0 /\ crashes = 0 /\ damages = 0

Goto(p, phase) == pc' = [pc EXCEPT ![p] = phase]
Working(p, phase) == holder = p /\ pc[p] = phase

\* The operation is over but for the release of the lock.
Finish(p, result) ==
  /\ Goto(p, "release")
  /\ reply' = [reply EXCEPT ![p] = result]

-----------------------------------------------------------------------------
(* Opening an operation *)

Acquire(p, operation) ==
  /\ holder = Nobody /\ issued < MaxCommits
  /\ holder' = p
  /\ op' = [op EXCEPT ![p] = operation]
  /\ commit' = [commit EXCEPT ![p] = 0]
  /\ Goto(p, "read")
  /\ UNCHANGED <<files, work, reply, count, issued, outcome, undone>>

\* A runtime opens the store with init before it uses it.
Start(p) == pc[p] = "down" /\ Acquire(p, "init")

Begin(p) ==
  /\ pc[p] = "idle"
  /\ \E operation \in {"transaction", "reconcilePendingAudit"} : Acquire(p, operation)

\* init writes a first state when there is no state file; everything else
\* reads the file there is.
Creates(p) == op[p] = "init" /\ state.form = "missing"

\* read(): the state file is readable.
Read(p) ==
  /\ Working(p, "read") /\ Readable(state)
  /\ work' = [work EXCEPT ![p] = state.commits]
  /\ Goto(p, "reconcile")
  /\ UNCHANGED <<files, op, commit, reply, count, holder, issued, outcome, undone>>

\* read(): the state file cannot be read, because it is damaged or because the
\* call fails on a sound file (too many open files, an I/O error, a sharing
\* violation); read() takes the backup in either case.
ReadBackup(p) ==
  /\ Working(p, "read") /\ Readable(backup) /\ ~Creates(p)
  /\ IF Readable(state) THEN faults < MaxFaults /\ faults' = faults + 1
     ELSE UNCHANGED faults
  /\ work' = [work EXCEPT ![p] = backup.commits]
  /\ Goto(p, "restore")
  /\ UNCHANGED <<files, op, commit, reply, crashes, damages, holder, issued, outcome, undone>>

\* read(): neither file is readable.
ReadFails(p) ==
  /\ Working(p, "read") /\ ~Readable(state) /\ ~Readable(backup) /\ ~Creates(p)
  /\ Finish(p, "failed")
  /\ UNCHANGED <<files, op, work, commit, count, holder, issued, outcome, undone>>

\* #writeAtomic(recovered, {backup: false}), over a sound state file too: what
\* the backup does not contain is gone.
Restore(p) ==
  /\ Working(p, "restore")
  /\ state' = Content(work[p])
  /\ undone' = undone \cup (Members(state.commits) \ Members(work[p]))
  /\ Goto(p, "log")
  /\ UNCHANGED <<backup, audit, chain, op, work, commit, reply,
                 count, holder, issued, outcome>>

-----------------------------------------------------------------------------
(* The audit log: #inspectAudit and #appendAudit *)

\* Appends a line to an intact chain: of commit c, or of a recovery (c = 0).
AppendLine(c) ==
  /\ chain = "intact"
  /\ audit' = IF c = 0 THEN audit ELSE Append(audit, c)
  /\ UNCHANGED chain

\* The append throws, before or after the line is durable, or half-way.
AppendFault(c) ==
  /\ faults < MaxFaults
  /\ faults' = faults + 1
  /\ \/ UNCHANGED <<audit, chain>>
     \/ AppendLine(c)
     \/ /\ TornAppend /\ chain = "intact"
        /\ chain' = "torn"
        /\ UNCHANGED audit

\* state_recovered_from_backup.
LogRestore(p) ==
  /\ Working(p, "log")
  /\ AppendLine(0)
  /\ Goto(p, "reconcile")
  /\ UNCHANGED <<state, backup, op, work, commit, reply, count, holder,
                 issued, outcome, undone>>

\* What follows a verified or repaired marker: init has something to commit
\* when it finds requests in progress.
Reconciled(p) ==
  \/ op[p] \in {"init", "transaction"} /\ Goto(p, "mutate") /\ UNCHANGED reply
  \/ op[p] \in {"init", "reconcilePendingAudit"} /\ Finish(p, "ok")

\* Mutant: the marker is not looked up in the log.
AlreadyAudited_Skipped(p) ==
  /\ Working(p, "reconcile") /\ chain = "intact"
  /\ Reconciled(p)
  /\ UNCHANGED <<files, op, work, commit, count, holder, issued, outcome, undone>>

\* #reconcileStateCommitAudit: the marker of the state is in the log ...
AlreadyAudited(p) ==
  /\ Working(p, "reconcile") /\ chain = "intact" /\ Audited(work[p])
  /\ Reconciled(p)
  /\ UNCHANGED <<files, op, work, commit, count, holder, issued, outcome, undone>>

\* Mutant: the marker is appended without being looked up.
RepairAudit_Blind(p) ==
  /\ Working(p, "reconcile") /\ work[p] # <<>>
  /\ AppendLine(Marker(work[p]))
  /\ Reconciled(p)
  /\ UNCHANGED <<state, backup, op, work, commit, count, holder, issued,
                 outcome, undone>>

\* ... or it is missing there, and is appended.
RepairAudit(p) ==
  /\ Working(p, "reconcile") /\ ~Audited(work[p])
  /\ AppendLine(Marker(work[p]))
  /\ Reconciled(p)
  /\ UNCHANGED <<state, backup, op, work, commit, count, holder, issued,
                 outcome, undone>>

\* STATE_AUDIT_INTEGRITY_FAILURE: the log is not a chain.
AuditRefused(p) ==
  /\ Working(p, "log") \/ Working(p, "reconcile")
  /\ chain # "intact"
  /\ Finish(p, "failed")
  /\ UNCHANGED <<files, op, work, commit, count, holder, issued, outcome, undone>>

\* The append of a recovery or of a repair throws.
RepairFails(p) ==
  /\ \/ Working(p, "log") /\ AppendFault(0)
     \/ Working(p, "reconcile") /\ ~Audited(work[p])
        /\ AppendFault(Marker(work[p]))
  /\ Finish(p, "failed")
  /\ UNCHANGED <<state, backup, op, work, commit, crashes, damages, holder,
                 issued, outcome, undone>>

-----------------------------------------------------------------------------
(* Committing *)

\* #attachStateCommit on the state in memory.
Attach(p, base) ==
  /\ issued < MaxCommits
  /\ issued' = issued + 1
  /\ commit' = [commit EXCEPT ![p] = issued + 1]
  /\ work' = [work EXCEPT ![p] = Append(base, issued + 1)]

\* init on an empty directory: no backup is made of what does not exist.
Create(p) ==
  /\ Working(p, "read") /\ Creates(p)
  /\ Attach(p, <<>>)
  /\ Goto(p, "rename")
  /\ UNCHANGED <<files, op, reply, count, holder, outcome, undone>>

Mutate(p) ==
  /\ Working(p, "mutate")
  /\ Attach(p, work[p])
  /\ Goto(p, "copy")
  /\ UNCHANGED <<files, op, reply, count, holder, outcome, undone>>

\* Mutant: a result nobody knows.
MutatorThrows_Aborts(p) ==
  /\ Working(p, "mutate") /\ op[p] = "transaction"
  /\ Finish(p, "aborted")
  /\ UNCHANGED <<files, op, work, commit, count, holder, issued, outcome, undone>>

\* The mutator throws; nothing has been written.
MutatorThrows(p) ==
  /\ Working(p, "mutate") /\ op[p] = "transaction"
  /\ Finish(p, "failed")
  /\ UNCHANGED <<files, op, work, commit, count, holder, issued, outcome, undone>>

\* fs.copyFile(statePath, backupPath) first truncates the backup.
CopyStart(p) ==
  /\ Working(p, "copy")
  /\ backup' = Damaged
  /\ Goto(p, "copying")
  /\ UNCHANGED <<state, audit, chain, op, work, commit, reply,
                 count, holder, issued, outcome, undone>>

\* Mutant: the log is written before the state is replaced.
CopyEnd_AuditFirst(p) ==
  /\ Working(p, "copying")
  /\ backup' = state
  /\ AppendLine(commit[p])
  /\ Goto(p, "rename")
  /\ UNCHANGED <<state, op, work, commit, reply, count, holder, issued,
                 outcome, undone>>

CopyEnd(p) ==
  /\ Working(p, "copying")
  /\ backup' = state
  /\ Goto(p, "rename")
  /\ UNCHANGED <<state, audit, chain, op, work, commit, reply,
                 count, holder, issued, outcome, undone>>

\* fs.rename(tempPath, statePath): the commit point.
Rename(p) ==
  /\ Working(p, "rename")
  /\ state' = Content(work[p])
  /\ Goto(p, "append")
  /\ UNCHANGED <<backup, audit, chain, op, work, commit, reply,
                 count, holder, issued, outcome, undone>>

\* A file system call before the commit point throws and nothing is done about
\* it; in "read" that is ensureDir, or the reading of the backup.
WriteFails(p) ==
  /\ pc[p] \in {"read", "restore", "copy", "copying", "rename"} /\ holder = p
  /\ faults < MaxFaults
  /\ faults' = faults + 1
  /\ Finish(p, "failed")
  /\ UNCHANGED <<files, op, work, commit, crashes, damages, holder, issued,
                 outcome, undone>>

\* #finishStateCommitAudit.
FinishAudit(p) ==
  /\ Working(p, "append")
  /\ AppendLine(commit[p])
  /\ Finish(p, "ok")
  /\ UNCHANGED <<state, backup, op, work, commit, count, holder, issued,
                 outcome, undone>>

\* Mutant: the error of the append is passed on as it is.
FinishUnknown_Raw(p) ==
  /\ Working(p, "append")
  /\ \/ AppendFault(commit[p])
     \/ chain # "intact" /\ UNCHANGED <<audit, chain, faults>>
  /\ Finish(p, "failed")
  /\ UNCHANGED <<state, backup, op, work, commit, crashes, damages, holder,
                 issued, outcome, undone>>

\* STATE_COMMIT_AUDIT_OUTCOME_UNKNOWN, whatever went wrong after the commit.
FinishUnknown(p) ==
  /\ Working(p, "append")
  /\ \/ AppendFault(commit[p])
     \/ chain # "intact" /\ UNCHANGED <<audit, chain, faults>>
  /\ Finish(p, "unknown")
  /\ UNCHANGED <<state, backup, op, work, commit, crashes, damages, holder,
                 issued, outcome, undone>>

-----------------------------------------------------------------------------
(* Ending an operation *)

\* The caller learns the result; a runtime whose init fails does not come up.
Report(p, result) ==
  /\ outcome' = IF commit[p] = 0 THEN outcome
                ELSE [outcome EXCEPT ![commit[p]] = result]
  /\ Goto(p, IF op[p] = "init" /\ result # "ok" THEN "down" ELSE "idle")
  /\ commit' = [commit EXCEPT ![p] = 0]

\* Mutant: the lock is released on success only.
Release_OnSuccess(p) ==
  /\ Working(p, "release") /\ reply[p] = "ok"
  /\ holder' = Nobody
  /\ Report(p, reply[p])
  /\ UNCHANGED <<files, op, work, reply, count, issued, undone>>

Release(p) ==
  /\ Working(p, "release")
  /\ holder' = Nobody
  /\ Report(p, reply[p])
  /\ UNCHANGED <<files, op, work, reply, count, issued, undone>>

\* The release throws from the finally block: its error replaces the result.
\* The lock file stays until its owner is gone.
ReleaseFails(p) ==
  /\ ReleaseMayFail /\ Working(p, "release")
  /\ faults < MaxFaults
  /\ faults' = faults + 1
  /\ Report(p, "release error")
  /\ UNCHANGED <<files, op, work, reply, crashes, damages, holder, issued, undone>>

-----------------------------------------------------------------------------
(* The world *)

\* A runtime dies; the lock it held is reclaimed.  An append under way may
\* have left half a line.
Crash(p) ==
  /\ pc[p] # "down" \/ holder = p
  /\ crashes < MaxCrashes
  /\ crashes' = crashes + 1
  /\ holder' = IF holder = p THEN Nobody ELSE holder
  /\ chain' \in IF TornAppend /\ chain = "intact" /\ pc[p] \in {"log", "reconcile", "append"}
                THEN {chain, "torn"} ELSE {chain}
  /\ Goto(p, "down")
  /\ commit' = [commit EXCEPT ![p] = 0]
  /\ UNCHANGED <<state, backup, audit, op, work, reply, faults,
                 damages, issued, outcome, undone>>

\* state.json becomes unreadable while nobody works on the store: the commits
\* the backup does not contain are gone.
Damage ==
  /\ holder = Nobody /\ Readable(state) /\ damages < MaxDamages
  /\ damages' = damages + 1
  /\ state' = Damaged
  /\ undone' = undone \cup (Members(state.commits) \ Members(backup.commits))
  /\ UNCHANGED <<backup, audit, chain, local, faults, crashes, holder,
                 issued, outcome>>

-----------------------------------------------------------------------------

\* What a runtime does of its own accord while an operation is under way.
Advance(p) ==
  \/ Create(p) \/ Read(p) \/ ReadBackup(p) \/ ReadFails(p)
  \/ Restore(p) \/ LogRestore(p)
  \/ AlreadyAudited(p) \/ RepairAudit(p) \/ AuditRefused(p)
  \/ Mutate(p) \/ MutatorThrows(p)
  \/ CopyStart(p) \/ CopyEnd(p) \/ Rename(p)
  \/ FinishAudit(p) \/ FinishUnknown(p) \/ Release(p)

Next ==
  \/ \E p \in Process :
       \/ Start(p) \/ Begin(p) \/ Advance(p)
       \/ RepairFails(p) \/ WriteFails(p) \/ ReleaseFails(p) \/ Crash(p)
  \/ Damage

Spec == Init /\ [][Next]_vars

\* A live runtime carries its operation on.
FairSpec == Spec /\ \A p \in Process : WF_vars(Advance(p))

-----------------------------------------------------------------------------
(* Properties *)

FileType ==
  /\ state \in File /\ backup \in File
  /\ audit \in Seq(Nat)
  /\ chain \in {"intact", "torn"}

PhaseType == pc \in [Process -> Phase]

LocalType ==
  /\ op \in [Process -> {"init", "transaction", "reconcilePendingAudit"}]
  /\ work \in [Process -> Seq(Nat)]
  /\ commit \in [Process -> 0..MaxCommits]
  /\ reply \in [Process -> {"ok", "failed", "unknown"}]

CountType ==
  /\ holder \in Process \cup {Nobody}
  /\ issued \in 0..MaxCommits
  /\ outcome \in [1..MaxCommits -> Outcome]
  /\ faults \in Nat /\ crashes \in Nat /\ damages \in Nat

\* Types of the variables.
TypeOK == FileType /\ PhaseType /\ LocalType /\ CountType

\* The commits that a reader of the store finds now, or after a recovery.
Durable ==
  IF Readable(state) THEN state.commits
  ELSE IF Readable(backup) THEN backup.commits ELSE <<>>

\* No commit is audited twice, and the log tells of the commits in the order
\* in which they were made, whatever fails between the rename and the append
\* and whoever repairs it ("Missing audit is repaired exactly once").
AuditInOrder == Increasing(audit)

\* No transaction builds on a commit the log does not tell of: only the last
\* commit of the state, or of the backup, can be missing from it.
AuditCoversState ==
  \A i \in 1..(Len(Durable) - 1) : Durable[i] \in Members(audit)

\* A recovery undoes at most one commit: the backup, once written, is the
\* state or the state before its last commit.
BackupFollows ==
  Readable(state) /\ Readable(backup) =>
    \/ state.commits = backup.commits
    \/ \E c \in 1..MaxCommits : state.commits = Append(backup.commits, c)

\* However crashes and failures fall between the copy, the rename and the append,
\* the log and the backup are one commit behind the state at most.
OneCommitBehind == AuditCoversState /\ BackupFollows

\* What a caller was told has been committed, "ok" or with an unknown audit
\* outcome, is in the store unless a recovery from the backup undid it, of a
\* damaged state file or of a sound one that could not be read in that moment;
\* and of an "ok" the log tells.
AcknowledgedSurvives ==
  \A c \in 1..MaxCommits :
    /\ outcome[c] \in {"ok", "unknown"} => c \in Members(Durable) \cup undone
    /\ outcome[c] = "ok" => c \in Members(audit)

\* An error of the operation itself means that nothing was committed: the
\* caller counts on it and records the request as failed (app.mjs callTool).
FailedMeansNotCommitted ==
  \A c \in 1..MaxCommits :
    outcome[c] = "failed" =>
      c \notin Members(state.commits) \cup Members(backup.commits) \cup Members(audit)

\* What a caller was told is true for good, in both directions.
AnswersAreTrue == AcknowledgedSurvives /\ FailedMeansNotCommitted

\* "Veteran reports an unknown durable outcome rather than pretending normal
\* success or failure" (README.md): no ordinary error, not even one of the
\* release of the lock, hides a durable commit.
ErrorsHideNoCommit ==
  \A c \in 1..MaxCommits :
    outcome[c] \in {"failed", "release error"} => c \notin Members(Durable)

\* The store implements the journal: its durable commits and its log.
Journal == INSTANCE AuditedJournal WITH committed <- Durable, audited <- audit
ImplementsJournal == Journal!Spec

\* Every operation that took the lock ends, whatever it found in the files
\* and whatever failed.
OperationEnds ==
  \A p \in Process : pc[p] \in Locked ~> pc[p] \notin Locked

=============================================================================
