-------------------------- MODULE StateStore_proofs --------------------------
(***************************************************************************)
(* Proofs about the local JSON store, for any number of runtimes, commits, *)
(* failed calls, crashes and damages.                                      *)
(***************************************************************************)
EXTENDS StateStore, SequenceTheorems, TLAPS

-----------------------------------------------------------------------------
(* Types *)

LEMMA FileFacts ==
  /\ Missing \in File /\ Damaged \in File
  /\ \A cs \in Seq(Nat) : Content(cs) \in File
  /\ \A f \in File : f.commits \in Seq(Nat)
  BY DEF File, Missing, Damaged, Content

LEMMA TypeInit == Init => TypeOK
<1> SUFFICES ASSUME Init PROVE TypeOK
  OBVIOUS
<1>1. FileType
  BY FileFacts DEF Init, FileType
<1>2. PhaseType
  BY StoreAssumption DEF Init, PhaseType, Phase
<1>3. LocalType /\ CountType
  BY StoreAssumption DEF Init, LocalType, CountType, Outcome
<1> QED
  BY <1>1, <1>2, <1>3 DEF TypeOK

\* A runtime that moves to a phase of its own keeps the types of all phases.
LEMMA GotoType ==
  ASSUME PhaseType, NEW p \in Process, NEW phase \in Phase, Goto(p, phase)
  PROVE  PhaseType'
  BY StoreAssumption DEF PhaseType, Goto

LEMMA PhaseNames ==
  {"read", "restore", "log", "reconcile", "mutate", "copy", "copying",
   "rename", "append", "release", "down", "idle"} \subseteq Phase
  BY DEF Phase, Locked

LEMMA PhaseStep == TypeOK /\ [Next]_vars => PhaseType'
<1> SUFFICES ASSUME PhaseType, [Next]_vars PROVE PhaseType'
  BY DEF TypeOK
<1>1. ASSUME NEW p \in Process, Start(p) \/ Begin(p) \/ Advance(p) \/ RepairFails(p)
                                \/ WriteFails(p) \/ ReleaseFails(p) \/ Crash(p)
      PROVE  \E phase \in Phase : Goto(p, phase)
  BY <1>1, PhaseNames
     DEF Start, Begin, Acquire, Advance, Create, Read, ReadBackup, ReadFails,
     Restore, LogRestore, AlreadyAudited, RepairAudit, AuditRefused, Mutate,
     MutatorThrows, CopyStart, CopyEnd, Rename, FinishAudit, FinishUnknown,
     Release, RepairFails, WriteFails, ReleaseFails, Crash, Reconciled, Report,
     Finish
<1>2. CASE Damage \/ UNCHANGED vars
  BY <1>2 DEF Damage, vars, local, PhaseType
<1> QED
  BY <1>1, <1>2, GotoType DEF Next

\* What the two appends do to the log, for a commit or a recovery.
LEMMA AppendTypes ==
  ASSUME FileType, faults \in Nat, NEW c \in Nat, AppendLine(c) \/ AppendFault(c)
  PROVE  audit' \in Seq(Nat) /\ chain' \in {"intact", "torn"}
<1>1. CASE AppendLine(c)
  BY <1>1 DEF AppendLine, FileType
<1>2. CASE AppendFault(c)
  BY <1>1, <1>2 DEF AppendFault, FileType
<1> QED
  BY <1>1, <1>2

LEMMA FileStep == TypeOK /\ [Next]_vars => FileType'
<1> SUFFICES ASSUME TypeOK, [Next]_vars PROVE FileType'
  OBVIOUS
<1>0. FileType /\ LocalType /\ CountType
  BY DEF TypeOK
<1>1. ASSUME NEW p \in Process PROVE work[p] \in Seq(Nat) /\ commit[p] \in Nat
  BY <1>0, StoreAssumption DEF LocalType
<1>2. ASSUME NEW p \in Process, ~Audited(work[p]) PROVE Marker(work[p]) \in Nat
  BY <1>1, <1>2 DEF Audited, Marker
<1>3. ASSUME NEW p \in Process, Restore(p) \/ Rename(p) \/ CopyStart(p) \/ CopyEnd(p)
      PROVE  FileType'
  BY <1>0, <1>1, <1>3, FileFacts
     DEF Restore, Rename, CopyStart, CopyEnd, FileType
<1>4. ASSUME NEW p \in Process,
             LogRestore(p) \/ RepairAudit(p) \/ FinishAudit(p) \/ FinishUnknown(p)
             \/ RepairFails(p)
      PROVE  FileType'
  <2>1. /\ state' = state /\ backup' = backup
        /\ \/ \E c \in Nat : AppendLine(c) \/ AppendFault(c)
           \/ UNCHANGED <<audit, chain>>
    BY <1>1, <1>2, <1>4
       DEF LogRestore, RepairAudit, FinishAudit, FinishUnknown, RepairFails
  <2> QED
    BY <1>0, <2>1, AppendTypes DEF FileType, CountType
<1>6. CASE Damage
  BY <1>0, <1>6, FileFacts DEF Damage, FileType
<1>7. ASSUME NEW p \in Process, Crash(p) PROVE FileType'
  BY <1>0, <1>7 DEF Crash, FileType
<1>8. CASE UNCHANGED files
  BY <1>0, <1>8 DEF files, FileType
<1>9. ASSUME NEW p \in Process,
             \/ Start(p) \/ Begin(p) \/ Create(p) \/ Read(p) \/ ReadBackup(p)
             \/ ReadFails(p) \/ AlreadyAudited(p) \/ AuditRefused(p) \/ Mutate(p)
             \/ MutatorThrows(p) \/ Release(p) \/ WriteFails(p) \/ ReleaseFails(p)
      PROVE  UNCHANGED files
  BY <1>9 DEF Start, Begin, Acquire, Create, Read, ReadBackup, ReadFails,
     AlreadyAudited, AuditRefused, Mutate, MutatorThrows, Release, WriteFails,
     ReleaseFails
<1> QED
  BY <1>3, <1>4, <1>6, <1>7, <1>8, <1>9 DEF Next, Advance, vars

LEMMA LocalStep == TypeOK /\ [Next]_vars => LocalType'
<1> SUFFICES ASSUME LocalType, FileType, CountType, [Next]_vars PROVE LocalType'
  BY DEF TypeOK
<1> USE StoreAssumption DEF Goto
<1>0. 0 \in 0..MaxCommits
  OBVIOUS
<1>1. ASSUME NEW p \in Process, Start(p) \/ Begin(p) PROVE LocalType'
  <2>1. PICK o \in {"init", "transaction", "reconcilePendingAudit"} : Acquire(p, o)
    BY <1>1 DEF Start, Begin
  <2> QED
    BY <1>0, <2>1 DEF Acquire, LocalType
<1>2. ASSUME NEW p \in Process, Read(p) \/ ReadBackup(p) PROVE LocalType'
  BY <1>2, FileFacts DEF Read, ReadBackup, LocalType, FileType
<1>3. ASSUME NEW p \in Process, Create(p) \/ Mutate(p) PROVE LocalType'
  <2>1. work[p] \in Seq(Nat) /\ <<>> \in Seq(Nat) /\ issued \in Nat
    BY DEF LocalType, CountType
  <2>2. PICK base \in {<<>>, work[p]} : Attach(p, base)
    BY <1>3 DEF Create, Mutate
  <2>3. Append(base, issued + 1) \in Seq(Nat)
    <3>1. base \in Seq(Nat)
      BY <2>1, <2>2, Zenon
    <3> QED
      BY <2>1, <3>1
  <2>5. issued + 1 \in 0..MaxCommits
    BY <2>1, <2>2 DEF Attach, CountType
  <2>4. /\ commit' = [commit EXCEPT ![p] = issued + 1]
        /\ work' = [work EXCEPT ![p] = Append(base, issued + 1)]
        /\ UNCHANGED <<op, reply>>
    BY <1>3, <2>2 DEF Create, Mutate, Attach
  <2> QED
    BY <2>3, <2>4, <2>5 DEF LocalType
<1>4. ASSUME NEW p \in Process,
             \/ ReadFails(p) \/ AuditRefused(p) \/ MutatorThrows(p) \/ WriteFails(p)
             \/ RepairFails(p) \/ FinishUnknown(p) \/ FinishAudit(p)
             \/ AlreadyAudited(p) \/ RepairAudit(p)
      PROVE  LocalType'
  BY <1>4 DEF ReadFails, AuditRefused, MutatorThrows, WriteFails, RepairFails,
     FinishUnknown, FinishAudit, AlreadyAudited, RepairAudit, Reconciled, Finish,
     LocalType
<1>5. ASSUME NEW p \in Process, Release(p) \/ ReleaseFails(p) \/ Crash(p)
      PROVE  LocalType'
  <2>1. commit' = [commit EXCEPT ![p] = 0] /\ UNCHANGED <<op, work, reply>>
    BY <1>5 DEF Release, ReleaseFails, Crash, Report
  <2> QED
    BY <1>0, <2>1 DEF LocalType
<1>6. ASSUME NEW p \in Process,
             \/ Restore(p) \/ LogRestore(p) \/ CopyStart(p) \/ CopyEnd(p) \/ Rename(p)
      PROVE  LocalType'
  BY <1>6 DEF Restore, LogRestore, CopyStart, CopyEnd, Rename, LocalType
<1>8. CASE Damage \/ UNCHANGED vars
  BY <1>8 DEF Damage, vars, local, LocalType
<1> QED
  BY <1>1, <1>2, <1>3, <1>4, <1>5, <1>6, <1>8 DEF Next, Advance

LEMMA CountStep == TypeOK /\ [Next]_vars => CountType'
<1> SUFFICES ASSUME LocalType, CountType, [Next]_vars PROVE CountType'
  BY DEF TypeOK
<1> USE StoreAssumption DEF CountType, count
<1>1. ASSUME NEW p \in Process, Start(p) \/ Begin(p) \/ Create(p) \/ Mutate(p)
      PROVE  CountType'
  BY <1>1 DEF Start, Begin, Acquire, Create, Mutate, Attach
<1>2. ASSUME NEW p \in Process,
             \/ Read(p) \/ ReadBackup(p) \/ ReadFails(p) \/ AlreadyAudited(p)
             \/ AuditRefused(p) \/ MutatorThrows(p) \/ Restore(p) \/ LogRestore(p)
             \/ CopyStart(p) \/ CopyEnd(p) \/ Rename(p) \/ FinishAudit(p)
             \/ RepairAudit(p)
      PROVE  CountType'
  BY <1>2 DEF Read, ReadBackup, ReadFails, AlreadyAudited, AuditRefused,
     MutatorThrows, Restore, LogRestore, CopyStart, CopyEnd, Rename,
     FinishAudit, RepairAudit
<1>3. ASSUME NEW p \in Process, WriteFails(p) \/ RepairFails(p) \/ FinishUnknown(p)
      PROVE  CountType'
  BY <1>3 DEF WriteFails, RepairFails, FinishUnknown, AppendFault
<1>4. ASSUME NEW p \in Process, Release(p) \/ ReleaseFails(p) \/ Crash(p)
      PROVE  CountType'
  <2>1. /\ issued' = issued /\ damages' = damages
        /\ faults' \in {faults, faults + 1} /\ crashes' \in {crashes, crashes + 1}
        /\ holder' \in {holder, Nobody}
    BY <1>4 DEF Release, ReleaseFails, Crash
  <2>2. \/ outcome' = outcome
        \/ \E result \in Outcome :
             outcome' = [outcome EXCEPT ![commit[p]] = result]
    BY <1>4 DEF Release, ReleaseFails, Crash, Report, LocalType, Outcome
  <2> QED
    BY <2>1, <2>2
<1>6. CASE Damage \/ UNCHANGED vars
  BY <1>6 DEF Damage, vars
<1> QED
  BY <1>1, <1>2, <1>3, <1>4, <1>6 DEF Next, Advance

\* The variables of the store keep their types.
THEOREM StoreTypes == Spec => []TypeOK
<1>1. TypeOK /\ [Next]_vars => TypeOK'
  BY FileStep, PhaseStep, LocalStep, CountStep DEF TypeOK
<1> QED
  BY TypeInit, <1>1, PTL DEF Spec

-----------------------------------------------------------------------------
(* The invariant of the store under the lock.  Without it the properties    *)
(* are not inductive: they say nothing of what an operation has in memory,  *)
(* and it is the memory that becomes the next state.                        *)

Drawn(s) == \A i \in DOMAIN s : s[i] \in 1..issued
Below(s, c) == \A i \in DOMAIN s : s[i] < c
AllAudited(s) == \A i \in DOMAIN s : s[i] \in Members(audit)

\* Only the holder of the lock is inside an operation.
HolderWorks ==
  \A p \in Process :
    /\ pc[p] \in Locked => holder = p
    /\ commit[p] # 0 => holder = p

\* The log and the backup: identities are drawn in increasing order, and the
\* backup is audited.
LogInv ==
  /\ Drawn(audit) /\ Increasing(audit)
  /\ Drawn(backup.commits) /\ Increasing(backup.commits)
  /\ AllAudited(backup.commits)
  /\ ~Readable(backup) => backup.commits = <<>>

\* The state is audited but for its last commit, which is then younger than
\* whatever is audited.
StateInv ==
  LET cs == state.commits IN
  /\ Drawn(cs) /\ Increasing(cs)
  /\ \A i \in DOMAIN cs : i < Len(cs) => cs[i] \in Members(audit)
  /\ cs # <<>> /\ Marker(cs) \notin Members(audit) => Below(audit, Marker(cs))
  /\ ~Readable(state) => cs = <<>>
  /\ state.form = "missing" => backup.commits = <<>>

\* What the operation of p has in memory, phase by phase.
InMemory(p) ==
  /\ pc[p] = "restore" =>
       Readable(backup) /\ work[p] = backup.commits
  /\ pc[p] \in {"log", "reconcile", "mutate"} =>
       Readable(state) /\ work[p] = state.commits
  /\ pc[p] = "mutate" => AllAudited(state.commits)
  /\ pc[p] \in {"copy", "copying", "rename"} =>
       /\ state.form # "damaged" /\ AllAudited(state.commits)
       /\ commit[p] = issued /\ issued # 0
       /\ work[p] = Append(state.commits, issued)
       /\ Below(audit, issued) /\ Below(state.commits, issued)
  /\ pc[p] \in {"copy", "copying"} => Readable(state)
  /\ pc[p] = "rename" /\ Readable(backup) => backup.commits = state.commits
  /\ pc[p] = "append" =>
       /\ Readable(state) /\ state.commits # <<>>
       /\ commit[p] = issued /\ issued # 0
       /\ Marker(state.commits) = issued
       /\ Below(audit, issued)

StoreInv ==
  /\ TypeOK /\ HolderWorks /\ LogInv /\ StateInv /\ BackupFollows
  /\ \A p \in Process : InMemory(p)

LEMMA StoreInit == Init => StoreInv
<1> SUFFICES ASSUME Init PROVE StoreInv
  OBVIOUS
<1>1. /\ state.commits = <<>> /\ backup.commits = <<>> /\ audit = <<>>
      /\ state.form = "missing" /\ backup.form = "missing"
  BY DEF Init, Missing
<1>2. LogInv /\ StateInv /\ BackupFollows
  BY <1>1 DEF LogInv, StateInv, BackupFollows, Drawn, Increasing, AllAudited, Readable
<1>3. HolderWorks /\ \A p \in Process : InMemory(p)
  BY DEF Init, HolderWorks, InMemory, Locked
<1> QED
  BY TypeInit, <1>2, <1>3 DEF StoreInv

LEMMA AppendFacts ==
  ASSUME NEW s \in Seq(Nat), NEW c \in Nat
  PROVE  /\ Len(s) \in Nat /\ DOMAIN s = 1..Len(s)
         /\ Len(Append(s, c)) = Len(s) + 1
         /\ DOMAIN Append(s, c) = 1..(Len(s) + 1)
         /\ \A i \in 1..Len(s) : Append(s, c)[i] = s[i]
         /\ Append(s, c)[Len(s) + 1] = c
         /\ Append(s, c) # <<>>
<1>1. Len(Append(s, c)) # Len(<<>>)
  OBVIOUS
<1> QED
  BY <1>1

\* The log grows by a commit younger than all it tells of.
LEMMA LogAppend ==
  ASSUME LogInv, StateInv, audit \in Seq(Nat), issued \in Nat,
         NEW c \in 1..issued, Below(audit, c), audit' = Append(audit, c),
         UNCHANGED <<state, backup, issued>>,
         state.commits \in Seq(Nat), state.commits # <<>> /\ Marker(state.commits) = c
  PROVE  /\ LogInv' /\ StateInv'
         /\ Members(audit) \subseteq Members(audit')
         /\ AllAudited(state.commits)'
<1>1. /\ audit' \in Seq(Nat) /\ Len(audit') = Len(audit) + 1
      /\ \A i \in 1..Len(audit) : audit'[i] = audit[i]
      /\ audit'[Len(audit) + 1] = c
      /\ DOMAIN audit = 1..Len(audit) /\ DOMAIN audit' = 1..(Len(audit) + 1)
      /\ Len(audit) \in Nat
  OBVIOUS
<1>2. Members(audit) \subseteq Members(audit') /\ c \in Members(audit')
  BY <1>1 DEF Members
<1>3. LogInv'
  BY <1>1, <1>2 DEF LogInv, Drawn, Increasing, Below, AllAudited, Readable
<1>4. StateInv' /\ AllAudited(state.commits)'
  BY <1>2 DEF StateInv, AllAudited, Drawn, Increasing, Below, Readable, Marker
<1> QED
  BY <1>2, <1>3, <1>4

\* Drawing an identity, or nothing at all, happens to the files.
LEMMA FilesKept ==
  ASSUME LogInv, StateInv, BackupFollows, issued \in Nat,
         issued' \in {issued, issued + 1}, UNCHANGED <<state, backup, audit>>
  PROVE  LogInv' /\ StateInv' /\ BackupFollows'
  BY DEF LogInv, StateInv, BackupFollows, Drawn, Increasing, AllAudited, Below,
     Readable, Members, Marker

\* A runtime outside an operation has nothing to vouch for.
LEMMA OutsideInMemory ==
  ASSUME NEW p \in Process, pc[p] \notin Locked \/ pc[p] \in {"read", "release"}
  PROVE  InMemory(p)
  BY DEF InMemory, Locked

LEMMA HolderStep ==
  ASSUME TypeOK, HolderWorks, [Next]_vars
  PROVE  HolderWorks'
<1> USE StoreAssumption DEF Goto, Working, Locked
<1>0. /\ pc \in [Process -> Phase] /\ commit \in [Process -> 0..MaxCommits]
      /\ 0 \in 0..MaxCommits
  BY DEF TypeOK, PhaseType, LocalType
<1>1. ASSUME NEW p \in Process, Start(p) \/ Begin(p) PROVE HolderWorks'
  <2>1. /\ holder = Nobody /\ holder' = p /\ commit' = [commit EXCEPT ![p] = 0]
        /\ pc' = [pc EXCEPT ![p] = "read"]
    BY <1>1 DEF Start, Begin, Acquire
  <2> QED
    BY <1>0, <2>1 DEF HolderWorks
<1>2. ASSUME NEW p \in Process, Release(p) \/ ReleaseFails(p) PROVE HolderWorks'
  <2>1. /\ commit' = [commit EXCEPT ![p] = 0]
        /\ \E phase \in {"idle", "down"} : pc' = [pc EXCEPT ![p] = phase]
        /\ holder = p
    BY <1>2 DEF Release, ReleaseFails, Report
  <2> QED
    BY <1>0, <2>1 DEF HolderWorks
<1>3. ASSUME NEW p \in Process, Crash(p) PROVE HolderWorks'
  BY <1>0, <1>3 DEF Crash, HolderWorks
<1>4. ASSUME NEW p \in Process, holder = p, holder' = holder,
             \E phase \in Phase : pc' = [pc EXCEPT ![p] = phase],
             \/ commit' = commit
             \/ commit' = [commit EXCEPT ![p] = issued + 1]
      PROVE  HolderWorks'
  BY <1>0, <1>4 DEF HolderWorks
<1>5. ASSUME NEW p \in Process, Advance(p) \/ RepairFails(p) \/ WriteFails(p), ~Release(p)
      PROVE  /\ holder = p /\ holder' = holder
             /\ \E phase \in Phase : pc' = [pc EXCEPT ![p] = phase]
             /\ \/ commit' = commit
                \/ commit' = [commit EXCEPT ![p] = issued + 1]
  <2>1. CASE Create(p) \/ Mutate(p)
    BY <2>1, PhaseNames DEF Create, Mutate, Attach
  <2>2. CASE ~(Create(p) \/ Mutate(p))
    BY <1>5, <2>2, PhaseNames
       DEF Advance, Read, ReadBackup, ReadFails, Restore, LogRestore,
       AlreadyAudited, RepairAudit, AuditRefused, MutatorThrows, CopyStart,
       CopyEnd, Rename, FinishAudit, FinishUnknown, RepairFails, WriteFails,
       Reconciled, Finish
  <2> QED
    BY <2>1, <2>2
<1>6. CASE Damage \/ UNCHANGED vars
  BY <1>6 DEF Damage, vars, local, HolderWorks
<1> QED
  BY <1>1, <1>2, <1>3, <1>4, <1>5, <1>6 DEF Next, Advance

\* The parts of the invariant that the steps of p can disturb.
StepGoal(p) == LogInv' /\ StateInv' /\ BackupFollows' /\ InMemory(p)'

\* What a step of p may take for granted.
Given ==
  /\ StoreInv /\ TypeOK'
  /\ state.commits \in Seq(Nat) /\ backup.commits \in Seq(Nat) /\ audit \in Seq(Nat)
  /\ issued \in Nat /\ MaxCommits \in Nat

\* Steps that only move p to a phase in which nothing is vouched for.
LEMMA QuietStep ==
  ASSUME Given, NEW p \in Process,
         UNCHANGED <<state, backup, audit>>, issued' \in {issued, issued + 1},
         pc'[p] \notin Locked \/ pc'[p] \in {"read", "release"}
  PROVE  StepGoal(p)
<1>1. LogInv' /\ StateInv' /\ BackupFollows'
  BY FilesKept DEF Given, StoreInv
<1>2. InMemory(p)'
  BY DEF InMemory, Locked
<1> QED
  BY <1>1, <1>2 DEF StepGoal

LEMMA ReadingStep ==
  ASSUME Given, NEW p \in Process,
         Create(p) \/ Read(p) \/ ReadBackup(p) \/ AlreadyAudited(p) \/ Mutate(p)
  PROVE  StepGoal(p)
<1> USE StoreAssumption DEF Goto, Working
<1>0. /\ p \in DOMAIN pc /\ p \in DOMAIN work /\ p \in DOMAIN commit
      /\ StoreInv /\ InMemory(p)
  BY DEF Given, StoreInv, TypeOK, PhaseType, LocalType
<1>1. UNCHANGED <<state, backup, audit>> /\ issued' \in {issued, issued + 1}
  BY DEF Create, Read, ReadBackup, AlreadyAudited, Mutate, Attach, files
<1>2. LogInv' /\ StateInv' /\ BackupFollows'
  BY <1>1, FilesKept DEF Given, StoreInv
<1>3. CASE Create(p)
  <2>1. /\ state.form = "missing" /\ state.commits = <<>> /\ audit = audit'
        /\ state' = state /\ backup' = backup /\ backup.commits = <<>>
    BY <1>0, <1>1, <1>3 DEF Create, Creates, StoreInv, StateInv, Readable
  <2>2. /\ pc'[p] = "rename" /\ commit'[p] = issued' /\ issued' = issued + 1
        /\ work'[p] = Append(state.commits, issued')
    BY <1>0, <1>3, <2>1 DEF Create, Attach
  <2> QED
    BY <1>2, <2>1, <2>2 DEF StepGoal, InMemory, Given, StoreInv, LogInv, StateInv,
       Drawn, Below, AllAudited
<1>4. CASE Read(p)
  BY <1>0, <1>1, <1>2, <1>4 DEF Read, StepGoal, InMemory, Readable
<1>5. CASE ReadBackup(p)
  BY <1>0, <1>1, <1>2, <1>5 DEF ReadBackup, StepGoal, InMemory, Readable
<1>6. CASE AlreadyAudited(p)
  <2>1. Readable(state) /\ work[p] = state.commits /\ Audited(state.commits)
    BY <1>0, <1>6 DEF AlreadyAudited, InMemory
  <2>2. AllAudited(state.commits)
    BY <1>0, <2>1 DEF StoreInv, StateInv, Audited, Marker, AllAudited, Given
  <2> QED
    BY <1>0, <1>1, <1>2, <1>6, <2>1, <2>2
       DEF AlreadyAudited, Reconciled, Finish, StepGoal, InMemory, Readable,
       AllAudited, Members, files
<1>7. CASE Mutate(p)
  <2>1. Readable(state) /\ work[p] = state.commits /\ AllAudited(state.commits)
    BY <1>0, <1>7 DEF Mutate, InMemory
  <2>2. /\ pc'[p] = "copy" /\ commit'[p] = issued' /\ issued' = issued + 1
        /\ work'[p] = Append(state.commits, issued')
    BY <1>0, <1>7, <2>1 DEF Mutate, Attach
  <2>3. Below(audit, issued + 1) /\ Below(state.commits, issued + 1)
    BY <1>0 DEF Given, StoreInv, LogInv, StateInv, Drawn, Below
  <2> QED
    BY <1>1, <1>2, <2>1, <2>2, <2>3
       DEF StepGoal, InMemory, Readable, Below, AllAudited, Members, Given
<1> QED
  BY <1>3, <1>4, <1>5, <1>6, <1>7

LEMMA WritingStep ==
  ASSUME Given, NEW p \in Process,
         Restore(p) \/ CopyStart(p) \/ CopyEnd(p) \/ Rename(p)
  PROVE  StepGoal(p)
<1> USE StoreAssumption DEF Goto, Working
<1>0. /\ p \in DOMAIN pc /\ p \in DOMAIN work /\ p \in DOMAIN commit
      /\ LogInv /\ StateInv /\ BackupFollows /\ InMemory(p)
  BY DEF Given, StoreInv, TypeOK, PhaseType, LocalType
<1>1. audit' = audit /\ issued' = issued /\ commit' = commit /\ work' = work
  BY DEF Restore, CopyStart, CopyEnd, Rename
<1>2. CASE Restore(p)
  <2>1. /\ state'.commits = backup.commits /\ state'.form = "ok" /\ backup' = backup
        /\ work[p] = backup.commits /\ Readable(backup) /\ pc'[p] = "log"
    BY <1>0, <1>2 DEF Restore, InMemory, Content
  <2>2. LogInv'
    BY <1>0, <1>1, <2>1 DEF LogInv, Drawn, Increasing, AllAudited, Readable, Members
  <2>3. StateInv'
    BY <1>0, <1>1, <2>1
       DEF LogInv, StateInv, Drawn, Increasing, AllAudited, Readable, Members, Marker, Given
  <2> QED
    BY <1>1, <2>1, <2>2, <2>3 DEF StepGoal, InMemory, BackupFollows, Readable
<1>3. CASE CopyStart(p)
  <2>1. /\ backup'.commits = <<>> /\ backup'.form = "damaged" /\ state' = state
        /\ pc[p] = "copy" /\ pc'[p] = "copying"
    BY <1>0, <1>3 DEF CopyStart, Damaged
  <2>2. LogInv'
    BY <1>0, <1>1, <2>1 DEF LogInv, Drawn, Increasing, AllAudited, Readable, Members
  <2>3. StateInv'
    BY <1>0, <1>1, <2>1
       DEF StateInv, Drawn, Increasing, Below, Readable, Members, Marker
  <2> QED
    BY <1>0, <1>1, <2>1, <2>2, <2>3
       DEF StepGoal, InMemory, BackupFollows, Readable, Below, AllAudited, Members
<1>4. CASE CopyEnd(p)
  <2>1. /\ backup' = state /\ state' = state
        /\ pc[p] = "copying" /\ pc'[p] = "rename"
        /\ Readable(state) /\ AllAudited(state.commits)
    BY <1>0, <1>4 DEF CopyEnd, InMemory
  <2>2. LogInv'
    BY <1>0, <1>1, <2>1
       DEF LogInv, StateInv, Drawn, Increasing, AllAudited, Readable, Members
  <2>3. StateInv'
    BY <1>0, <1>1, <2>1
       DEF StateInv, Drawn, Increasing, Below, Readable, Members, Marker
  <2> QED
    BY <1>0, <1>1, <2>1, <2>2, <2>3
       DEF StepGoal, InMemory, BackupFollows, Readable, Below, AllAudited, Members
<1>5. CASE Rename(p)
  <2> DEFINE cs == state.commits
  <2>1. /\ state'.commits = Append(cs, issued) /\ state'.form = "ok" /\ backup' = backup
        /\ pc[p] = "rename" /\ pc'[p] = "append"
        /\ commit[p] = issued /\ issued # 0
        /\ AllAudited(cs) /\ Below(audit, issued) /\ Below(cs, issued)
        /\ Readable(backup) => backup.commits = cs
    BY <1>0, <1>5 DEF Rename, InMemory, Content
  <2>2. /\ cs \in Seq(Nat) /\ Len(cs) \in Nat /\ DOMAIN cs = 1..Len(cs)
        /\ Len(state'.commits) = Len(cs) + 1
        /\ DOMAIN state'.commits = 1..(Len(cs) + 1)
        /\ \A i \in 1..Len(cs) : state'.commits[i] = cs[i]
        /\ state'.commits[Len(cs) + 1] = issued
        /\ state'.commits # <<>>
    <3>1. cs \in Seq(Nat) /\ issued \in Nat
      BY DEF Given
    <3> QED
      BY <2>1, <3>1, AppendFacts
  <2>3. LogInv'
    BY <1>0, <1>1, <2>1 DEF LogInv, Drawn, Increasing, AllAudited, Readable, Members
  <2>4. StateInv'
    <3> DEFINE ds == state'.commits
    <3>1. Drawn(state.commits)'
      BY <1>0, <1>1, <2>1, <2>2 DEF StateInv, Drawn, Given
    <3>2. Increasing(state.commits)'
      BY <1>0, <2>1, <2>2 DEF StateInv, Increasing, Below
    <3>3. \A i \in DOMAIN ds : i < Len(ds) => ds[i] \in Members(audit')
      BY <1>1, <2>1, <2>2 DEF AllAudited, Members
    <3>4. Below(audit', Marker(ds))
      BY <1>1, <2>1, <2>2 DEF Below, Marker
    <3> QED
      BY <2>1, <3>1, <3>2, <3>3, <3>4 DEF StateInv, Below, Readable
  <2>5. issued \in 1..MaxCommits
    BY <2>1 DEF Given, StoreInv, TypeOK, CountType
  <2>6. BackupFollows'
    BY <2>1, <2>5 DEF BackupFollows, Readable
  <2>7. Marker(state.commits)' = issued
    BY <2>2 DEF Marker
  <2> QED
    BY <1>1, <2>1, <2>2, <2>3, <2>4, <2>6, <2>7
       DEF StepGoal, InMemory, Readable, Below, Members
<1> QED
  BY <1>2, <1>3, <1>4, <1>5

\* A step that appends, or fails to: the commit c is the unaudited marker.
LEMMA AuditingStep ==
  ASSUME Given, NEW p \in Process,
         \/ LogRestore(p) \/ RepairAudit(p) \/ FinishAudit(p)
         \/ RepairFails(p) \/ FinishUnknown(p)
  PROVE  StepGoal(p)
<1> USE StoreAssumption DEF Goto, Working, Finish
<1>0. /\ p \in DOMAIN pc /\ p \in DOMAIN work /\ p \in DOMAIN commit
      /\ LogInv /\ StateInv /\ BackupFollows /\ InMemory(p) /\ 0 \in Nat
  BY DEF Given, StoreInv, TypeOK, PhaseType, LocalType
<1>1. state' = state /\ backup' = backup /\ issued' = issued /\ work' = work
  BY DEF LogRestore, RepairAudit, FinishAudit, RepairFails, FinishUnknown
<1>2. CASE audit' = audit
  <2>1. LogInv' /\ StateInv' /\ BackupFollows'
    BY <1>0, <1>1, <1>2, FilesKept DEF Given
  <2>2. CASE pc'[p] = "release"
    BY <2>1, <2>2, OutsideInMemory DEF StepGoal, InMemory
  <2>3. CASE pc'[p] # "release"
    <3>1. LogRestore(p) \/ RepairAudit(p)
      BY <1>0, <2>3 DEF FinishAudit, RepairFails, FinishUnknown
    <3>2. CASE LogRestore(p)
      BY <1>0, <1>1, <2>1, <3>2 DEF LogRestore, StepGoal, InMemory, Readable
    <3>3. CASE RepairAudit(p)
      <4>1. work[p] = state.commits /\ Marker(state.commits) \in 1..issued
            /\ audit' = Append(audit, Marker(state.commits))
        BY <1>0, <3>3
           DEF RepairAudit, AppendLine, Audited, InMemory, StateInv, Drawn, Marker, Given
      <4> QED
        BY <1>2, <4>1, AppendFacts DEF Given
    <3> QED
      BY <3>1, <3>2, <3>3
  <2> QED
    BY <2>2, <2>3
<1>3. CASE audit' # audit
  <2> DEFINE c == Marker(state.commits)
  <2>1. /\ Readable(state) /\ state.commits # <<>> /\ Below(audit, c)
        /\ audit' = Append(audit, c)
        /\ pc'[p] \in {"mutate", "release"}
        /\ pc'[p] = "mutate" => work[p] = state.commits
    <3>1. CASE RepairAudit(p) \/ (RepairFails(p) /\ pc[p] = "reconcile")
      BY <1>0, <1>3, <3>1
         DEF RepairAudit, RepairFails, Reconciled, AppendLine, AppendFault, Audited,
         InMemory, StateInv
    <3>2. CASE FinishAudit(p) \/ FinishUnknown(p)
      <4>1. /\ Readable(state) /\ state.commits # <<>> /\ Below(audit, c)
            /\ commit[p] = c /\ pc'[p] = "release"
        BY <1>0, <3>2 DEF FinishAudit, FinishUnknown, InMemory
      <4>2. audit' = Append(audit, c)
        BY <1>3, <3>2, <4>1 DEF FinishAudit, FinishUnknown, AppendLine, AppendFault
      <4> QED
        BY <4>1, <4>2
    <3>3. CASE LogRestore(p) \/ (RepairFails(p) /\ pc[p] = "log")
      BY <1>3, <3>3 DEF LogRestore, RepairFails, AppendLine, AppendFault
    <3> QED
      BY <3>1, <3>2, <3>3 DEF RepairFails
  <2>2. c \in 1..issued
    BY <1>0, <2>1 DEF StateInv, Drawn, Marker, Given
  <2>3. LogInv' /\ StateInv' /\ AllAudited(state.commits)'
    BY <1>0, <1>1, <2>1, <2>2, LogAppend DEF Given
  <2> QED
    BY <1>0, <1>1, <2>1, <2>3 DEF StepGoal, InMemory, BackupFollows, Readable
<1> QED
  BY <1>2, <1>3

LEMMA QuietActions ==
  ASSUME Given, NEW p \in Process,
         \/ Start(p) \/ Begin(p) \/ ReadFails(p) \/ AuditRefused(p)
         \/ MutatorThrows(p) \/ WriteFails(p) \/ Release(p) \/ ReleaseFails(p)
         \/ Crash(p)
  PROVE  StepGoal(p)
<1>1. p \in DOMAIN pc
  BY DEF Given, StoreInv, TypeOK, PhaseType
<1>2. UNCHANGED <<state, backup, audit>> /\ issued' = issued
  BY DEF Start, Begin, Acquire, ReadFails, AuditRefused, MutatorThrows, WriteFails,
     Release, ReleaseFails, Crash, files
<1>3. pc'[p] \in {"read", "release", "idle", "down"}
  BY <1>1 DEF Start, Begin, Acquire, ReadFails, AuditRefused, MutatorThrows,
     WriteFails, Release, ReleaseFails, Crash, Goto, Finish, Report
<1> QED
  BY <1>2, <1>3, QuietStep DEF Locked

\* The operation of another runtime is not disturbed: either it is outside,
\* or p crashes without having touched a file.
LEMMA OthersStay ==
  ASSUME Given, NEW p \in Process, NEW q \in Process, q # p,
         \/ Start(p) \/ Begin(p) \/ Advance(p)
         \/ RepairFails(p) \/ WriteFails(p) \/ ReleaseFails(p) \/ Crash(p),
         HolderWorks'
  PROVE  InMemory(q)'
<1>0. InMemory(q) /\ HolderWorks /\ PhaseType
  BY DEF Given, StoreInv, TypeOK
<1>1. CASE Crash(p)
  <2>1. pc'[q] = pc[q] /\ commit'[q] = commit[q]
        /\ UNCHANGED <<state, backup, audit, work, issued>>
    BY <1>1 DEF Crash, Goto, Given, StoreInv, TypeOK, PhaseType, LocalType
  <2> QED
    BY <1>0, <2>1 DEF InMemory, Readable, AllAudited, Below, Members, Marker
<1>2. CASE ~Crash(p)
  <2>1. \E phase \in Phase : pc' = [pc EXCEPT ![p] = phase]
    BY <1>2, PhaseNames
       DEF Start, Begin, Acquire, Advance, Create, Read, ReadBackup, ReadFails,
       Restore, LogRestore, AlreadyAudited, RepairAudit, AuditRefused, Mutate,
       MutatorThrows, CopyStart, CopyEnd, Rename, FinishAudit, FinishUnknown,
       Release, RepairFails, WriteFails, ReleaseFails, Reconciled, Report,
       Finish, Goto
  <2>2. holder = p \/ holder' = p
    BY <1>2
       DEF Start, Begin, Acquire, Advance, Create, Read, ReadBackup, ReadFails,
       Restore, LogRestore, AlreadyAudited, RepairAudit, AuditRefused, Mutate,
       MutatorThrows, CopyStart, CopyEnd, Rename, FinishAudit, FinishUnknown,
       Release, RepairFails, WriteFails, ReleaseFails, Working
  <2>3. pc'[q] \notin Locked
    BY <1>0, <2>1, <2>2 DEF HolderWorks, PhaseType
  <2> QED
    BY <2>3 DEF InMemory, Locked
<1> QED
  BY <1>1, <1>2

LEMMA DamageStep ==
  ASSUME Given, Damage, HolderWorks'
  PROVE  LogInv' /\ StateInv' /\ BackupFollows' /\ \A p \in Process : InMemory(p)'
<1>1. /\ state'.commits = <<>> /\ state'.form = "damaged"
      /\ backup' = backup /\ audit' = audit /\ issued' = issued
      /\ pc' = pc /\ holder = Nobody
  BY DEF Damage, Damaged, local
<1>2. LogInv' /\ StateInv' /\ BackupFollows'
  BY <1>1 DEF Given, StoreInv, LogInv, StateInv, BackupFollows, Drawn, Increasing,
     AllAudited, Below, Readable, Members, Marker
<1>3. \A p \in Process : pc'[p] \notin Locked
  BY <1>1, StoreAssumption DEF Given, StoreInv, HolderWorks
<1> QED
  BY <1>2, <1>3 DEF InMemory, Locked

LEMMA StoreStep ==
  ASSUME StoreInv, [Next]_vars
  PROVE  StoreInv'
<1>1. TypeOK'
  BY FileStep, PhaseStep, LocalStep, CountStep DEF StoreInv, TypeOK
<1>2. HolderWorks'
  BY HolderStep DEF StoreInv
<1>3. Given
  BY <1>1, FileFacts, StoreAssumption DEF Given, StoreInv, TypeOK, FileType, CountType
<1>4. CASE UNCHANGED vars
  <2>1. UNCHANGED <<state, backup, audit, issued, pc, work, commit>>
    BY <1>4 DEF vars, files, local
  <2>2. LogInv' /\ StateInv' /\ BackupFollows'
    BY <1>3, <2>1, FilesKept DEF Given, StoreInv
  <2>3. \A p \in Process : InMemory(p)'
    BY <2>1 DEF StoreInv, InMemory, Readable, AllAudited, Below, Members, Marker
  <2> QED
    BY <1>1, <1>2, <2>2, <2>3 DEF StoreInv
<1>5. CASE Damage
  BY <1>1, <1>2, <1>3, <1>5, DamageStep DEF StoreInv
<1>6. ASSUME NEW p \in Process,
             \/ Start(p) \/ Begin(p) \/ Advance(p)
             \/ RepairFails(p) \/ WriteFails(p) \/ ReleaseFails(p) \/ Crash(p)
      PROVE  StoreInv'
  <2>1. StepGoal(p)
    BY <1>3, <1>6, ReadingStep, WritingStep, AuditingStep, QuietActions DEF Advance
  <2>2. \A q \in Process \ {p} : InMemory(q)'
    BY <1>2, <1>3, <1>6, OthersStay
  <2> QED
    BY <1>1, <1>2, <2>1, <2>2 DEF StoreInv, StepGoal
<1> QED
  BY <1>4, <1>5, <1>6 DEF Next

-----------------------------------------------------------------------------
(* Theorems *)

\* StoreInv holds throughout.
THEOREM StoreInvariance == Spec => []StoreInv
<1>1. StoreInv /\ [Next]_vars => StoreInv'
  BY StoreStep
<1> QED
  BY StoreInit, <1>1, PTL DEF Spec

\* The log tells of the commits in their order, and of none of them twice.
THEOREM StoreAuditInOrder == Spec => []AuditInOrder
<1>1. StoreInv => AuditInOrder
  BY DEF StoreInv, LogInv, AuditInOrder
<1> QED
  BY StoreInvariance, <1>1, PTL

\* Only the last commit of the state can be missing from the log.
THEOREM StoreAuditCovers == Spec => []AuditCoversState
<1>1. ASSUME StoreInv PROVE AuditCoversState
  <2>1. state.commits \in Seq(Nat) /\ backup.commits \in Seq(Nat)
    BY <1>1, FileFacts DEF StoreInv, TypeOK, FileType
  <2>2. \A i \in 1..(Len(state.commits) - 1) : state.commits[i] \in Members(audit)
    BY <1>1, <2>1 DEF StoreInv, StateInv
  <2>3. \A i \in 1..(Len(backup.commits) - 1) : backup.commits[i] \in Members(audit)
    BY <1>1, <2>1 DEF StoreInv, LogInv, AllAudited
  <2>4. Len(<<>>) = 0
    OBVIOUS
  <2> QED
    BY <2>2, <2>3, <2>4 DEF AuditCoversState, Durable
<1> QED
  BY StoreInvariance, <1>1, PTL

\* A recovery from the backup undoes at most the last commit.
THEOREM StoreBackupFollows == Spec => []BackupFollows
<1>1. StoreInv => BackupFollows
  BY DEF StoreInv
<1> QED
  BY StoreInvariance, <1>1, PTL

\* However crashes and failures fall, the log and the backup are one commit
\* behind the state at most.
THEOREM StoreOneCommitBehind == Spec => []OneCommitBehind
  BY StoreAuditCovers, StoreBackupFollows, PTL DEF OneCommitBehind

-----------------------------------------------------------------------------
(* Refinement of AuditedJournal *)

\* The durable commits, read off the files.
LEMMA DurableFacts ==
  ASSUME StoreInv
  PROVE  /\ Durable \in Seq(Nat)
         /\ Readable(state) => Durable = state.commits
         /\ state.form = "missing" => Durable = <<>> /\ state.commits = <<>>
         /\ state.form # "damaged" => Durable = state.commits
         /\ ~Readable(state) => Durable = backup.commits
  BY FileFacts DEF StoreInv, TypeOK, FileType, LogInv, StateInv, Durable, Readable, File

\* The rename commits: what it builds on has been audited.
LEMMA RenameCommits ==
  ASSUME StoreInv, NEW p \in Process, Rename(p)
  PROVE  Journal!Commit
<1> DEFINE cs == state.commits
<1>0. InMemory(p) /\ pc[p] = "rename" /\ StoreInv /\ MaxCommits \in Nat
  BY StoreAssumption DEF StoreInv, Rename, Working
<1>1. /\ AllAudited(cs) /\ issued # 0 /\ Below(audit, issued) /\ Below(cs, issued)
      /\ work[p] = Append(cs, issued) /\ state.form # "damaged"
  BY <1>0 DEF InMemory
<1>2. Durable = cs /\ cs \in Seq(Nat) /\ issued \in 1..MaxCommits
  BY <1>0, <1>1, DurableFacts DEF StoreInv, TypeOK, CountType
<1>3. Durable' = Append(cs, issued) /\ audit' = audit
  BY <1>1 DEF Rename, Durable, Readable, Content
<1>4. Journal!Settled
  BY <1>1, <1>2 DEF Journal!Settled, Journal!Members, AllAudited, Members
<1>5. \A d \in Journal!Members(Durable) \cup Journal!Members(audit) : d < issued
  BY <1>1, <1>2 DEF Journal!Members, Below
<1> QED
  BY <1>2, <1>3, <1>4, <1>5 DEF Journal!Commit

\* An append audits the commit that is not settled, or says nothing of commits.
LEMMA AppendAudits ==
  ASSUME StoreInv, StoreInv', NEW p \in Process,
         \/ LogRestore(p) \/ RepairAudit(p) \/ FinishAudit(p)
         \/ RepairFails(p) \/ FinishUnknown(p)
  PROVE  Journal!Audit \/ UNCHANGED <<Durable, audit>>
<1>0. InMemory(p) /\ state' = state /\ backup' = backup /\ Durable' = Durable
  BY DEF StoreInv, LogRestore, RepairAudit, FinishAudit, RepairFails, FinishUnknown,
     Durable, Readable
<1>1. CASE audit' = audit
  BY <1>0, <1>1
<1>2. CASE audit' # audit
  <2> DEFINE c == Marker(Durable)
  <2>1. audit' = Append(audit, c) /\ Durable # <<>> /\ c \notin Members(audit)
    <3>1. CASE RepairAudit(p) \/ (RepairFails(p) /\ pc[p] = "reconcile")
      <4>1. Durable = work[p]
        BY <1>0, <3>1, DurableFacts DEF RepairAudit, Working, InMemory
      <4> QED
        BY <1>2, <3>1, <4>1
           DEF RepairAudit, RepairFails, AppendLine, AppendFault, Audited, Working
    <3>2. CASE FinishAudit(p) \/ FinishUnknown(p)
      <4>1. /\ Durable = state.commits /\ commit[p] = c /\ Durable # <<>>
            /\ Below(audit, c)
        BY <1>0, <3>2, DurableFacts DEF FinishAudit, FinishUnknown, Working, InMemory
      <4>2. c \notin Members(audit)
        <5>1. c \in Nat /\ audit \in Seq(Nat)
          BY <4>1, DurableFacts DEF Marker, StoreInv, TypeOK, FileType
        <5> QED
          BY <4>1, <5>1 DEF Below, Members
      <4> QED
        BY <1>2, <3>2, <4>1, <4>2 DEF FinishAudit, FinishUnknown, AppendLine, AppendFault
    <3>3. CASE LogRestore(p) \/ (RepairFails(p) /\ pc[p] = "log")
      BY <1>2, <3>3 DEF LogRestore, RepairFails, AppendLine, AppendFault, Working
    <3> QED
      BY <3>1, <3>2, <3>3 DEF RepairFails, Working
  <2> QED
    BY <1>0, <2>1
       DEF Journal!Audit, Journal!Settled, Journal!Members, Members, Marker
<1> QED
  BY <1>1, <1>2

\* To go back from the state to the backup is to roll back one commit at most.
LEMMA BackupRollsBack ==
  ASSUME StoreInv, Readable(state), Readable(backup),
         Durable' = backup.commits, audit' = audit
  PROVE  Journal!Rollback \/ UNCHANGED <<Durable, audit>>
<1> DEFINE cs == state.commits
<1>1. /\ Durable = cs /\ cs \in Seq(Nat) /\ backup.commits \in Seq(Nat)
  BY DurableFacts, FileFacts DEF StoreInv, TypeOK, FileType
<1>2. CASE cs = backup.commits
  BY <1>1, <1>2
<1>3. ASSUME NEW c \in 1..MaxCommits, cs = Append(backup.commits, c)
      PROVE  Journal!Rollback
  <2> DEFINE bs == backup.commits
  <2> DEFINE n == Len(bs)
  <2>2. /\ n \in Nat /\ DOMAIN bs = 1..n /\ Len(cs) = n + 1
        /\ \A i \in 1..n : cs[i] = bs[i]
    BY <1>1, <1>3, StoreAssumption, AppendFacts
  <2>4. bs \in [1..n -> Nat]
    BY <1>1, LenProperties
  <2>3. bs = [i \in 1..n |-> bs[i]]
    BY <2>4
  <2>1. n \in 0..(Len(cs) - 1) /\ bs = [i \in 1..n |-> cs[i]]
    BY <2>2, <2>3
  <2> QED
    BY <1>1, <2>1 DEF Journal!Rollback
<1> QED
  BY <1>2, <1>3 DEF StoreInv, BackupFollows

\* Damage rolls back to the backup, or loses everything with it.
LEMMA DamageRollsBack ==
  ASSUME StoreInv, Damage
  PROVE  Journal!Rollback \/ UNCHANGED <<Durable, audit>>
<1> DEFINE cs == state.commits
<1>1. /\ Durable = cs /\ cs \in Seq(Nat)
      /\ Readable(state) /\ ~Readable(state)' /\ backup' = backup /\ audit' = audit
  BY DurableFacts, FileFacts
     DEF Damage, StoreInv, TypeOK, FileType, Damaged, Readable
<1>2. CASE ~Readable(backup)
  <2>1. Durable' = <<>>
    BY <1>1, <1>2 DEF Durable, Readable
  <2>2. CASE cs = <<>>
    BY <1>1, <2>1, <2>2
  <2>3. CASE cs # <<>>
    <3>1. 0 \in 0..(Len(cs) - 1)
      BY <1>1, <2>3
    <3>2. <<>> = [i \in 1..0 |-> cs[i]]
      OBVIOUS
    <3> QED
      BY <1>1, <2>1, <3>1, <3>2 DEF Journal!Rollback
  <2> QED
    BY <2>2, <2>3
<1>3. CASE Readable(backup)
  <2>1. Durable' = backup.commits
    BY <1>1, <1>3 DEF Durable, Readable
  <2> QED
    BY <1>1, <1>3, <2>1, BackupRollsBack
<1> QED
  BY <1>2, <1>3

\* A restore makes durable what the backup has: over a damaged state that is
\* so already, over a sound one it rolls back.
LEMMA RestoreRollsBack ==
  ASSUME StoreInv, NEW p \in Process, Restore(p)
  PROVE  Journal!Rollback \/ UNCHANGED <<Durable, audit>>
<1>1. /\ Readable(backup) /\ work[p] = backup.commits
      /\ state' = Content(work[p]) /\ audit' = audit
  BY DEF StoreInv, InMemory, Restore, Working
<1>2. Durable' = backup.commits
  BY <1>1 DEF Durable, Readable, Content
<1>3. CASE Readable(state)
  BY <1>1, <1>2, <1>3, BackupRollsBack
<1>4. CASE ~Readable(state)
  BY <1>1, <1>2, <1>4 DEF Durable
<1> QED
  BY <1>3, <1>4

\* All other steps leave the durable commits and the log alone.
LEMMA OtherStepsStutter ==
  ASSUME StoreInv, NEW p \in Process,
         \/ Start(p) \/ Begin(p) \/ Create(p) \/ Read(p) \/ ReadBackup(p)
         \/ ReadFails(p) \/ AlreadyAudited(p) \/ AuditRefused(p)
         \/ Mutate(p) \/ MutatorThrows(p) \/ CopyStart(p) \/ CopyEnd(p)
         \/ Release(p) \/ WriteFails(p) \/ ReleaseFails(p) \/ Crash(p)
  PROVE  UNCHANGED <<Durable, audit>>
<1>1. audit' = audit
  BY DEF Start, Begin, Acquire, Create, Read, ReadBackup, ReadFails,
     AlreadyAudited, AuditRefused, Mutate, MutatorThrows, CopyStart, CopyEnd,
     Release, WriteFails, ReleaseFails, Crash, files
<1>3. CASE CopyStart(p) \/ CopyEnd(p)
  <2>1. Readable(state) /\ state' = state
    BY <1>3 DEF StoreInv, InMemory, CopyStart, CopyEnd, Working
  <2> QED
    BY <1>1, <2>1 DEF Durable, Readable
<1>4. CASE ~(CopyStart(p) \/ CopyEnd(p))
  <2>1. state' = state /\ backup' = backup
    BY <1>4 DEF Start, Begin, Acquire, Create, Read, ReadBackup, ReadFails,
       AlreadyAudited, AuditRefused, Mutate, MutatorThrows, Release, WriteFails,
       ReleaseFails, Crash, files
  <2> QED
    BY <1>1, <2>1 DEF Durable, Readable
<1> QED
  BY <1>3, <1>4

\* The store implements the journal of commits and audits.
THEOREM StoreImplementsJournal == Spec => ImplementsJournal
<1>1. Init => Journal!Init
  BY DEF Init, Journal!Init, Durable, Readable, Missing
<1>2. StoreInv /\ StoreInv' /\ [Next]_vars => [Journal!Next]_(Journal!journal)
  <2> SUFFICES ASSUME StoreInv, StoreInv', [Next]_vars
               PROVE  Journal!Next \/ UNCHANGED <<Durable, audit>>
    BY DEF Journal!journal
  <2>1. CASE UNCHANGED vars
    BY <2>1 DEF vars, files, Durable, Readable
  <2>2. CASE Damage
    BY <2>2, DamageRollsBack DEF Journal!Next
  <2>3. ASSUME NEW p \in Process,
               \/ Start(p) \/ Begin(p) \/ Advance(p)
               \/ RepairFails(p) \/ WriteFails(p) \/ ReleaseFails(p) \/ Crash(p)
        PROVE  Journal!Next \/ UNCHANGED <<Durable, audit>>
    BY <2>3, RenameCommits, AppendAudits, RestoreRollsBack,
       OtherStepsStutter DEF Advance, Journal!Next
  <2> QED
    BY <2>1, <2>2, <2>3 DEF Next
<1> QED
  BY <1>1, <1>2, StoreInvariance, PTL DEF Spec, ImplementsJournal, Journal!Spec

-----------------------------------------------------------------------------
(* What callers were told.  AnswersAreTrue is not inductive: it says        *)
(* nothing of the commit whose operation has its result and has not told    *)
(* it yet, nor that nothing was told of the identities still to be drawn.   *)

Everywhere == Members(state.commits) \cup Members(backup.commits) \cup Members(audit)
Kept == Members(Durable) \cup undone

\* The commit an operation has drawn, and the result it is going to report.
Pending(p) ==
  commit[p] # 0 =>
    /\ pc[p] \in {"copy", "copying", "rename", "append", "release"}
    /\ commit[p] \in 1..issued /\ outcome[commit[p]] = "none"
    /\ pc[p] = "release" =>
         /\ reply[p] \in {"ok", "unknown"} => commit[p] \in Kept
         /\ reply[p] = "ok" => commit[p] \in Members(audit)
         /\ reply[p] = "failed" => commit[p] \notin Everywhere

UndrawnUntold == \A c \in 1..MaxCommits : c > issued => outcome[c] = "none"

AnswerInv ==
  /\ StoreInv /\ AnswersAreTrue /\ UndrawnUntold
  /\ \A p \in Process : Pending(p)

StepOf(p) ==
  \/ Start(p) \/ Begin(p) \/ Advance(p)
  \/ RepairFails(p) \/ WriteFails(p) \/ ReleaseFails(p) \/ Crash(p)

\* The steps that touch none of the files but the last line of the log.
Untouched(p) ==
  \/ Start(p) \/ Begin(p) \/ Create(p) \/ Read(p) \/ ReadBackup(p)
  \/ ReadFails(p) \/ AlreadyAudited(p) \/ AuditRefused(p) \/ Mutate(p)
  \/ MutatorThrows(p) \/ Release(p) \/ WriteFails(p) \/ ReleaseFails(p)
  \/ Crash(p)

LEMMA FilesUntouched ==
  ASSUME NEW p \in Process, Untouched(p)
  PROVE  UNCHANGED <<state, backup, audit, undone>>
  BY DEF Untouched, Start, Begin, Acquire, Create, Read, ReadBackup, ReadFails,
     AlreadyAudited, AuditRefused, Mutate, MutatorThrows, Release, WriteFails,
     ReleaseFails, Crash, files

LEMMA MembersOfAppend ==
  ASSUME NEW s \in Seq(Nat), NEW c \in Nat
  PROVE  Members(Append(s, c)) = Members(s) \cup {c}
<1> DEFINE t == Append(s, c)
<1>1. /\ Len(s) \in Nat /\ DOMAIN s = 1..Len(s) /\ DOMAIN t = 1..(Len(s) + 1)
      /\ \A i \in 1..Len(s) : t[i] = s[i]
      /\ t[Len(s) + 1] = c
  BY AppendFacts
<1>2. DOMAIN t = DOMAIN s \cup {Len(s) + 1}
  BY <1>1
<1> HIDE DEF t
<1>3. Members(t) = Members(s) \cup {c}
  BY <1>1, <1>2 DEF Members
<1> QED
  BY <1>3 DEF t

\* What a runtime does keeps what is durable and what is audited, and makes
\* durable nothing but the commit it has drawn.
FilesGrow(p) ==
  /\ Kept \subseteq Kept' /\ Members(audit) \subseteq Members(audit')
  /\ \A c \in Everywhere' :
       c \in Everywhere \/ (pc[p] \in {"rename", "append"} /\ c = commit[p] /\ c # 0)

LEMMA FilesMove ==
  ASSUME StoreInv, NEW p \in Process, StepOf(p)
  PROVE  FilesGrow(p)
<1>0. /\ InMemory(p) /\ issued \in Nat /\ audit \in Seq(Nat)
      /\ state.commits \in Seq(Nat) /\ backup.commits \in Seq(Nat)
  BY FileFacts, StoreAssumption DEF StoreInv, TypeOK, FileType, CountType
<1>1. CASE Untouched(p)
  BY <1>1, FilesUntouched
     DEF FilesGrow, Kept, Everywhere, Durable, Readable, Members
<1>2. CASE Restore(p)
  <2>1. /\ Durable \in {state.commits, backup.commits}
        /\ state'.commits = backup.commits /\ Readable(state)'
        /\ UNCHANGED <<backup, audit>>
        /\ undone' = undone \cup (Members(state.commits) \ Members(backup.commits))
    BY <1>0, <1>2, DurableFacts DEF InMemory, Restore, Working, Content, Readable, Durable
  <2>2. /\ Members(Durable)' = Members(backup.commits)
        /\ Members(state.commits)' = Members(backup.commits)
        /\ Members(backup.commits)' = Members(backup.commits)
        /\ Members(audit') = Members(audit)
    BY <2>1 DEF Members, Durable
  <2>3. Kept \subseteq Kept'
    <3>1. \/ Members(Durable) = Members(state.commits)
          \/ Members(Durable) = Members(backup.commits)
      BY <2>1, Zenon
    <3> QED
      BY <2>1, <2>2, <3>1 DEF Kept
  <2> QED
    BY <2>2, <2>3 DEF FilesGrow, Everywhere
<1>3. CASE CopyStart(p) \/ CopyEnd(p)
  <2>1. /\ Readable(state) /\ UNCHANGED <<state, audit, undone>>
        /\ backup' = Damaged \/ backup' = state
    BY <1>0, <1>3 DEF InMemory, CopyStart, CopyEnd, Working
  <2>2. Members(backup.commits)' \subseteq Everywhere
    BY <2>1 DEF Members, Damaged, Everywhere
  <2>3. Durable' = Durable
    BY <2>1 DEF Durable, Readable
  <2> QED
    BY <2>1, <2>2, <2>3 DEF FilesGrow, Kept, Everywhere, Members
<1>4. CASE Rename(p)
  <2>1. /\ Durable = state.commits /\ commit[p] = issued /\ issued # 0
        /\ pc[p] = "rename" /\ state'.commits = Append(state.commits, issued)
        /\ Readable(state)' /\ UNCHANGED <<backup, audit, undone>>
    BY <1>0, <1>4, DurableFacts DEF InMemory, Rename, Working, Content, Readable
  <2>2. Members(state.commits)' = Members(state.commits) \cup {issued}
        /\ Durable' = state'.commits
    <3>1. Members(state'.commits) = Members(state.commits) \cup {issued}
      BY <1>0, <2>1, MembersOfAppend
    <3>2. Durable' = state'.commits
      BY <2>1 DEF Durable, Readable
    <3> QED
      BY <3>1, <3>2
  <2>3. Members(audit') = Members(audit) /\ Members(backup.commits)' = Members(backup.commits)
        /\ Members(Durable)' = Members(state.commits)'
    BY <2>1, <2>2 DEF Members
  <2> QED
    BY <2>1, <2>2, <2>3 DEF FilesGrow, Kept, Everywhere
<1>5. CASE \/ LogRestore(p) \/ RepairAudit(p) \/ FinishAudit(p)
           \/ RepairFails(p) \/ FinishUnknown(p)
  <2>1. UNCHANGED <<state, backup, undone>> /\ Durable' = Durable
    BY <1>5 DEF LogRestore, RepairAudit, FinishAudit, RepairFails, FinishUnknown,
       Durable, Readable
  <2>2. \/ audit' = audit
        \/ \E c \in Nat : /\ audit' = Append(audit, c)
                          /\ c \in Everywhere \/ (pc[p] = "append" /\ c = commit[p] /\ c # 0)
    <3>1. CASE LogRestore(p) \/ (RepairFails(p) /\ pc[p] = "log")
      BY <3>1 DEF LogRestore, RepairFails, AppendLine, AppendFault, Working
    <3>2. CASE RepairAudit(p) \/ (RepairFails(p) /\ pc[p] = "reconcile")
      <4>1. work[p] = state.commits /\ ~Audited(work[p])
            /\ (audit' = audit \/ audit' = Append(audit, Marker(work[p])))
        BY <1>0, <3>2 DEF RepairAudit, RepairFails, AppendLine, AppendFault, Working,
           InMemory, Audited
      <4>2. Marker(state.commits) \in Nat /\ Marker(state.commits) \in Members(state.commits)
        BY <1>0, <4>1 DEF Audited, Marker, Members
      <4> QED
        BY <4>1, <4>2 DEF Everywhere
    <3>3. CASE FinishAudit(p) \/ FinishUnknown(p)
      BY <1>0, <3>3 DEF FinishAudit, FinishUnknown, AppendLine, AppendFault, Working,
         InMemory
    <3> QED
      BY <1>5, <3>1, <3>2, <3>3 DEF RepairFails, Working
  <2>3. \/ Members(audit') = Members(audit)
        \/ \E c \in Nat : /\ Members(audit') = Members(audit) \cup {c}
                          /\ c \in Everywhere \/ (pc[p] = "append" /\ c = commit[p] /\ c # 0)
    BY <1>0, <2>2, MembersOfAppend
  <2> QED
    BY <2>1, <2>3 DEF FilesGrow, Kept, Everywhere, Members
<1> QED
  BY <1>1, <1>2, <1>3, <1>4, <1>5 DEF StepOf, Advance, Untouched

\* What p is going to report, after a step of p.
LEMMA PendingStep ==
  ASSUME AnswerInv, StoreInv', NEW p \in Process, StepOf(p)
  PROVE  Pending(p)'
<1>0. /\ Pending(p) /\ InMemory(p) /\ StoreInv /\ issued \in Nat
      /\ p \in DOMAIN pc /\ p \in DOMAIN commit /\ p \in DOMAIN reply
      /\ audit \in Seq(Nat) /\ state.commits \in Seq(Nat) /\ backup.commits \in Seq(Nat)
  <2>1. Pending(p) /\ InMemory(p) /\ StoreInv
    BY DEF AnswerInv, StoreInv
  <2>2. FileType /\ PhaseType /\ LocalType /\ CountType
    BY <2>1 DEF StoreInv, TypeOK
  <2>3. p \in DOMAIN pc /\ p \in DOMAIN commit /\ p \in DOMAIN reply
    BY <2>2 DEF PhaseType, LocalType
  <2>4. /\ issued \in Nat /\ audit \in Seq(Nat)
        /\ state.commits \in Seq(Nat) /\ backup.commits \in Seq(Nat)
    BY <2>2, FileFacts, StoreAssumption DEF FileType, CountType
  <2> QED
    BY <2>1, <2>3, <2>4
<1>1. CASE Start(p) \/ Begin(p) \/ Release(p) \/ ReleaseFails(p) \/ Crash(p)
  <2>1. commit'[p] = 0
    BY <1>0, <1>1 DEF Start, Begin, Acquire, Release, ReleaseFails, Crash, Report
  <2> QED
    BY <2>1 DEF Pending
<1>2. CASE Create(p) \/ Mutate(p)
  <2>1. /\ commit'[p] = issued + 1 /\ issued' = issued + 1 /\ issued + 1 \in 1..MaxCommits
        /\ outcome' = outcome /\ pc'[p] \in {"rename", "copy"}
    BY <1>0, <1>2, StoreAssumption DEF Create, Mutate, Attach, Goto
  <2>2. outcome[issued + 1] = "none"
    BY <1>0, <2>1 DEF AnswerInv, UndrawnUntold
  <2> QED
    BY <1>0, <2>1, <2>2 DEF Pending
<1>3. CASE \/ Read(p) \/ ReadBackup(p) \/ ReadFails(p) \/ Restore(p) \/ LogRestore(p)
           \/ AlreadyAudited(p) \/ RepairAudit(p) \/ AuditRefused(p)
           \/ MutatorThrows(p) \/ RepairFails(p)
           \/ (WriteFails(p) /\ pc[p] \in {"read", "restore"})
  <2>1. pc[p] \in {"read", "restore", "log", "reconcile", "mutate"} /\ commit' = commit
    BY <1>3 DEF Read, ReadBackup, ReadFails, Restore, LogRestore, AlreadyAudited,
       RepairAudit, AuditRefused, MutatorThrows, RepairFails, WriteFails, Working
  <2> QED
    BY <1>0, <2>1 DEF Pending
<1>4. CASE WriteFails(p) /\ pc[p] \in {"copy", "copying", "rename"}
  <2>1. /\ UNCHANGED <<state, backup, audit, commit, issued, outcome>>
        /\ pc'[p] = "release" /\ reply'[p] = "failed"
    BY <1>0, <1>4 DEF WriteFails, Finish, Goto, files
  <2>2. commit[p] = issued /\ Below(audit, issued) /\ Below(state.commits, issued)
        /\ AllAudited(backup.commits)
    BY <1>0, <1>4 DEF InMemory, StoreInv, LogInv
  <2>3. issued \notin Members(audit) /\ issued \notin Members(state.commits)
    BY <1>0, <2>2 DEF Below, Members
  <2>4. issued \notin Everywhere
    BY <2>2, <2>3 DEF Everywhere, AllAudited, Members
  <2>5. Everywhere' = Everywhere
    BY <2>1 DEF Everywhere, Members
  <2> QED
    BY <1>0, <1>4, <2>1, <2>2, <2>4, <2>5 DEF Pending
<1>5. CASE CopyStart(p) \/ CopyEnd(p) \/ Rename(p)
  <2>1. /\ UNCHANGED <<commit, issued, outcome>>
        /\ pc'[p] \in {"copying", "rename", "append"}
    BY <1>0, <1>5 DEF CopyStart, CopyEnd, Rename, Goto
  <2> QED
    BY <1>0, <2>1 DEF Pending
<1>6. CASE FinishAudit(p) \/ FinishUnknown(p)
  <2>1. /\ UNCHANGED <<state, backup, undone, commit, issued, outcome>>
        /\ pc'[p] = "release" /\ reply'[p] \in {"ok", "unknown"}
        /\ reply'[p] = "ok" => FinishAudit(p)
    BY <1>0, <1>6 DEF FinishAudit, FinishUnknown, Finish, Goto
  <2>2. /\ Readable(state) /\ state.commits # <<>> /\ commit[p] = issued /\ issued # 0
        /\ Marker(state.commits) = issued
    BY <1>0, <1>6 DEF InMemory, FinishAudit, FinishUnknown, Working
  <2>3. issued \in Members(state.commits)
    BY <1>0, <2>2 DEF Members, Marker
  <2>4. issued \in Kept'
    BY <2>1, <2>2, <2>3 DEF Kept, Durable, Readable, Members
  <2>5. FinishAudit(p) => issued \in Members(audit')
    <3> SUFFICES ASSUME FinishAudit(p) PROVE issued \in Members(audit')
      OBVIOUS
    <3>1. audit' = Append(audit, issued)
      BY <2>2 DEF FinishAudit, AppendLine
    <3> QED
      BY <1>0, <3>1, MembersOfAppend
  <2> QED
    BY <1>0, <2>1, <2>2, <2>4, <2>5 DEF Pending, Members
<1>7. WriteFails(p) => pc[p] \in {"read", "restore", "copy", "copying", "rename"}
  BY DEF WriteFails
<1> QED
  BY <1>1, <1>2, <1>3, <1>4, <1>5, <1>6, <1>7 DEF StepOf, Advance

\* A runtime that waits with a drawn commit holds the lock: another can only crash.
LEMMA PendingOfOthers ==
  ASSUME AnswerInv, StoreInv', NEW p \in Process, StepOf(p),
         NEW q \in Process, q # p
  PROVE  Pending(q)'
<1>0. /\ Pending(q) /\ HolderWorks /\ HolderWorks' /\ LocalType /\ PhaseType
  BY DEF AnswerInv, StoreInv, TypeOK
<1>1. CASE Crash(p)
  <2>1. /\ pc'[q] = pc[q] /\ commit'[q] = commit[q]
        /\ UNCHANGED <<state, backup, audit, undone, reply, issued, outcome>>
    BY <1>0, <1>1 DEF Crash, Goto, PhaseType, LocalType
  <2> QED
    BY <1>0, <2>1 DEF Pending, Kept, Everywhere, Durable, Readable, Members
<1>2. CASE ~Crash(p)
  <2>1. holder = p \/ holder' = p
    BY <1>2
       DEF StepOf, Start, Begin, Acquire, Advance, Create, Read, ReadBackup, ReadFails,
       Restore, LogRestore, AlreadyAudited, RepairAudit, AuditRefused, Mutate,
       MutatorThrows, CopyStart, CopyEnd, Rename, FinishAudit, FinishUnknown,
       Release, RepairFails, WriteFails, ReleaseFails, Working
  <2>2. commit'[q] = commit[q]
    BY <1>0, <1>2
       DEF LocalType, StepOf, Start, Begin, Acquire, Advance, Create, Read, ReadBackup,
       ReadFails, Restore, LogRestore, AlreadyAudited, RepairAudit, AuditRefused, Mutate,
       MutatorThrows, CopyStart, CopyEnd, Rename, FinishAudit, FinishUnknown,
       Release, RepairFails, WriteFails, ReleaseFails, Attach, Report
  <2>3. commit'[q] = 0
    BY <1>0, <2>1, <2>2 DEF HolderWorks
  <2> QED
    BY <2>3 DEF Pending
<1> QED
  BY <1>1, <1>2

\* Only the end of an operation tells its caller anything.
LEMMA OutcomeMoves ==
  ASSUME AnswerInv, NEW p \in Process, StepOf(p)
  PROVE  /\ issued' \in {issued, issued + 1}
         /\ \/ outcome' = outcome
            \/ /\ commit[p] # 0 /\ pc[p] = "release" /\ Untouched(p) /\ issued' = issued
               /\ \E result \in {reply[p], "release error"} :
                    outcome' = [outcome EXCEPT ![commit[p]] = result]
<1>1. CASE Release(p) \/ ReleaseFails(p)
  BY <1>1 DEF Release, ReleaseFails, Report, Working, Untouched
<1>2. CASE ~(Release(p) \/ ReleaseFails(p))
  BY <1>2
     DEF StepOf, Start, Begin, Acquire, Advance, Create, Read, ReadBackup, ReadFails,
     Restore, LogRestore, AlreadyAudited, RepairAudit, AuditRefused, Mutate,
     MutatorThrows, CopyStart, CopyEnd, Rename, FinishAudit, FinishUnknown,
     RepairFails, WriteFails, Crash, Attach
<1> QED
  BY <1>1, <1>2

LEMMA YoungerThanAll ==
  ASSUME NEW n \in Nat, NEW c \in 1..MaxCommits, c > n, NEW d \in 1..n
  PROVE  c # d
  BY StoreAssumption

\* What was said stays true: files move only by the commit that is still untold.
LEMMA AnswersStep ==
  ASSUME AnswerInv, NEW p \in Process, StepOf(p)
  PROVE  AnswersAreTrue' /\ UndrawnUntold'
<1>0. /\ Pending(p) /\ StoreInv /\ FilesGrow(p) /\ issued \in Nat
      /\ outcome \in [1..MaxCommits -> Outcome]
      /\ AcknowledgedSurvives /\ FailedMeansNotCommitted /\ UndrawnUntold
  BY FilesMove, StoreAssumption DEF AnswerInv, AnswersAreTrue, StoreInv, TypeOK, CountType
<1>1. CASE outcome' = outcome
  <2>1. AcknowledgedSurvives'
    BY <1>0, <1>1 DEF AcknowledgedSurvives, FilesGrow, Kept
  <2>2. FailedMeansNotCommitted'
    BY <1>0, <1>1 DEF FailedMeansNotCommitted, FilesGrow, Everywhere, Pending
  <2>3. UndrawnUntold'
    BY <1>0, <1>1, OutcomeMoves DEF UndrawnUntold
  <2> QED
    BY <2>1, <2>2, <2>3 DEF AnswersAreTrue
<1>2. ASSUME NEW result \in {reply[p], "release error"},
             outcome' = [outcome EXCEPT ![commit[p]] = result],
             commit[p] # 0, pc[p] = "release", Untouched(p), issued' = issued
      PROVE  AnswersAreTrue' /\ UndrawnUntold'
  <2>1. UNCHANGED <<state, backup, audit, undone>>
    BY <1>2, FilesUntouched
  <2>2. Kept' = Kept /\ Everywhere' = Everywhere /\ Members(audit') = Members(audit)
    BY <2>1 DEF Kept, Everywhere, Durable, Readable, Members
  <2>3. \A c \in 1..MaxCommits :
          outcome'[c] = outcome[c] \/ (c = commit[p] /\ outcome'[c] \in {reply[p], "release error"})
    BY <1>0, <1>2
  <2>4. AcknowledgedSurvives'
    BY <1>0, <1>2, <2>2, <2>3 DEF AcknowledgedSurvives, Kept, Pending
  <2>5. FailedMeansNotCommitted'
    BY <1>0, <1>2, <2>2, <2>3 DEF FailedMeansNotCommitted, Everywhere, Pending
  <2>6. UndrawnUntold'
    <3>1. commit[p] \in 1..issued /\ issued \in Nat /\ issued' = issued
      BY <1>0, <1>2, Zenon DEF Pending
    <3>2. ASSUME NEW c \in 1..MaxCommits, c > issued' PROVE outcome'[c] = "none"
      <4>1. c > issued
        BY <3>1, <3>2
      <4>2. c # commit[p]
        BY <3>1, <4>1, YoungerThanAll
      <4>3. outcome[c] = "none"
        BY <1>0, <4>1 DEF UndrawnUntold
      <4> QED
        BY <2>3, <4>2, <4>3
    <3> QED
      BY <3>2 DEF UndrawnUntold
  <2> QED
    BY <2>4, <2>5, <2>6 DEF AnswersAreTrue
<1> QED
  BY <1>1, <1>2, OutcomeMoves

\* Damage undoes what the backup lacks, and no operation is under way.
LEMMA AnswersUnderDamage ==
  ASSUME AnswerInv, Damage
  PROVE  AnswersAreTrue' /\ UndrawnUntold' /\ \A p \in Process : Pending(p)'
<1>0. /\ StoreInv /\ AcknowledgedSurvives /\ FailedMeansNotCommitted /\ UndrawnUntold
      /\ holder = Nobody /\ Readable(state)
      /\ UNCHANGED <<backup, audit, commit, issued, outcome>> /\ state' = Damaged
      /\ undone' = undone \cup (Members(state.commits) \ Members(backup.commits))
  BY DEF AnswerInv, AnswersAreTrue, Damage, local
<1>1. Durable = state.commits /\ ~Readable(state)' /\ state'.commits = <<>>
  BY <1>0, DurableFacts DEF Damaged, Readable
<1>2. Durable' = backup.commits
  BY <1>0, <1>1 DEF Durable, Readable, StoreInv, LogInv
<1>3. Kept \subseteq Kept' /\ Members(audit') = Members(audit)
  BY <1>0, <1>1, <1>2 DEF Kept, Members
<1>4. Everywhere' \subseteq Everywhere
  BY <1>0, <1>1 DEF Everywhere, Members
<1>5. AcknowledgedSurvives' /\ FailedMeansNotCommitted' /\ UndrawnUntold'
  BY <1>0, <1>3, <1>4
     DEF AcknowledgedSurvives, FailedMeansNotCommitted, UndrawnUntold, Kept, Everywhere
<1>6. \A p \in Process : commit'[p] = 0
  BY <1>0, StoreAssumption DEF StoreInv, HolderWorks
<1> QED
  BY <1>5, <1>6 DEF AnswersAreTrue, Pending

LEMMA AnswerStep ==
  ASSUME AnswerInv, [Next]_vars
  PROVE  AnswerInv'
<1>1. StoreInv'
  BY StoreStep DEF AnswerInv
<1>2. CASE UNCHANGED vars
  <2>1. UNCHANGED <<state, backup, audit, undone, pc, commit, reply, issued, outcome>>
    BY <1>2 DEF vars, files, local
  <2>2. AnswersAreTrue' /\ UndrawnUntold'
    BY <2>1
       DEF AnswerInv, AnswersAreTrue, AcknowledgedSurvives, FailedMeansNotCommitted,
       UndrawnUntold, Durable, Readable, Members
  <2>3. \A p \in Process : Pending(p)'
    BY <2>1 DEF AnswerInv, Pending, Kept, Everywhere, Durable, Readable, Members
  <2> QED
    BY <1>1, <2>2, <2>3 DEF AnswerInv
<1>3. CASE Damage
  BY <1>1, <1>3, AnswersUnderDamage DEF AnswerInv
<1>4. ASSUME NEW p \in Process, StepOf(p) PROVE AnswerInv'
  <2>1. Pending(p)' /\ AnswersAreTrue' /\ UndrawnUntold'
    BY <1>1, <1>4, PendingStep, AnswersStep
  <2>2. \A q \in Process \ {p} : Pending(q)'
    BY <1>1, <1>4, PendingOfOthers
  <2> QED
    BY <1>1, <2>1, <2>2 DEF AnswerInv
<1> QED
  BY <1>2, <1>3, <1>4 DEF Next, StepOf

\* What a caller was told of its commit is true for good: an acknowledged one
\* is in the store unless a recovery undid it, and a failed one is nowhere.
THEOREM StoreAnswersAreTrue == Spec => []AnswersAreTrue
<1>1. Init => AnswerInv
  <2> SUFFICES ASSUME Init PROVE AnswerInv
    OBVIOUS
  <2>1. /\ outcome = [c \in 1..MaxCommits |-> "none"]
        /\ commit = [p \in Process |-> 0]
    BY DEF Init
  <2>2. AnswersAreTrue /\ UndrawnUntold
    BY <2>1
       DEF AnswersAreTrue, AcknowledgedSurvives, FailedMeansNotCommitted, UndrawnUntold
  <2>3. \A p \in Process : Pending(p)
    BY <2>1 DEF Pending
  <2> QED
    BY StoreInit, <2>2, <2>3 DEF AnswerInv
<1>2. AnswerInv /\ [Next]_vars => AnswerInv'
  BY AnswerStep
<1>3. AnswerInv => AnswersAreTrue
  BY DEF AnswerInv
<1> QED
  BY <1>1, <1>2, <1>3, PTL DEF Spec

=============================================================================
