-------------------------- MODULE StateLock_proofs --------------------------
(***************************************************************************)
(* Proofs about the state lock, for any number of runtimes, crashes,       *)
(* restarts and failed writes, and for stalls of any length.               *)
(***************************************************************************)
EXTENDS StateLock, TLAPS

\* A file bears a token its owner has already drawn; while that token is the
\* owner's current one and its call is under way, the owner is inside and is
\* the incarnation named in the payload.
Fresh(f) ==
  f # NoLock =>
    /\ f.token <= calls[f.owner]
    /\ f.token = calls[f.owner] /\ pc[f.owner] \notin {"dead", "idle"} =>
         Inside(f.owner) /\ f.pid = pid[f.owner]

\* Of the lock file and of every file some contender has seen.
AllFresh ==
  /\ Fresh(lock)
  /\ \A r \in Runtime : Fresh(body[r])

\* Until a live owner's lock is removed, whoever is inside owns the file.
OwnersHoldFile == ~stolen => \A r \in Runtime : Inside(r) => IsMine(lock, r)

\* Whoever is about to unlink a file has read a payload; if it was written,
\* the call that created that file is over.
JudgedOver ==
  \A r \in Runtime :
    pc[r] = "reclaim" =>
      /\ body[r] # NoLock
      /\ body[r].payload = "full" =>
           ~(Inside(body[r].owner) /\ body[r].token = calls[body[r].owner])

LockInv == TypeOK /\ AllFresh /\ OwnersHoldFile /\ JudgedOver

-----------------------------------------------------------------------------

LEMMA LockInit == Init => LockInv
<1> SUFFICES ASSUME Init PROVE LockInv
  OBVIOUS
<1>1. TypeOK
  BY LockAssumption DEF Init, TypeOK, Phase
<1>2. AllFresh
  BY DEF Init, AllFresh, Fresh
<1>3. OwnersHoldFile /\ JudgedOver
  BY DEF Init, OwnersHoldFile, JudgedOver, Inside
<1> QED
  BY <1>1, <1>2, <1>3 DEF LockInv

\* Every step keeps the types.
LEMMA TypeStep == TypeOK /\ [Next]_vars => TypeOK'
<1> SUFFICES ASSUME TypeOK, [Next]_vars PROVE TypeOK'
  OBVIOUS
<1> USE LockAssumption DEF TypeOK, Phase, Goto, Forget
<1>1. ASSUME NEW r \in Runtime, Advance(r) PROVE TypeOK'
  <2>1. CASE Create(r)
    BY <2>1 DEF Create, LockFile
  <2>2. CASE WritePayload(r)
    BY <2>2 DEF WritePayload, LockFile, IsMine
  <2>3. CASE Exists(r) \/ Vanished(r) \/ Stat(r) \/ ReadPayload(r)
    BY <2>3 DEF Exists, Vanished, Stat, ReadPayload
  <2>4. CASE Judge(r)
    BY <2>4 DEF Judge
  <2>5. CASE Reclaim(r)
    BY <2>5 DEF Reclaim, InUse, Inside, IsMine
  <2>6. CASE Timeout(r) \/ Sleep(r) \/ ReleaseRead(r)
    BY <2>6 DEF Timeout, Sleep, ReleaseRead
  <2>7. CASE ReleaseUnlink(r)
    BY <2>7 DEF ReleaseUnlink, InUse, Inside, IsMine
  <2> QED
    BY <1>1, <2>1, <2>2, <2>3, <2>4, <2>5, <2>6, <2>7 DEF Advance
<1>2. ASSUME NEW r \in Runtime, Call(r) \/ WriteFails(r) \/ Crash(r) \/ Restart(r)
      PROVE TypeOK'
  BY <1>2 DEF Call, WriteFails, Crash, Restart
<1>3. CASE Age
  BY <1>3 DEF Age, LockFile
<1>4. CASE UNCHANGED vars
  BY <1>4 DEF vars
<1> QED
  BY <1>1, <1>2, <1>3, <1>4 DEF Next

-----------------------------------------------------------------------------

\* A step that keeps the identity of a file keeps it fresh: tokens only grow,
\* and a call that goes on keeps its token and its incarnation.
LEMMA FreshKept ==
  ASSUME LockInv, [Next]_vars,
         NEW f \in LockFile, Fresh(f)
  PROVE  Fresh(f)'
<1> USE LockAssumption DEF LockInv, TypeOK, Goto, Forget
<1> SUFFICES ASSUME f # NoLock PROVE Fresh(f)'
  BY DEF Fresh
<1> DEFINE o == f.owner
<1>1. o \in Runtime /\ f.token \in Nat
  BY DEF LockFile
<1>2. calls[o] <= calls'[o]
  BY <1>1 DEF Next, vars, Advance, Call, Create, Exists, WritePayload,
     WriteFails, Vanished, Stat, ReadPayload, Judge, Reclaim, Timeout,
     Sleep, ReleaseRead, ReleaseUnlink, Age, Crash, Restart
<1> QED
  BY <1>1, <1>2
     DEF Fresh, Inside, Next, vars, Advance, Call, Create, Exists,
     WritePayload, WriteFails, Vanished, Stat, ReadPayload, Judge, Reclaim,
     Timeout, Sleep, ReleaseRead, ReleaseUnlink, Age, Crash, Restart

LEMMA FreshStep == LockInv /\ [Next]_vars => AllFresh'
<1> SUFFICES ASSUME LockInv, [Next]_vars PROVE AllFresh'
  OBVIOUS
<1> USE LockAssumption DEF Goto, Forget
<1>0. TypeOK /\ TypeOK' /\ AllFresh
  BY TypeStep DEF LockInv
<1>1. Fresh(lock)'
  <2>1. CASE lock' = NoLock
    BY <2>1 DEF Fresh
  <2>2. CASE lock' = lock
    BY <1>0, <2>2, FreshKept DEF AllFresh, TypeOK, Fresh
  <2>3. CASE \E r \in Runtime : Create(r)
    <3> PICK r \in Runtime : Create(r)
      BY <2>3
    <3> QED
      BY <1>0 DEF Create, Fresh, Inside, TypeOK
  <2>4. ASSUME lock \in LockFile, lock' \in LockFile,
               lock'.owner = lock.owner, lock'.token = lock.token,
               lock'.pid = lock.pid
        PROVE  Fresh(lock)'
    <3>1. PICK f \in LockFile : f = lock
      BY <2>4
    <3>2. Fresh(f)'
      BY <1>0, <3>1, FreshKept DEF AllFresh
    <3> QED
      BY <2>4, <3>1, <3>2 DEF Fresh, Inside
  <2>5. CASE Age
    <3>1. lock \in LockFile
      BY <1>0, <2>5 DEF Age, TypeOK
    <3>2. /\ lock' \in LockFile /\ lock'.owner = lock.owner
          /\ lock'.token = lock.token /\ lock'.pid = lock.pid
      BY <2>5, <3>1 DEF Age, LockFile
    <3> QED
      BY <2>4, <3>1, <3>2
  <2>6. CASE \E r \in Runtime : WritePayload(r)
    <3> PICK r \in Runtime : WritePayload(r)
      BY <2>6
    <3>1. CASE ~IsMine(lock, r)
      BY <2>2, <3>1 DEF WritePayload
    <3>2. CASE IsMine(lock, r)
      <4>1. lock \in LockFile
        BY <1>0, <3>2 DEF IsMine, TypeOK
      <4>2. lock' = [lock EXCEPT !.payload = "full", !.old = FALSE]
        BY <3>2 DEF WritePayload
      <4>3. /\ lock' \in LockFile /\ lock'.owner = lock.owner
            /\ lock'.token = lock.token /\ lock'.pid = lock.pid
        BY <4>1, <4>2 DEF LockFile
      <4> QED
        BY <2>4, <4>1, <4>3
    <3> QED
      BY <3>1, <3>2
  <2> QED
    BY <2>1, <2>2, <2>3, <2>5, <2>6
       DEF Next, vars, Advance, Call, Exists, WriteFails, Vanished, Stat,
       ReadPayload, Judge, Reclaim, Timeout, Sleep, ReleaseRead,
       ReleaseUnlink, Crash, Restart
<1>2. ASSUME NEW r \in Runtime PROVE Fresh(body[r])'
  <2>1. CASE body'[r] = NoLock
    BY <2>1 DEF Fresh
  <2>2. ASSUME NEW f \in LockFile, Fresh(f), body'[r] = f PROVE Fresh(body[r])'
    <3>1. Fresh(f)'
      BY <2>2, FreshKept
    <3> QED
      BY <2>2, <3>1 DEF Fresh, Inside
  <2>3. body'[r] \in {body[r], lock, NoLock}
    BY <1>0 DEF TypeOK, Next, vars, Advance, Call, Create, Exists,
       WritePayload, WriteFails, Vanished, Stat, ReadPayload, Judge, Reclaim,
       Timeout, Sleep, ReleaseRead, ReleaseUnlink, Age, Crash, Restart
  <2> QED
    BY <1>0, <2>1, <2>2, <2>3 DEF TypeOK, AllFresh
<1> QED
  BY <1>1, <1>2 DEF AllFresh

-----------------------------------------------------------------------------

\* Nobody creates a file over another, and whoever removes the file of a
\* runtime that is inside is noticed by the history variable.
LEMMA OwnersStep == LockInv /\ [Next]_vars => OwnersHoldFile'
<1> SUFFICES ASSUME LockInv, [Next]_vars, ~stolen',
                    NEW s \in Runtime, Inside(s)'
             PROVE  IsMine(lock, s)'
  BY DEF OwnersHoldFile
<1> USE LockAssumption DEF Goto, Forget, LockInv, TypeOK, Inside
<1>1. ~stolen
  BY DEF Next, vars, Advance, Call, Create, Exists, WritePayload, WriteFails,
     Vanished, Stat, ReadPayload, Judge, Reclaim, Timeout, Sleep, ReleaseRead,
     ReleaseUnlink, Age, Crash, Restart
<1>2. CASE \E r \in Runtime : Create(r)
  <2> PICK r \in Runtime : Create(r)
    BY <1>2
  <2>1. \A q \in Runtime : ~Inside(q)
    BY <1>1 DEF Create, OwnersHoldFile, IsMine
  <2>2. s = r /\ calls' = calls
    BY <2>1 DEF Create
  <2>3. lock' \in LockFile /\ lock'.owner = r /\ lock'.token = calls[r]
    BY DEF Create, LockFile
  <2> QED
    BY <2>2, <2>3 DEF IsMine
<1>3. CASE \E r \in Runtime : Reclaim(r)
  <2> PICK r \in Runtime : Reclaim(r)
    BY <1>3
  <2>1. Inside(s) /\ calls' = calls
    BY DEF Reclaim
  <2>2. IsMine(lock, s)
    BY <1>1, <2>1 DEF OwnersHoldFile
  <2>3. InUse(lock)
    BY <2>1, <2>2 DEF InUse, IsMine
  <2> QED
    BY <2>3 DEF Reclaim
<1>4. CASE \E r \in Runtime : ReleaseUnlink(r)
  <2> PICK r \in Runtime : ReleaseUnlink(r)
    BY <1>4
  <2>1. Inside(s) /\ Inside(r) /\ s # r
    BY DEF ReleaseUnlink
  <2>2. IsMine(lock, s) /\ IsMine(lock, r)
    BY <1>1, <2>1 DEF OwnersHoldFile
  <2> QED
    BY <2>1, <2>2 DEF IsMine
<1>5. CASE Age
  BY <1>1, <1>5 DEF Age, OwnersHoldFile, IsMine, LockFile
<1>6. CASE \E r \in Runtime : WritePayload(r)
  <2> PICK r \in Runtime : WritePayload(r)
    BY <1>6
  <2>1. Inside(s) /\ Inside(r) /\ calls' = calls
    BY DEF WritePayload
  <2>2. IsMine(lock, s) /\ IsMine(lock, r) /\ lock \in LockFile
    BY <1>1, <2>1 DEF OwnersHoldFile, IsMine
  <2>3. lock' = [lock EXCEPT !.payload = "full", !.old = FALSE]
    BY <2>2 DEF WritePayload
  <2> QED
    BY <2>1, <2>2, <2>3 DEF IsMine, LockFile
<1>7. CASE \E r \in Runtime : Call(r)
  BY <1>1, <1>7 DEF Call, OwnersHoldFile, IsMine
<1>8. CASE \E r \in Runtime : ReleaseRead(r)
  BY <1>1, <1>8 DEF ReleaseRead, OwnersHoldFile, IsMine
<1>9. ASSUME Inside(s), lock' = lock, calls' = calls PROVE IsMine(lock, s)'
  BY <1>1, <1>9 DEF OwnersHoldFile, IsMine
<1>10. CASE \E r \in Runtime :
               \/ Exists(r) \/ WriteFails(r) \/ Vanished(r) \/ Stat(r)
               \/ ReadPayload(r) \/ Judge(r) \/ Timeout(r) \/ Sleep(r)
               \/ Crash(r) \/ Restart(r)
  <2>1. Inside(s) /\ lock' = lock /\ calls' = calls
    BY <1>10 DEF Exists, WriteFails, Vanished, Stat, ReadPayload, Judge, Timeout,
       Sleep, Crash, Restart
  <2> QED
    BY <1>9, <2>1
<1>11. CASE UNCHANGED vars
  BY <1>9, <1>11 DEF vars
<1> QED
  <2>1. CASE Next
    BY <2>1, <1>2, <1>3, <1>4, <1>5, <1>6, <1>7, <1>8, <1>10, Zenon
       DEF Next, Advance
  <2> QED
    BY <1>11, <2>1

\* A pid found missing belongs to a call that is over, and a call that is
\* over stays over: its token is never drawn again.
LEMMA JudgedStep == LockInv /\ [Next]_vars => JudgedOver'
<1> SUFFICES ASSUME LockInv, [Next]_vars, NEW r \in Runtime,
                    pc'[r] = "reclaim"
             PROVE  /\ body'[r] # NoLock
                    /\ body'[r].payload = "full" =>
                         ~(Inside(body[r].owner)
                           /\ body[r].token = calls[body[r].owner])'
  BY DEF JudgedOver
<1> USE LockAssumption DEF Goto, Forget, LockInv, TypeOK, Inside
<1>1. CASE Judge(r)
  <2>1. body[r] \in LockFile /\ body' = body /\ calls' = calls
    BY <1>1 DEF Judge
  <2>2. body[r].payload = "full" => ~OwnerAlive(body[r])
    BY <1>1, <2>1 DEF Judge, Probe
  <2>3. Fresh(body[r]) /\ body[r].owner \in Runtime
    BY <2>1 DEF AllFresh, LockFile
  <2>4. body[r].owner # r => pc'[body[r].owner] = pc[body[r].owner]
    BY <1>1, <2>3 DEF Judge
  <2> QED
    BY <2>1, <2>2, <2>3, <2>4 DEF Fresh, OwnerAlive
<1>2. CASE pc[r] = "reclaim"
  <2>1. body'[r] = body[r] /\ body[r] \in LockFile
    BY <1>2 DEF JudgedOver, Next, vars, Advance, Call, Create, Exists,
       WritePayload, WriteFails, Vanished, Stat, ReadPayload, Judge, Reclaim,
       Timeout, Sleep, ReleaseRead, ReleaseUnlink, Age, Crash, Restart
  <2>2. Fresh(body[r]) /\ body[r].owner \in Runtime
        /\ body[r].token \in Nat
    BY <2>1 DEF AllFresh, LockFile
  <2> DEFINE o == body[r].owner
  <2>3. calls[o] <= calls'[o]
    BY <2>2 DEF Next, vars, Advance, Call, Create, Exists, WritePayload,
       WriteFails, Vanished, Stat, ReadPayload, Judge, Reclaim, Timeout,
       Sleep, ReleaseRead, ReleaseUnlink, Age, Crash, Restart
  <2>4. body[r].payload = "full" =>
          ~(pc'[o] \in {"write", "held", "removing"} /\ body[r].token = calls'[o])
    <3> SUFFICES ASSUME body[r].payload = "full",
                        pc'[o] \in {"write", "held", "removing"},
                        body[r].token = calls'[o]
                 PROVE  FALSE
      OBVIOUS
    <3>1. body[r].token = calls[o]
      BY <2>1, <2>2, <2>3, TypeStep DEF Fresh
    <3>2. pc[o] \notin {"write", "held", "removing"}
      BY <1>2, <2>2, <3>1 DEF JudgedOver
    <3>3. pc[o] \in {"dead", "idle"}
      BY <2>1, <2>2, <3>1, <3>2 DEF Fresh
    <3> QED
      BY <2>2, <3>3 DEF Next, vars, Advance, Call, Create, Exists,
         WritePayload, WriteFails, Vanished, Stat, ReadPayload, Judge,
         Reclaim, Timeout, Sleep, ReleaseRead, ReleaseUnlink, Age, Crash,
         Restart
  <2> QED
    BY <2>1, <2>4
<1> QED
  BY <1>1, <1>2 DEF Next, vars, Advance, Call, Create, Exists, WritePayload,
     WriteFails, Vanished, Stat, ReadPayload, Judge, Reclaim, Timeout, Sleep,
     ReleaseRead, ReleaseUnlink, Age, Crash, Restart

-----------------------------------------------------------------------------

\* LockInv holds of every behaviour of the lock (acquireLock and release).
THEOREM LockInvariance == Spec => []LockInv
<1>1. LockInv /\ [Next]_vars => LockInv'
  BY TypeStep, FreshStep, OwnersStep, JudgedStep DEF LockInv
<1> QED
  BY LockInit, <1>1, PTL DEF Spec

\* The variables of the lock keep their types.
THEOREM LockTypes == Spec => []TypeOK
<1>1. LockInv => TypeOK
  BY DEF LockInv
<1> QED
  BY LockInvariance, <1>1, PTL

\* Exclusion is lost only when a contender unlinks the lock of a live owner:
\* two runtimes inside would both own the one lock file.
THEOREM LockExclusion == Spec => []ExclusionUnlessStolen
<1>1. LockInv => ExclusionUnlessStolen
  BY DEF LockInv, OwnersHoldFile, ExclusionUnlessStolen, MutualExclusion, IsMine
<1> QED
  BY LockInvariance, <1>1, PTL

\* A contender removes the lock of a live owner only after having judged the
\* payload of another file, or one not yet written.
THEOREM LockTheft == Spec => TheftOnlyByRace
<1>1. LockInv =>
        \A r \in Runtime :
          Reclaim(r) /\ InUse(lock) =>
            \/ body[r].owner # lock.owner \/ body[r].token # lock.token
            \/ body[r].payload = "partial"
  <2> SUFFICES ASSUME LockInv, NEW r \in Runtime, Reclaim(r), InUse(lock),
                      body[r].owner = lock.owner, body[r].token = lock.token,
                      body[r].payload # "partial"
               PROVE  FALSE
    OBVIOUS
  <2>1. pc[r] = "reclaim"
    BY DEF Reclaim
  <2>2. body[r] \in LockFile
    BY <2>1 DEF LockInv, JudgedOver, TypeOK
  <2>3. body[r].payload = "full"
    BY <2>2 DEF LockFile
  <2>4. Inside(lock.owner) /\ lock.token = calls[lock.owner]
    BY DEF InUse, IsMine
  <2> QED
    BY <2>1, <2>3, <2>4 DEF LockInv, JudgedOver
<1> QED
  BY LockInvariance, <1>1, PTL DEF TheftOnlyByRace

=============================================================================
