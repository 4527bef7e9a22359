-------------------------- MODULE StateFiles_proofs -------------------------
(***************************************************************************)
(* The state files under core/state, from the lock up, for any number of   *)
(* callers.  The lock excludes, whatever the timeouts: HolderIsInside is   *)
(* inductive together with the types.  The read-modify-write protocol is   *)
(* atomic for any set of calls: nobody writes the state file between a     *)
(* caller's load and its os.replace, because both are inside the lock, and *)
(* therefore LockedJson implements AtomicStore.  What FileState and        *)
(* StoreState promise of their documents follows from that and from what   *)
(* one call makes of one document.                                         *)
(***************************************************************************)
EXTENDS FileState, StoreState, TLAPS

-----------------------------------------------------------------------------
(* core/infra/filelock.py *)
LockInv == LockTypeOK /\ HolderIsInside

(* The lock is free at the start and nobody is inside. *)
LEMMA LockInvInit == LockInit => LockInv
BY NobodyAssumption DEF LockInit, LockInv, LockTypeOK, HolderIsInside, TimeoutKinds

(* Every step of a caller, and its death, keeps the kernel's view and the  *)
(* callers' view together.                                                 *)
LEMMA LockInvStep == LockInv /\ [LockNext]_lockVars => LockInv'
<1> SUFFICES ASSUME LockInv, [LockNext]_lockVars
             PROVE  LockInv'
  OBVIOUS
<1> USE NobodyAssumption DEF LockInv, LockTypeOK, HolderIsInside
<1>1. ASSUME NEW p \in Procs, NEW t \in Timeouts, OpenLockFile(p, t)
      PROVE  LockInv'
  BY <1>1, TimeoutsAssumption DEF OpenLockFile
<1>2. ASSUME NEW p \in Procs, SetDeadline(p)
      PROVE  LockInv'
  <2>1. (timeout[p] = "zero") \in BOOLEAN
    OBVIOUS
  <2>2. late' \in [Procs -> BOOLEAN]
    BY <1>2, <2>1, Zenon DEF SetDeadline
  <2> QED
    BY <1>2, <2>2 DEF SetDeadline
<1>3. ASSUME NEW p \in Procs, DeadlineTypeError(p)
      PROVE  LockInv'
  BY <1>3 DEF DeadlineTypeError
<1>4. ASSUME NEW p \in Procs, TryLock(p)
      PROVE  LockInv'
  BY <1>4 DEF TryLock
<1>5. ASSUME NEW p \in Procs, DeadlinePasses(p)
      PROVE  LockInv'
  BY <1>5 DEF DeadlinePasses
<1>6. ASSUME NEW p \in Procs, GiveUp(p)
      PROVE  LockInv'
  BY <1>6 DEF GiveUp
<1>7. ASSUME NEW p \in Procs, Unlock(p)
      PROVE  LockInv'
  BY <1>7 DEF Unlock
<1>8. ASSUME NEW p \in Procs, CloseLockFile(p)
      PROVE  LockInv'
  BY <1>8 DEF CloseLockFile
<1>9. ASSUME NEW p \in Procs, LockCrash(p)
      PROVE  LockInv'
  BY <1>9 DEF LockCrash
<1>10. CASE UNCHANGED lockVars
  BY <1>10 DEF lockVars
<1> QED
  BY <1>1, <1>2, <1>3, <1>4, <1>5, <1>6, <1>7, <1>8, <1>9, <1>10
     DEF LockNext, AcquireStep

(* filelock.py: types, and agreement of the flock with the callers.        *)
THEOREM LockInvariant == LockSpec => []LockInv
BY LockInvInit, LockInvStep, PTL DEF LockSpec

(* filelock.py: the kernel never keeps the lock for a caller that is       *)
(* outside its with block, whatever timed out or was killed.               *)
THEOREM LockNeverOrphaned == LockSpec => []HolderIsInside
<1>1. LockInv => HolderIsInside
  BY DEF LockInv
<1> QED
  BY <1>1, LockInvariant, PTL

(* filelock.py: two callers are never both inside.                         *)
THEOREM LockExcludes == LockSpec => []MutualExclusion
<1>1. LockInv => MutualExclusion
  BY DEF LockInv, LockTypeOK, HolderIsInside, MutualExclusion
<1> QED
  BY <1>1, LockInvariant, PTL

(* Every variable of every caller of the lock stays in its type.           *)
THEOREM LockTypesHold == LockSpec => []LockTypeOK
<1>1. LockInv => LockTypeOK
  BY DEF LockInv
<1> QED
  BY <1>1, LockInvariant, PTL

-----------------------------------------------------------------------------
(* core/infra/atomic_write.py and the methods of core/state around it. *)

(* Where a caller is in the lock, in its method and in its temporary file. *)
CallerOK(p) ==
    /\ op[p] = NoOp <=> lockpc[p] = "out"
    /\ lockpc[p] \in {"out", "opened", "trying"} => step[p] = "out"
    /\ lockpc[p] = "in" => step[p] # "out"
    /\ lockpc[p] = "unlocked" => step[p] \in {"saved", "unsaved", "failed"}
    /\ temp[p] # NoTemp => step[p] \in {"write", "replace"}
    /\ step[p] = "write" => temp[p] = Partial
    /\ step[p] = "replace" => temp[p] \in Docs \cup {Partial}
    /\ seen[p] <= clock
    /\ p \in unread => step[p] \notin {"out", "load"}
    /\ step[p] \in {"create", "write", "replace"} => Saves(op[p], base[p], seen[p])

(* A temporary file that replaces the state file holds the caller's result *)
(* or, where os.write may fall short, a part of it.                        *)
TempIsResult(p) ==
    step[p] = "replace" =>
        \/ temp[p] = Apply(op[p], base[p], seen[p])
        \/ ShortWrites /\ temp[p] = Partial

IInv ==
    /\ TypeOK
    /\ HolderIsInside
    /\ LoadedIsCurrent
    /\ \A p \in Procs : CallerOK(p)

USE NobodyAssumption, TimeoutsAssumption, OpsAssumption, CallersAssumption,
    DocsAssumption

(* Every caller is outside at the start. *)
LEMMA IInvInit == Init => IInv
<1> SUFFICES ASSUME Init
             PROVE  IInv
  OBVIOUS
<1>1. LockTypeOK /\ HolderIsInside
  BY LockInvInit DEF Init, LockInv
<1>2. 0 \in Times
  BY DEF Times
<1>3. TypeOK
  BY <1>1, <1>2 DEF Init, TypeOK, Steps
<1>4. LoadedIsCurrent
  BY DEF Init, LoadedIsCurrent
<1>5. ASSUME NEW p \in Procs
      PROVE  CallerOK(p)
  BY DEF Init, LockInit, CallerOK
<1> QED
  BY <1>1, <1>3, <1>4, <1>5 DEF IInv

(* Each action of the protocol does one of the lock's steps or none. *)
LEMMA StepsTheLock == IInv /\ [Next]_vars => [LockNext]_lockVars
<1> SUFFICES ASSUME IInv, [Next]_vars
             PROVE  [LockNext]_lockVars
  OBVIOUS
<1>1. ASSUME NEW p \in Procs, Locking(p) \/ DeadlineExpires(p)
      PROVE  LockNext
  BY <1>1 DEF Locking, StartPolling, Acquire, RaiseLockTimeout, DeadlineExpires,
              LockNext, AcquireStep
<1>2. ASSUME NEW p \in Procs, NEW o \in Ops, Call(p, o)
      PROVE  LockNext
  BY <1>2 DEF Call, LockNext
<1>3. ASSUME NEW p \in Procs, Inside(p)
      PROVE  [LockNext]_lockVars
  BY <1>3 DEF Inside, Load, LoadError, Loads, CreateTemp, WriteTemp, WriteLess, Replace,
              WriteFails, Release, Return, LockNext, lockVars
<1>4. ASSUME NEW p \in Procs, Crash(p)
      PROVE  LockNext
  BY <1>4 DEF Crash, LockNext, IInv, CallerOK
<1>5. CASE Tick \/ UNCHANGED vars
  BY <1>5 DEF Tick, vars
<1> QED
  BY <1>1, <1>2, <1>3, <1>4, <1>5 DEF Next

(* Every action of every caller keeps the invariant.  The caller that      *)
(* replaces the file is inside the lock, so that no other caller is        *)
(* between its load and its replace.                                       *)
LEMMA IInvStep == IInv /\ [Next]_vars => IInv'
<1> SUFFICES ASSUME IInv, [Next]_vars
             PROVE  IInv'
  OBVIOUS
<1>1. LockTypeOK' /\ HolderIsInside'
  BY StepsTheLock, LockInvStep DEF LockInv, IInv, TypeOK
<1> USE DEF IInv, TypeOK, LockTypeOK, LoadedIsCurrent, CallerOK
<1>2. ASSUME NEW p \in Procs, NEW o \in Ops, Call(p, o)
      PROVE  IInv'
  <2>1. TypeOK' /\ LoadedIsCurrent'
    BY <1>1, <1>2 DEF Call, OpenLockFile, fileVars
  <2>2. ASSUME NEW q \in Procs
        PROVE  CallerOK(q)'
    BY <1>1, <1>2 DEF Call, OpenLockFile, fileVars
  <2> QED
    BY <1>1, <2>1, <2>2
<1>3. ASSUME NEW p \in Procs, StartPolling(p)
      PROVE  IInv'
  <2>1. TypeOK' /\ LoadedIsCurrent'
    BY <1>1, <1>3 DEF StartPolling, SetDeadline, fileVars, callVars
  <2>2. ASSUME NEW q \in Procs
        PROVE  CallerOK(q)'
    BY <1>1, <1>3 DEF StartPolling, SetDeadline, fileVars, callVars
  <2> QED
    BY <1>1, <2>1, <2>2
<1>4. ASSUME NEW p \in Procs, DeadlineExpires(p)
      PROVE  IInv'
  <2>1. TypeOK' /\ LoadedIsCurrent'
    BY <1>1, <1>4 DEF DeadlineExpires, DeadlinePasses, fileVars, callVars
  <2>2. ASSUME NEW q \in Procs
        PROVE  CallerOK(q)'
    BY <1>1, <1>4 DEF DeadlineExpires, DeadlinePasses, fileVars, callVars
  <2> QED
    BY <1>1, <2>1, <2>2
<1>5. ASSUME NEW p \in Procs, Acquire(p)
      PROVE  IInv'
  <2>1. TypeOK' /\ LoadedIsCurrent'
    BY <1>1, <1>5 DEF Acquire, TryLock, fileVars, Steps
  <2>2. ASSUME NEW q \in Procs
        PROVE  CallerOK(q)'
    BY <1>1, <1>5 DEF Acquire, TryLock, fileVars, Steps
  <2> QED
    BY <1>1, <2>1, <2>2
<1>6. ASSUME NEW p \in Procs, RaiseLockTimeout(p)
      PROVE  IInv'
  <2>1. TypeOK' /\ LoadedIsCurrent'
    BY <1>1, <1>6 DEF RaiseLockTimeout, GiveUp, fileVars
  <2>2. ASSUME NEW q \in Procs
        PROVE  CallerOK(q)'
    BY <1>1, <1>6 DEF RaiseLockTimeout, GiveUp, fileVars
  <2> QED
    BY <1>1, <2>1, <2>2
<1>7. ASSUME NEW p \in Procs, Load(p)
      PROVE  IInv'
  <2>1. TypeOK' /\ LoadedIsCurrent'
    BY <1>1, <1>7 DEF Load, Loads, lockVars, fileVars, Read, Steps, Times
  <2>2. ASSUME NEW q \in Procs
        PROVE  CallerOK(q)'
    BY <1>1, <1>7 DEF Load, Loads, lockVars, fileVars, Read, Steps, Times
  <2> QED
    BY <1>1, <2>1, <2>2
<1>18. ASSUME NEW p \in Procs, LoadError(p)
      PROVE  IInv'
  <2>1. TypeOK' /\ LoadedIsCurrent'
    BY <1>1, <1>18 DEF LoadError, Loads, lockVars, fileVars, Read, Steps, Times
  <2>2. ASSUME NEW q \in Procs
        PROVE  CallerOK(q)'
    BY <1>1, <1>18 DEF LoadError, Loads, lockVars, fileVars, Read, Steps, Times
  <2> QED
    BY <1>1, <2>1, <2>2
<1>8. ASSUME NEW p \in Procs, CreateTemp(p)
      PROVE  IInv'
  <2>1. TypeOK' /\ LoadedIsCurrent'
    BY <1>1, <1>8 DEF CreateTemp, lockVars, Steps
  <2>2. ASSUME NEW q \in Procs
        PROVE  CallerOK(q)'
    BY <1>1, <1>8 DEF CreateTemp, lockVars, Steps
  <2> QED
    BY <1>1, <2>1, <2>2
<1>9. ASSUME NEW p \in Procs, WriteTemp(p)
      PROVE  IInv'
  <2>1. TypeOK' /\ LoadedIsCurrent'
    BY <1>1, <1>9, ApplyAssumption DEF WriteTemp, lockVars, Steps
  <2>2. ASSUME NEW q \in Procs
        PROVE  CallerOK(q)'
    BY <1>1, <1>9, ApplyAssumption DEF WriteTemp, lockVars, Steps
  <2> QED
    BY <1>1, <2>1, <2>2
<1>17. ASSUME NEW p \in Procs, WriteLess(p)
      PROVE  IInv'
  <2>0. temp[p] \in Docs \cup {Partial}
    BY <1>17 DEF WriteLess
  <2>1. TypeOK' /\ LoadedIsCurrent'
    BY <1>1, <1>17 DEF WriteLess, lockVars, fileVars, Steps
  <2>2. ASSUME NEW q \in Procs
        PROVE  CallerOK(q)'
    BY <1>1, <1>17, <2>0 DEF WriteLess, lockVars, fileVars, Steps
  <2> QED
    BY <1>1, <2>1, <2>2
<1>10. ASSUME NEW p \in Procs, Replace(p)
      PROVE  IInv'
  <2>1. TypeOK' /\ LoadedIsCurrent'
    BY <1>1, <1>10 DEF Replace, lockVars, Steps, HolderIsInside
  <2>2. ASSUME NEW q \in Procs
        PROVE  CallerOK(q)'
    BY <1>1, <1>10 DEF Replace, lockVars, Steps, HolderIsInside
  <2> QED
    BY <1>1, <2>1, <2>2
<1>11. ASSUME NEW p \in Procs, WriteFails(p)
      PROVE  IInv'
  <2>1. TypeOK' /\ LoadedIsCurrent'
    BY <1>1, <1>11 DEF WriteFails, lockVars, Steps
  <2>2. ASSUME NEW q \in Procs
        PROVE  CallerOK(q)'
    BY <1>1, <1>11 DEF WriteFails, lockVars, Steps
  <2> QED
    BY <1>1, <2>1, <2>2
<1>12. ASSUME NEW p \in Procs, Release(p)
      PROVE  IInv'
  <2>1. TypeOK' /\ LoadedIsCurrent'
    BY <1>1, <1>12 DEF Release, Unlock, fileVars, callVars
  <2>2. ASSUME NEW q \in Procs
        PROVE  CallerOK(q)'
    BY <1>1, <1>12 DEF Release, Unlock, fileVars, callVars
  <2> QED
    BY <1>1, <2>1, <2>2
<1>13. ASSUME NEW p \in Procs, Return(p)
      PROVE  IInv'
  <2>1. TypeOK' /\ LoadedIsCurrent'
    BY <1>1, <1>13 DEF Return, CloseLockFile, ForgetCall, fileVars, Steps, Times
  <2>2. ASSUME NEW q \in Procs
        PROVE  CallerOK(q)'
    BY <1>1, <1>13 DEF Return, CloseLockFile, ForgetCall, fileVars, Steps, Times
  <2> QED
    BY <1>1, <2>1, <2>2
<1>14. ASSUME NEW p \in Procs, Crash(p)
      PROVE  IInv'
  <2>1. TypeOK' /\ LoadedIsCurrent'
    BY <1>1, <1>14 DEF Crash, LockCrash, ForgetCall, Steps, Times
  <2>2. ASSUME NEW q \in Procs
        PROVE  CallerOK(q)'
    BY <1>1, <1>14 DEF Crash, LockCrash, ForgetCall, Steps, Times
  <2> QED
    BY <1>1, <2>1, <2>2
<1>15. CASE Tick
  BY <1>1, <1>15 DEF Tick, lockVars, callVars, fileVars, Times
<1>16. CASE UNCHANGED vars
  BY <1>1, <1>16 DEF vars, lockVars
<1> QED
  BY <1>2, <1>3, <1>4, <1>5, <1>6, <1>7, <1>8, <1>9, <1>10, <1>11, <1>12, <1>13, <1>14,
     <1>15, <1>16, <1>17, <1>18 DEF Next, Locking, Inside

-----------------------------------------------------------------------------
(* Types, the lock's exclusion, and what the caller inside has loaded.     *)
LEMMA Invariant == Spec => []IInv
BY IInvInit, IInvStep, PTL DEF Spec

(* core/state: what a caller loaded under the lock is what is on disk when *)
(* it writes, or nothing, when its read of the file failed.                *)
THEOREM LoadedStaysCurrent == Spec => []LoadedIsCurrent
<1>1. IInv => LoadedIsCurrent
  BY DEF IInv
<1> QED
  BY <1>1, Invariant, PTL

(* The same lock, seen through the protocol, is the lock of FileLock.      *)
THEOREM UsesTheLock == Spec => LockInit /\ [][LockNext]_lockVars
<1>1. Init => LockInit
  BY DEF Init
<1> QED
  BY <1>1, StepsTheLock, Invariant, PTL DEF Spec

-----------------------------------------------------------------------------
ResultInv == \A p \in Procs : TempIsResult(p)

LEMMA ResultInit == Init => ResultInv
BY DEF Init, ResultInv, TempIsResult

(* Only WriteTemp fills a temporary file, and the call, the document it    *)
(* loaded and the time it read do not change until the file is replaced.   *)
LEMMA ResultStep == IInv /\ ResultInv /\ [Next]_vars => ResultInv'
<1> SUFFICES ASSUME IInv, ResultInv, [Next]_vars, NEW q \in Procs
             PROVE  TempIsResult(q)'
  BY DEF ResultInv
<1>1. TempIsResult(q)
  BY DEF ResultInv
<1>2. UNCHANGED <<step[q], temp[q], op[q], base[q], seen[q]>> => TempIsResult(q)'
  BY <1>1 DEF TempIsResult
<1>3. ASSUME step'[q] # "replace"
      PROVE  TempIsResult(q)'
  BY <1>3 DEF TempIsResult
<1> USE DEF IInv, TypeOK, LockTypeOK, CallerOK
<1>4. ASSUME NEW p \in Procs, NEW o \in Ops, Call(p, o)
      PROVE  TempIsResult(q)'
  BY <1>2, <1>3, <1>4 DEF Call, OpenLockFile, fileVars
<1>5. ASSUME NEW p \in Procs, Locking(p) \/ DeadlineExpires(p)
      PROVE  TempIsResult(q)'
  <2>1. CASE StartPolling(p) \/ DeadlineExpires(p)
    BY <1>2, <2>1 DEF StartPolling, DeadlineExpires, fileVars, callVars
  <2>2. CASE Acquire(p)
    BY <1>2, <1>3, <2>2 DEF Acquire, fileVars
  <2>3. CASE RaiseLockTimeout(p)
    <3>1. p = q => step'[q] = "out"
      BY <2>3 DEF RaiseLockTimeout, GiveUp
    <3>2. p # q => UNCHANGED <<step[q], temp[q], op[q], base[q], seen[q]>>
      BY <2>3 DEF RaiseLockTimeout, fileVars
    <3> QED
      BY <1>2, <1>3, <3>1, <3>2
  <2> QED
    BY <1>5, <2>1, <2>2, <2>3 DEF Locking
<1>6. ASSUME NEW p \in Procs, WriteTemp(p)
      PROVE  TempIsResult(q)'
  <2>1. CASE p = q
    <3>1. temp'[q] = Apply(op[q], base[q], seen[q])
      BY <1>6, <2>1 DEF WriteTemp
    <3>2. UNCHANGED <<op[q], base[q], seen[q]>>
      BY <1>6 DEF WriteTemp
    <3> QED
      BY <3>1, <3>2 DEF TempIsResult
  <2>2. CASE p # q
    BY <1>2, <1>6, <2>2 DEF WriteTemp
  <2> QED
    BY <2>1, <2>2
<1>7. ASSUME NEW p \in Procs,
             Load(p) \/ LoadError(p) \/ CreateTemp(p) \/ Replace(p)
                \/ WriteFails(p) \/ Release(p) \/ Return(p)
      PROVE  TempIsResult(q)'
  BY <1>2, <1>3, <1>7 DEF Load, LoadError, Loads, CreateTemp, Replace, WriteFails,
     Release, Return, ForgetCall, fileVars, callVars
<1>8. ASSUME NEW p \in Procs, Crash(p)
      PROVE  TempIsResult(q)'
  BY <1>2, <1>3, <1>8 DEF Crash, ForgetCall
<1>9. CASE Tick \/ UNCHANGED vars
  BY <1>2, <1>9 DEF Tick, vars, callVars, fileVars
<1>10. ASSUME NEW p \in Procs, WriteLess(p)
       PROVE  TempIsResult(q)'
  <2>1. p = q => ShortWrites /\ temp'[q] = Partial
    BY <1>10 DEF WriteLess, fileVars
  <2>2. p # q => UNCHANGED <<step[q], temp[q], op[q], base[q], seen[q]>>
    BY <1>10 DEF WriteLess, fileVars
  <2> QED
    BY <1>2, <2>1, <2>2 DEF TempIsResult
<1> QED
  BY <1>4, <1>5, <1>6, <1>7, <1>8, <1>9, <1>10 DEF Next, Inside

-----------------------------------------------------------------------------
LEMMA AbsInit == Init => Abs!AtomicInit
BY DEF Init, Abs!AtomicInit, AbstractStatus, Read

(* Every step of the protocol is a step of the atomic store or changes     *)
(* nothing in it: os.replace and the early return are the effects.         *)
LEMMA AbsStep ==
    ~ShortWrites /\ IInv /\ ResultInv /\ [Next]_vars => [Abs!AtomicNext]_Abs!atomicVars
<1> SUFFICES ASSUME ~ShortWrites, IInv, ResultInv, [Next]_vars
             PROVE  [Abs!AtomicNext]_Abs!atomicVars
  OBVIOUS
<1> USE DEF IInv, TypeOK, LockTypeOK, CallerOK
<1>1. ASSUME NEW p \in Procs, NEW o \in Ops, Call(p, o)
      PROVE  Abs!Invoke(p, o)
  BY <1>1 DEF Call, OpenLockFile, fileVars, AbstractStatus, Abs!Invoke, Steps
<1>2. ASSUME NEW p \in Procs, StartPolling(p) \/ DeadlineExpires(p) \/ Acquire(p)
      PROVE  UNCHANGED Abs!atomicVars
  BY <1>2 DEF StartPolling, DeadlineExpires, Acquire, TryLock, SetDeadline,
     DeadlinePasses, fileVars, callVars, AbstractStatus, Abs!atomicVars, Steps
<1>3. ASSUME NEW p \in Procs, RaiseLockTimeout(p) \/ Crash(p)
      PROVE  Abs!Abandon(p)
  <2>1. CASE RaiseLockTimeout(p)
    BY <2>1 DEF RaiseLockTimeout, GiveUp, fileVars, AbstractStatus,
       Abs!Abandon, Steps
  <2>2. CASE Crash(p)
    BY <2>2 DEF Crash, LockCrash, ForgetCall, AbstractStatus, Abs!Abandon, Steps
  <2> QED
    BY <1>3, <2>1, <2>2
<1>4. ASSUME NEW p \in Procs, Load(p)
      PROVE  Abs!Effect(p, clock) \/ UNCHANGED Abs!atomicVars
  <2>1. /\ op[p] \in Ops /\ Read(disk) \in Docs /\ clock \in Times
        /\ p \notin unread /\ step[p] = "load"
    BY <1>4 DEF Load, Loads, Read
  <2>2. CASE Saves(op[p], Read(disk), clock)
    BY <1>4, <2>1, <2>2 DEF Load, Loads, fileVars, AbstractStatus, Abs!atomicVars
  <2>3. CASE ~Saves(op[p], Read(disk), clock)
    <3>1. Apply(op[p], Read(disk), clock) = Read(disk)
      BY <2>1, <2>3, ApplyAssumption
    <3>2. AbstractStatus[p] = "pending"
      BY <2>1 DEF AbstractStatus
    <3>3. AbstractStatus' = [AbstractStatus EXCEPT ![p] = "done"]
      BY <1>4, <2>1, <2>3 DEF Load, Loads, AbstractStatus
    <3>4. clock <= clock /\ UNCHANGED <<disk, op, clock>>
      BY <1>4, <2>1 DEF Load, Loads, fileVars, Times
    <3> QED
      BY <3>1, <3>2, <3>3, <3>4 DEF Abs!Effect
  <2> QED
    BY <2>2, <2>3
<1>11. ASSUME NEW p \in Procs, LoadError(p)
       PROVE  Abs!Misread(p) \/ Abs!Overlook(p, clock)
  <2>1. op[p] \in Ops /\ clock \in Times /\ p \notin unread /\ step[p] = "load"
    BY <1>11 DEF LoadError, Loads
  <2>2. AbstractStatus[p] = "pending"
    BY <2>1 DEF AbstractStatus
  <2>3. clock <= clock /\ UNCHANGED <<disk, op, clock>>
    BY <1>11, <2>1 DEF LoadError, Loads, fileVars, Times
  <2>4. CASE Saves(op[p], Empty, clock)
    <3>1. AbstractStatus' = [AbstractStatus EXCEPT ![p] = "blind"]
      BY <1>11, <2>1, <2>4 DEF LoadError, Loads, AbstractStatus
    <3> QED
      BY <2>2, <2>3, <3>1 DEF Abs!Misread
  <2>5. CASE ~Saves(op[p], Empty, clock)
    <3>1. AbstractStatus' = [AbstractStatus EXCEPT ![p] = "done"]
      BY <1>11, <2>1, <2>5 DEF LoadError, Loads, AbstractStatus
    <3> QED
      BY <2>2, <2>3, <2>5, <3>1 DEF Abs!Overlook
  <2> QED
    BY <2>4, <2>5
<1>5. ASSUME NEW p \in Procs,
             CreateTemp(p) \/ WriteTemp(p) \/ WriteLess(p) \/ Release(p)
      PROVE  UNCHANGED Abs!atomicVars
  BY <1>5 DEF CreateTemp, WriteTemp, WriteLess, Release, fileVars, callVars, AbstractStatus,
     Abs!atomicVars
<1>6. ASSUME NEW p \in Procs, Replace(p)
      PROVE  Abs!Effect(p, seen[p]) \/ Abs!BlindEffect(p, seen[p])
  <2>0. /\ op[p] \in Ops /\ base[p] \in Docs /\ seen[p] \in Times
        /\ base[p] = IF p \in unread THEN Empty ELSE Read(disk)
    BY <1>6 DEF Replace, LoadedIsCurrent
  <2>1. Read(disk') = Apply(op[p], base[p], seen[p])
    <3>1. disk' = Apply(op[p], base[p], seen[p])
      BY <1>6 DEF Replace, ResultInv, TempIsResult
    <3>2. Apply(op[p], base[p], seen[p]) \in Docs
      BY <2>0, ApplyAssumption
    <3> QED
      BY <3>1, <3>2 DEF Read
  <2>2. /\ AbstractStatus[p] = IF p \in unread THEN "blind" ELSE "pending"
        /\ AbstractStatus' = [AbstractStatus EXCEPT ![p] = "done"]
        /\ UNCHANGED <<op, clock>> /\ seen[p] <= clock
    BY <1>6, <2>0 DEF Replace, AbstractStatus, Times
  <2> QED
    BY <2>0, <2>1, <2>2 DEF Abs!Effect, Abs!BlindEffect
<1>7. ASSUME NEW p \in Procs, WriteFails(p)
      PROVE  Abs!Reject(p)
  <2>1. /\ op[p] # NoOp
        /\ step[p] \in {"load", "create", "write", "replace"}
        /\ step' = [step EXCEPT ![p] = "failed"]
        /\ UNCHANGED <<op, disk, clock, unread>>
    BY <1>7 DEF WriteFails
  <2> QED
    BY <2>1 DEF AbstractStatus, Abs!Reject
<1>8. ASSUME NEW p \in Procs, Return(p)
      PROVE  Abs!Return(p)
  BY <1>8 DEF Return, CloseLockFile, ForgetCall, fileVars, AbstractStatus, Abs!Return
<1>9. CASE Tick
  <2>1. UNCHANGED <<disk, op, step, unread>> /\ clock' = clock + 1 /\ clock < MaxTime
    BY <1>9 DEF Tick, callVars, fileVars
  <2>2. UNCHANGED <<Read(disk), AbstractStatus>>
    BY <2>1 DEF AbstractStatus
  <2> QED
    BY <2>1, <2>2 DEF Abs!AtomicTick, Abs!AtomicNext
<1>10. CASE UNCHANGED vars
  BY <1>10 DEF vars, AbstractStatus, Abs!atomicVars
<1> QED
  BY <1>1, <1>2, <1>3, <1>4, <1>5, <1>6, <1>7, <1>8, <1>9, <1>10, <1>11
     DEF Next, Locking, Inside, Abs!AtomicNext, Times

(* file_state.py and store_state.py: the locked read-modify-write is       *)
(* atomic.  Every call has its effect at one instant on the document that  *)
(* is current then (or, when its read of the file failed, on the empty     *)
(* one), or raises and has none; provided that os.write never writes only  *)
(* a part of the document.                                                 *)
THEOREM ReadModifyWriteIsAtomic == ~ShortWrites => (Spec => IsAtomic)
<1> SUFFICES ASSUME ~ShortWrites
             PROVE  Spec => IsAtomic
  OBVIOUS
<1>1. Spec => [](IInv /\ ResultInv)
  BY IInvInit, IInvStep, ResultInit, ResultStep, PTL DEF Spec
<1> QED
  BY <1>1, AbsInit, AbsStep, PTL DEF Spec, IsAtomic, Abs!AtomicSpec

(* Every variable stays in its type.                                       *)
THEOREM TypesHold == Spec => []TypeOK
<1>1. IInv => TypeOK
  BY DEF IInv
<1> QED
  BY <1>1, Invariant, PTL

-----------------------------------------------------------------------------
(* The document that p has loaded: the one on disk, unless it could not    *)
(* read the file.                                                          *)
Loaded(p) == IF p \in unread THEN Empty ELSE Read(disk)

(* What the state file can become: the result of one call of the caller    *)
(* inside the lock on the document it loaded, or a part of that.           *)
ChangedBy(p) ==
    /\ holder = p
    /\ op[p] \in Ops /\ seen[p] \in Times /\ seen[p] <= clock
    /\ Read(disk) \in Docs
    /\ Saves(op[p], Loaded(p), seen[p])
    /\ disk' = Partial \/ disk' = Apply(op[p], Loaded(p), seen[p])

LEMMA OnlyResultsAreWritten ==
    IInv /\ ResultInv /\ [Next]_vars /\ disk' # disk => \E p \in Procs : ChangedBy(p)
<1> SUFFICES ASSUME IInv, ResultInv, [Next]_vars, disk' # disk
             PROVE  \E p \in Procs : ChangedBy(p)
  OBVIOUS
<1>1. PICK p \in Procs : Replace(p)
  BY DEF Next, Call, Locking, StartPolling, Acquire, RaiseLockTimeout, DeadlineExpires,
     Inside, Load, LoadError, Loads, CreateTemp, WriteTemp, WriteLess, Replace, WriteFails,
     Release, Return, Crash, Tick, vars, fileVars
<1>2. step[p] = "replace" /\ disk' = temp[p]
  BY <1>1 DEF Replace
<1>3. base[p] = Loaded(p) /\ Read(disk) \in Docs
  BY <1>2 DEF IInv, TypeOK, LoadedIsCurrent, Read, Loaded
<1>4. /\ holder = p /\ op[p] \in Ops /\ seen[p] \in Times /\ seen[p] <= clock
      /\ Saves(op[p], base[p], seen[p])
  BY <1>2 DEF IInv, TypeOK, LockTypeOK, CallerOK, HolderIsInside
<1>5. disk' = Partial \/ disk' = Apply(op[p], Loaded(p), seen[p])
  BY <1>2, <1>3 DEF ResultInv, TempIsResult
<1> QED
  BY <1>3, <1>4, <1>5 DEF ChangedBy

LEMMA ResultInvariant == Spec => [](IInv /\ ResultInv)
BY IInvInit, IInvStep, ResultInit, ResultStep, PTL DEF Spec

-----------------------------------------------------------------------------
(* core/state/file_state.py *)

LEMMA FileDocShape ==
    ASSUME NEW d \in FileDocs
    PROVE  /\ d \in [DOMAIN d -> Expiries] /\ DOMAIN d \subseteq Ids
           /\ \A i \in DOMAIN d : d[i] \in Nat
<1>1. d \in [DOMAIN d -> Expiries] /\ DOMAIN d \subseteq Ids
  BY DEF FileDocs
<1> QED
  BY <1>1, ExpiriesAssumption

(* What LockedJson assumes of a call is true of the calls of FileState.    *)
LEMMA FileCallsAreCalls ==
    ASSUME NEW o \in FileOps, NEW d \in FileDocs, NEW t \in Times
    PROVE  FileApply(o, d, t) \in FileDocs /\ (~FileSaves(o, d, t) => FileApply(o, d, t) = d)
<1>1. d \in [DOMAIN d -> Expiries] /\ DOMAIN d \subseteq Ids
  BY FileDocShape
<1>2. ASSUME NEW S \in SUBSET DOMAIN d
      PROVE  [i \in S |-> d[i]] \in FileDocs
  BY <1>1, <1>2 DEF FileDocs
<1>3. CASE o.method = "save"
  <2>1. o.id \in Ids /\ o.expiry \in Expiries
    BY <1>3 DEF FileOps
  <2>2. FileApply(o, d, t) \in [DOMAIN d \cup {o.id} -> Expiries]
    BY <1>1, <1>3, <2>1 DEF FileApply
  <2> QED
    BY <1>1, <1>3, <2>1, <2>2 DEF FileDocs, FileSaves
<1>4. CASE o.method = "remove"
  BY <1>2, <1>4 DEF FileApply, FileSaves, Without
<1>5. CASE o.method = "cleanup_expired"
  <2>1. FileApply(o, d, t) = [i \in DOMAIN d \ ExpiredKeys(d, t) |-> d[i]]
    BY <1>5 DEF FileApply, Without
  <2> QED
    BY <1>1, <1>2, <1>5, <2>1 DEF FileSaves, ExpiredKeys
<1> QED
  BY <1>3, <1>4, <1>5 DEF FileOps

(* One call on one document: only a call that names i touches a record     *)
(* that has not expired at t.                                              *)
LEMMA FileApplyKeeps ==
    ASSUME NEW o \in FileOps, NEW d \in FileDocs, NEW t \in Times,
           NEW i \in DOMAIN d, t < d[i],
           ~(o.method \in {"save", "remove"} /\ o.id = i)
    PROVE  i \in DOMAIN FileApply(o, d, t) /\ FileApply(o, d, t)[i] = d[i]
<1>1. d[i] \in Nat /\ t \in Nat
  BY FileDocShape DEF Times
<1>2. CASE o.method = "save"
  BY <1>2 DEF FileApply
<1>3. CASE o.method = "remove"
  BY <1>3 DEF FileApply, Without
<1>4. CASE o.method = "cleanup_expired"
  BY <1>1, <1>4 DEF FileApply, Without, ExpiredKeys
<1> QED
  BY <1>2, <1>3, <1>4 DEF FileOps

(* file_state.py: a record that has not expired leaves the file, or        *)
(* changes, only by a save or a remove of its own id, or of any id by a    *)
(* caller that could not read the file; neither a cleanup nor a caller     *)
(* with an older document takes it away.                                   *)
THEOREM LiveRecordsAreKept == CallsAreFileCalls => (Spec => LiveRecordKept)
<1> SUFFICES ASSUME CallsAreFileCalls
             PROVE  Spec => LiveRecordKept
  OBVIOUS
<1> DEFINE Culprit(i, p) ==
             /\ holder = p
             /\ op[p].method \in {"save", "remove"}
             /\ op[p].id = i \/ p \in unread
           Kept(i) ==
             (/\ clock < Read(disk)[i] /\ disk' # Partial
              /\ i \in DOMAIN Read(disk') => Read(disk')[i] # Read(disk)[i])
                 => \E p \in Procs : Culprit(i, p)
<1>1. ASSUME IInv, ResultInv, [Next]_vars, NEW i \in DOMAIN Read(disk)
      PROVE  Kept(i)
  <2> SUFFICES ASSUME clock < Read(disk)[i], disk' # Partial,
                      i \in DOMAIN Read(disk') => Read(disk')[i] # Read(disk)[i]
               PROVE  \E p \in Procs : Culprit(i, p)
    OBVIOUS
  <2>1. disk' # disk
    OBVIOUS
  <2>2. PICK p \in Procs : ChangedBy(p)
    BY <1>1, <2>1, OnlyResultsAreWritten
  <2>3. op[p] \in FileOps /\ Read(disk) \in FileDocs /\ seen[p] \in Times
    BY <2>2 DEF ChangedBy, CallsAreFileCalls
  <2>4. CASE p \in unread
    <3>1. NoFiles \in FileDocs /\ FileSaves(op[p], NoFiles, seen[p])
      BY <2>2, <2>4, DocsAssumption DEF ChangedBy, Loaded, CallsAreFileCalls
    <3>2. op[p].method # "cleanup_expired"
      BY <3>1 DEF FileSaves, ExpiredKeys, NoFiles
    <3>3. op[p].method \in {"save", "remove"}
      BY <2>3, <3>2 DEF FileOps
    <3> QED
      BY <2>2, <2>4, <3>3 DEF ChangedBy
  <2>5. CASE p \notin unread
    <3>1. disk' = FileApply(op[p], Read(disk), seen[p])
      BY <2>2, <2>5 DEF ChangedBy, Loaded, CallsAreFileCalls
    <3>2. Read(disk') = disk'
      <4>1. disk' \in Docs
        BY <2>3, <3>1, FileCallsAreCalls DEF CallsAreFileCalls
      <4> QED
        BY <4>1 DEF Read
    <3>3. seen[p] < Read(disk)[i]
      <4>1. seen[p] <= clock /\ seen[p] \in Nat /\ clock \in Nat
        BY <1>1, <2>2 DEF ChangedBy, IInv, TypeOK, Times
      <4>2. Read(disk)[i] \in Nat
        BY <2>3, <1>1, FileDocShape
      <4> QED
        BY <4>1, <4>2
    <3>4. op[p].method \in {"save", "remove"} /\ op[p].id = i
      BY <2>3, <3>1, <3>2, <3>3, <1>1, FileApplyKeeps
    <3> QED
      BY <2>2, <3>4 DEF ChangedBy
  <2> QED
    BY <2>4, <2>5
<1>2. IInv /\ ResultInv /\ [Next]_vars => \A i \in DOMAIN Read(disk) : Kept(i)
  BY <1>1
<1> QED
  BY <1>2, ResultInvariant, PTL DEF Spec, LiveRecordKept

-----------------------------------------------------------------------------
(* core/state/store_state.py *)

LEMMA StoreDocShape ==
    ASSUME NEW d \in StoreDocs
    PROVE  /\ DOMAIN d \subseteq Names /\ d \in [DOMAIN d -> PartialFunctions(DocIds, Statuses)]
           /\ \A n \in DOMAIN d : /\ DOMAIN d[n] \subseteq DocIds
                                  /\ d[n] \in [DOMAIN d[n] -> Statuses]
<1>1. DOMAIN d \subseteq Names /\ d \in [DOMAIN d -> PartialFunctions(DocIds, Statuses)]
  BY DEF StoreDocs, PartialFunctions
<1>2. ASSUME NEW n \in DOMAIN d
      PROVE  DOMAIN d[n] \subseteq DocIds /\ d[n] \in [DOMAIN d[n] -> Statuses]
  <2>1. d[n] \in PartialFunctions(DocIds, Statuses)
    BY <1>1
  <2> QED
    BY <2>1 DEF PartialFunctions
<1> QED
  BY <1>1, <1>2

LEMMA WithShape ==
    ASSUME NEW S, NEW T, NEW f \in PartialFunctions(S, T), NEW x \in S, NEW y \in T
    PROVE  With(f, x, y) \in PartialFunctions(S, T)
<1>1. DOMAIN f \subseteq S /\ f \in [DOMAIN f -> T]
  BY DEF PartialFunctions
<1>2. With(f, x, y) \in [DOMAIN f \cup {x} -> T]
  BY <1>1 DEF With
<1> QED
  BY <1>1, <1>2 DEF PartialFunctions

LEMMA RejectedCallsChangeNothing ==
    ASSUME NEW o \in StoreOps, NEW d, NEW t, ~StoreSaves(o, d, t)
    PROVE  StoreApply(o, d, t) = d
<1>1. o.method \notin {"create_store", "remove_store"}
  BY DEF StoreSaves
<1> QED
  BY <1>1 DEF StoreApply

(* What LockedJson assumes of a call is true of the calls of StoreState.   *)
LEMMA StoreCallsAreCalls ==
    ASSUME NEW o \in StoreOps, NEW d \in StoreDocs, NEW t \in Times
    PROVE  StoreApply(o, d, t) \in StoreDocs /\ (~StoreSaves(o, d, t) => StoreApply(o, d, t) = d)
<1>1. CASE ~StoreSaves(o, d, t)
  <2>1. StoreApply(o, d, t) = d
    BY <1>1, RejectedCallsChangeNothing
  <2> QED
    BY <2>1
<1>2. CASE StoreSaves(o, d, t) /\ o.method = "create_store"
  <2>1. o.name \in Names /\ NoDocuments \in PartialFunctions(DocIds, Statuses)
    BY <1>2 DEF StoreOps, NoDocuments, PartialFunctions
  <2> QED
    BY <1>2, <2>1, WithShape DEF StoreApply, StoreDocs
<1>3. CASE StoreSaves(o, d, t) /\ o.method = "remove_store"
  <2>1. StoreApply(o, d, t) \in [DOMAIN d \ {o.name} -> PartialFunctions(DocIds, Statuses)]
    BY <1>3, StoreDocShape DEF StoreApply, Restrict
  <2> QED
    BY <1>3, <2>1, StoreDocShape DEF StoreDocs, PartialFunctions
<1>4. CASE StoreSaves(o, d, t) /\ o.method \in {"add_document", "update_document_status"}
  <2>1. o.name \in DOMAIN d /\ o.name \in Names /\ o.id \in DocIds /\ o.status \in Statuses
    BY <1>4 DEF StoreOps, StoreSaves, HasDocument
  <2>2. d[o.name] \in PartialFunctions(DocIds, Statuses)
    BY <2>1, StoreDocShape
  <2>3. StoreApply(o, d, t) = With(d, o.name, With(d[o.name], o.id, o.status))
    BY <1>4 DEF StoreApply
  <2>4. With(d[o.name], o.id, o.status) \in PartialFunctions(DocIds, Statuses)
    BY <2>1, <2>2, WithShape
  <2>5. With(d, o.name, With(d[o.name], o.id, o.status)) \in StoreDocs
    BY <2>1, <2>4, WithShape DEF StoreDocs
  <2> QED
    BY <1>4, <2>3, <2>5
<1> QED
  BY <1>1, <1>2, <1>3, <1>4 DEF StoreOps

(* What one call does to one document: stores appear by their              *)
(* registration only, documents by being added only, and they vanish with  *)
(* their store only.                                                       *)
Appears(o, d, e) ==
    /\ \A n \in DOMAIN e \ DOMAIN d : o.method = "create_store" /\ o.name = n
    /\ \A n \in DOMAIN e, i \in DocIds :
          HasDocument(e, n, i) /\ ~HasDocument(d, n, i)
              => o.method = "add_document" /\ o.name = n /\ o.id = i
Vanishes(o, d, e) ==
    \A n \in DOMAIN d, i \in DocIds :
        HasDocument(d, n, i) /\ ~HasDocument(e, n, i)
            => o.method \in {"create_store", "remove_store"} /\ o.name = n

LEMMA StoreApplyRevivesNothing ==
    ASSUME NEW o \in StoreOps, NEW d \in StoreDocs, NEW t \in Times
    PROVE  LET e == StoreApply(o, d, t) IN Appears(o, d, e) /\ Vanishes(o, d, e)
<1> DEFINE e == StoreApply(o, d, t)
<1> USE DEF Appears, Vanishes, HasDocument
<1>1. CASE ~StoreSaves(o, d, t)
  <2>1. StoreApply(o, d, t) = d
    BY <1>1, RejectedCallsChangeNothing
  <2> QED
    BY <2>1
<1>2. CASE StoreSaves(o, d, t) /\ o.method = "create_store"
  <2>1. e = With(d, o.name, NoDocuments)
    BY <1>2 DEF StoreApply
  <2>2. DOMAIN e = DOMAIN d \cup {o.name} /\ e[o.name] = NoDocuments /\ DOMAIN NoDocuments = {}
    BY <2>1 DEF With, NoDocuments
  <2>3. \A n \in DOMAIN d \ {o.name} : e[n] = d[n]
    BY <2>1 DEF With
  <2> HIDE DEF e
  <2> QED
    BY <1>2, <2>2, <2>3 DEF e
<1>3. CASE StoreSaves(o, d, t) /\ o.method = "remove_store"
  <2>1. DOMAIN e = DOMAIN d \ {o.name} /\ \A n \in DOMAIN e : e[n] = d[n]
    BY <1>3 DEF StoreApply, Restrict
  <2> QED
    BY <1>3, <2>1
<1>4. CASE StoreSaves(o, d, t) /\ o.method \in {"add_document", "update_document_status"}
  <2>1. o.name \in DOMAIN d
    BY <1>4 DEF StoreSaves
  <2>2. e = With(d, o.name, With(d[o.name], o.id, o.status))
    BY <1>4 DEF StoreApply
  <2>3. DOMAIN e = DOMAIN d /\ \A n \in DOMAIN d \ {o.name} : e[n] = d[n]
    BY <2>1, <2>2 DEF With
  <2>4. DOMAIN e[o.name] = DOMAIN d[o.name] \cup {o.id}
    BY <2>1, <2>2 DEF With
  <2>5. o.method = "update_document_status" => o.id \in DOMAIN d[o.name]
    BY <1>4 DEF StoreSaves
  <2> HIDE DEF e
  <2> QED
    BY <1>4, <2>1, <2>3, <2>4, <2>5 DEF e
<1> QED
  BY <1>1, <1>2, <1>3, <1>4 DEF StoreOps

(* What appears in a document that is made of nothing appears in it, too,  *)
(* when there was something before.                                        *)
LEMMA NothingAppearsFromNothing ==
    ASSUME NEW o \in StoreOps, NEW t \in Times, NEW d
    PROVE  Appears(o, d, StoreApply(o, NoStores, t))
<1> DEFINE e == StoreApply(o, NoStores, t)
<1>1. NoStores \in StoreDocs /\ DOMAIN NoStores = {}
  BY DEF StoreDocs, PartialFunctions, NoStores
<1>2. Appears(o, NoStores, e)
  BY <1>1, StoreApplyRevivesNothing
<1> HIDE DEF e
<1>3. \A n \in DOMAIN e, i \in DocIds : ~HasDocument(NoStores, n, i)
  BY <1>1 DEF HasDocument
<1> QED
  BY <1>1, <1>2, <1>3 DEF Appears, e

(* store_state.py: a late add_document or update_document_status brings    *)
(* back neither a store nor a document, and documents vanish only with     *)
(* their store or with the whole file.                                     *)
THEOREM NothingIsResurrected == CallsAreStoreCalls => (Spec => NothingResurrected)
<1> SUFFICES ASSUME CallsAreStoreCalls
             PROVE  Spec => NothingResurrected
  OBVIOUS
<1> DEFINE Revived ==
      /\ Appears(op[holder], Read(disk), Read(disk'))
      /\ disk' # Partial /\ holder \notin unread
            => Vanishes(op[holder], Read(disk), Read(disk'))
      /\ disk' # disk /\ disk' # Partial /\ holder \in unread
            => op[holder].method \in {"create_store", "remove_store"}
<1>1. ASSUME IInv, ResultInv, [Next]_vars
      PROVE  Revived
  <2>1. CASE disk' = disk
    BY <2>1 DEF Appears, Vanishes
  <2>2. CASE disk' # disk
    <3>1. PICK p \in Procs : ChangedBy(p)
      BY <1>1, <2>2, OnlyResultsAreWritten
    <3>2. /\ holder = p /\ op[p] \in StoreOps
          /\ Read(disk) \in StoreDocs /\ seen[p] \in Times
      BY <3>1 DEF ChangedBy, CallsAreStoreCalls
    <3>3. CASE disk' = Partial
      <4>1. Read(disk') = NoStores /\ DOMAIN NoStores = {}
        BY <3>3 DEF Read, CallsAreStoreCalls, NoStores
      <4> QED
        BY <3>3, <4>1 DEF Appears
    <3>4. CASE disk' # Partial /\ p \notin unread
      <4>1. disk' = StoreApply(op[p], Read(disk), seen[p])
        BY <3>1, <3>2, <3>4 DEF ChangedBy, Loaded, CallsAreStoreCalls
      <4>2. Read(disk') = disk'
        <5>1. disk' \in Docs
          BY <3>2, <4>1, StoreCallsAreCalls DEF CallsAreStoreCalls
        <5> QED
          BY <5>1 DEF Read
      <4> QED
        BY <3>2, <3>4, <4>1, <4>2, StoreApplyRevivesNothing
    <3>5. CASE disk' # Partial /\ p \in unread
      <4>1. /\ disk' = StoreApply(op[p], NoStores, seen[p])
            /\ StoreSaves(op[p], NoStores, seen[p])
            /\ NoStores \in StoreDocs
        BY <3>1, <3>2, <3>5, DocsAssumption DEF ChangedBy, Loaded, CallsAreStoreCalls
      <4>2. Read(disk') = disk'
        <5>1. disk' \in Docs
          BY <3>2, <4>1, StoreCallsAreCalls DEF CallsAreStoreCalls
        <5> QED
          BY <5>1 DEF Read
      <4>3. op[p].method \in {"create_store", "remove_store"}
        BY <3>2, <4>1 DEF StoreSaves, HasDocument, NoStores, StoreOps
      <4> QED
        BY <3>2, <3>5, <4>1, <4>2, <4>3, NothingAppearsFromNothing
    <3> QED
      BY <3>3, <3>4, <3>5
  <2> QED
    BY <2>1, <2>2
<1>2. IInv /\ ResultInv /\ [Next]_vars =>
        LET d == Read(disk)
            e == Read(disk')
            o == op[holder]
        IN  /\ \A n \in DOMAIN e \ DOMAIN d : o.method = "create_store" /\ o.name = n
            /\ \A n \in DOMAIN e, i \in DocIds :
                  HasDocument(e, n, i) /\ ~HasDocument(d, n, i)
                      => o.method = "add_document" /\ o.name = n /\ o.id = i
            /\ \A n \in DOMAIN d, i \in DocIds :
                  HasDocument(d, n, i) /\ ~HasDocument(e, n, i) /\ disk' # Partial
                      => /\ o.method \in {"create_store", "remove_store"}
                         /\ o.name = n \/ holder \in unread
  BY <1>1 DEF Appears, Vanishes
<1> QED
  BY <1>2, ResultInvariant, PTL DEF Spec, NothingResurrected
=============================================================================
