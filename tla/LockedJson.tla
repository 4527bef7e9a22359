----------------------------- MODULE LockedJson -----------------------------
(***************************************************************************)
(* The read-modify-write protocol that FileState and StoreState share: a   *)
(* FileLock around load, change in memory, and core/infra/atomic_write.py  *)
(* (temporary file in the same directory, then os.replace).  The module is *)
(* parameterised by the calls: Apply says what a call makes of the         *)
(* document it loaded, Saves whether it then writes it or returns early.   *)
(***************************************************************************)
EXTENDS FileLock, Naturals

CONSTANTS
    Ops, NoOp,          \* the mutating calls, with their arguments
    Docs, Empty,        \* the documents; what _load returns for no file
    NoDoc,              \* no file, or one that _load cannot parse
    NoTemp, Partial,    \* no temporary file; one not completely written
    MaxTime,            \* bound of the clock
    ShortWrites,        \* os.write may write less than it was given
    Apply(_, _, _),     \* Apply(o, d, t): d after call o that read clock t
    Saves(_, _, _)      \* Saves(o, d, t): call o writes its document

Times == 0..MaxTime

ASSUME OpsAssumption == NoOp \notin Ops /\ MaxTime \in Nat /\ ShortWrites \in BOOLEAN
ASSUME CallersAssumption == "none" \notin Timeouts
ASSUME DocsAssumption ==
    /\ Empty \in Docs
    /\ NoDoc \notin Docs
    /\ NoTemp \notin Docs
    /\ Partial \notin Docs
    /\ NoTemp # Partial
ASSUME ApplyAssumption ==
    \A o \in Ops, d \in Docs, t \in Times :
        /\ Apply(o, d, t) \in Docs
        /\ ~Saves(o, d, t) => Apply(o, d, t) = d

VARIABLES
    disk,       \* the state file
    temp,       \* the temporary file that each caller writes
    op,         \* the call each caller is in
    step,       \* where it is in its with block
    base,       \* the document it loaded
    seen,       \* the clock it read
    unread,     \* the callers that could not read the file
    clock       \* time.time()

vars == <<lockVars, disk, temp, op, step, base, seen, unread, clock>>
callVars == <<op, step, base, seen, unread>>
fileVars == <<disk, temp>>

(* A file that is not there or not complete counts as empty. *)
Read(d) == IF d \in {NoDoc, Partial} THEN Empty ELSE d

Steps == {"out", "load", "create", "write", "replace",
          "saved", "unsaved", "failed"}

TypeOK ==
    /\ LockTypeOK
    /\ disk \in Docs \cup {NoDoc, Partial}
    /\ temp \in [Procs -> Docs \cup {NoTemp, Partial}]
    /\ op \in [Procs -> Ops \cup {NoOp}]
    /\ step \in [Procs -> Steps]
    /\ base \in [Procs -> Docs]
    /\ seen \in [Procs -> Times]
    /\ unread \in SUBSET Procs
    /\ clock \in Times

Init ==
    /\ LockInit
    /\ disk \in Docs \cup {NoDoc}
    /\ temp = [p \in Procs |-> NoTemp]
    /\ op = [p \in Procs |-> NoOp]
    /\ step = [p \in Procs |-> "out"]
    /\ base = [p \in Procs |-> Empty]
    /\ seen = [p \in Procs |-> 0]
    /\ unread = {}
    /\ clock = 0

-----------------------------------------------------------------------------
(* A caller enters a mutating method: FileLock.__enter__ starts. *)
Call(p, o) ==
    /\ op[p] = NoOp
    /\ \E t \in Timeouts : OpenLockFile(p, t)
    /\ op' = [op EXCEPT ![p] = o]
    /\ UNCHANGED <<step, base, seen, unread, fileVars, clock>>

StartPolling(p) == SetDeadline(p) /\ UNCHANGED <<callVars, fileVars, clock>>

DeadlineExpires(p) ==
    DeadlinePasses(p) /\ UNCHANGED <<callVars, fileVars, clock>>

Acquire(p) ==
    /\ TryLock(p)
    /\ step' = [step EXCEPT ![p] = "load"]
    /\ UNCHANGED <<op, base, seen, unread, fileVars, clock>>

(* LockTimeout leaves the method. *)
RaiseLockTimeout(p) ==
    /\ GiveUp(p)
    /\ op' = [op EXCEPT ![p] = NoOp]
    /\ UNCHANGED <<step, base, seen, unread, fileVars, clock>>

(* What _load returned, time.time() and the change in memory; an early     *)
(* return releases.                                                        *)
Loads(p, d) ==
    /\ step[p] = "load"
    /\ base' = [base EXCEPT ![p] = d]
    /\ seen' = [seen EXCEPT ![p] = clock]
    /\ step' = [step EXCEPT ![p] =
                   IF Saves(op[p], d, clock) THEN "create" ELSE "unsaved"]
    /\ UNCHANGED <<lockVars, op, fileVars, clock>>

(* Mutant of Load: the file is not read again under the lock. *)
LoadStale(p) == Loads(p, base[p]) /\ UNCHANGED unread

Load(p) == Loads(p, Read(disk)) /\ UNCHANGED unread

(* An OSError of read_text is no error of _load: it returns the empty      *)
(* document.                                                               *)
LoadError(p) ==
    /\ disk # NoDoc
    /\ Loads(p, Empty)
    /\ unread' = unread \cup {p}

(* mkstemp *)
CreateTemp(p) ==
    /\ step[p] = "create"
    /\ temp' = [temp EXCEPT ![p] = Partial]
    /\ step' = [step EXCEPT ![p] = "write"]
    /\ UNCHANGED <<lockVars, op, base, seen, unread, disk, clock>>

(* os.write, os.close, os.chmod *)
WriteTemp(p) ==
    /\ step[p] = "write"
    /\ temp' = [temp EXCEPT ![p] = Apply(op[p], base[p], seen[p])]
    /\ step' = [step EXCEPT ![p] = "replace"]
    /\ UNCHANGED <<lockVars, op, base, seen, unread, disk, clock>>

(* os.write returns how much it wrote, and nobody looks. *)
WriteLess(p) ==
    /\ ShortWrites
    /\ step[p] = "write"
    /\ step' = [step EXCEPT ![p] = "replace"]
    /\ UNCHANGED <<lockVars, op, base, seen, unread, fileVars, clock>>

(* os.replace *)
Replace(p) ==
    /\ step[p] = "replace"
    /\ disk' = temp[p]
    /\ temp' = [temp EXCEPT ![p] = NoTemp]
    /\ step' = [step EXCEPT ![p] = "saved"]
    /\ UNCHANGED <<lockVars, op, base, seen, unread, clock>>

(* An exception or a KeyboardInterrupt: the with block is left before      *)
(* os.replace.  The temporary file is unlinked, unless the descriptor      *)
(* cannot be closed, the unlink fails, which is ignored, or it was a       *)
(* KeyboardInterrupt; nobody opens one that stays.                         *)
WriteFails(p) ==
    /\ step[p] \in {"load", "create", "write", "replace"}
    /\ temp' = [temp EXCEPT ![p] = NoTemp]
    /\ step' = [step EXCEPT ![p] = "failed"]
    /\ UNCHANGED <<lockVars, op, base, seen, unread, disk, clock>>

(* The frame of the method is gone. *)
ForgetCall(p) ==
    /\ op' = [op EXCEPT ![p] = NoOp]
    /\ step' = [step EXCEPT ![p] = "out"]
    /\ base' = [base EXCEPT ![p] = Empty]
    /\ seen' = [seen EXCEPT ![p] = 0]
    /\ unread' = unread \ {p}

(* Mutant of Release: only a normal return gets to the release. *)
ReleaseOnReturn(p) ==
    /\ step[p] \in {"saved", "unsaved"}
    /\ Unlock(p)
    /\ UNCHANGED <<callVars, fileVars, clock>>

(* FileLock.__exit__, on return and on an exception *)
Release(p) ==
    /\ step[p] \in {"saved", "unsaved", "failed"}
    /\ Unlock(p)
    /\ UNCHANGED <<callVars, fileVars, clock>>

Return(p) ==
    /\ CloseLockFile(p)
    /\ ForgetCall(p)
    /\ UNCHANGED <<fileVars, clock>>

(* The process is killed: its temporary file stays behind. *)
Crash(p) ==
    /\ op[p] # NoOp
    /\ LockCrash(p)
    /\ temp' = [temp EXCEPT ![p] = NoTemp]
    /\ ForgetCall(p)
    /\ UNCHANGED <<disk, clock>>

Tick ==
    /\ clock < MaxTime
    /\ clock' = clock + 1
    /\ UNCHANGED <<lockVars, callVars, fileVars>>

Locking(p) ==
    \/ StartPolling(p)
    \/ Acquire(p)
    \/ RaiseLockTimeout(p)

Inside(p) ==
    \/ Load(p)
    \/ LoadError(p)
    \/ CreateTemp(p)
    \/ WriteTemp(p)
    \/ WriteLess(p)
    \/ Replace(p)
    \/ WriteFails(p)
    \/ Release(p)
    \/ Return(p)

Next ==
    \/ \E p \in Procs :
          \/ \E o \in Ops : Call(p, o)
          \/ Locking(p)
          \/ DeadlineExpires(p)
          \/ Inside(p)
          \/ Crash(p)
    \/ Tick

(* A process that runs makes its steps, and its deadline comes. *)
Fairness ==
    \A p \in Procs :
        /\ WF_vars(Locking(p))
        /\ WF_vars(DeadlineExpires(p))
        /\ WF_vars(Inside(p))

Spec == Init /\ [][Next]_vars /\ Fairness

-----------------------------------------------------------------------------
(* The state file is only changed by the caller inside the lock, and the   *)
(* document such a caller loaded is still the one on disk when it writes:  *)
(* "re-reads from disk to prevent TOCTOU races".  Only a caller that could *)
(* not read the file has another one, the empty one.                       *)
LoadedIsCurrent ==
    \A p \in Procs :
        step[p] \in {"create", "write", "replace"} =>
            base[p] = IF p \in unread THEN Empty ELSE Read(disk)

(* Every call returns or raises, without any of them waiting for a lock    *)
(* that a dead or failed caller kept.                                      *)
CallsReturn ==
    \A p \in Procs : op[p] # NoOp ~> op[p] = NoOp

-----------------------------------------------------------------------------
(* The refinement: a call has had its effect once os.replace is done, or   *)
(* when it decided not to write.                                           *)
AbstractStatus ==
    [p \in Procs |->
        IF op[p] = NoOp THEN "idle"
        ELSE IF step[p] \in {"saved", "unsaved"} THEN "done"
        ELSE IF step[p] = "failed" THEN "failed"
        ELSE IF p \in unread THEN "blind"
        ELSE "pending"]

Abs == INSTANCE AtomicStore WITH
           doc <- Read(disk), request <- op, status <- AbstractStatus

(* store_state.py and file_state.py: "prevent data loss from concurrent    *)
(* access": every call takes effect at once on the current document or,    *)
(* when it raises, not at all.  Only a call whose own read of the file     *)
(* failed takes effect on the empty document.                              *)
IsAtomic == Abs!AtomicSpec
=============================================================================
