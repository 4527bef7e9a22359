------------------------------ MODULE FileLock ------------------------------
(***************************************************************************)
(* core/infra/filelock.py: an advisory lock on a lock file, taken by       *)
(* polling a non-blocking flock until a deadline.  The kernel's flock      *)
(* table is `holder`; a process that dies loses its descriptors and with   *)
(* them the lock.  A failed attempt followed by a sleep changes nothing    *)
(* and is a stuttering step.                                               *)
(***************************************************************************)
CONSTANTS
    Procs,      \* the callers: processes, or threads with a FileLock each
    Nobody,     \* the lock is free
    Timeouts    \* the values of FileLock.timeout that callers pass

TimeoutKinds == {"zero", "positive", "negative", "none"}

ASSUME NobodyAssumption == Nobody \notin Procs
ASSUME TimeoutsAssumption == Timeouts \subseteq TimeoutKinds

VARIABLES
    lockpc,     \* where each caller is in FileLock
    holder,     \* the caller whose descriptor holds the flock
    open,       \* the callers with a descriptor on the lock file
    timeout,    \* the timeout each caller passed last
    late        \* the deadline of a polling caller has passed

lockVars == <<lockpc, holder, open, timeout, late>>

LockTypeOK ==
    /\ lockpc \in [Procs -> {"out", "opened", "trying", "in", "unlocked"}]
    /\ holder \in Procs \cup {Nobody}
    /\ open \in SUBSET Procs
    /\ timeout \in [Procs -> TimeoutKinds]
    /\ late \in [Procs -> BOOLEAN]

LockInit ==
    /\ lockpc = [p \in Procs |-> "out"]
    /\ holder = Nobody
    /\ open = {}
    /\ timeout = [p \in Procs |-> "positive"]
    /\ late = [p \in Procs |-> FALSE]

-----------------------------------------------------------------------------
(* _acquire opens the lock file before anything else. *)
OpenLockFile(p, t) ==
    /\ lockpc[p] = "out"
    /\ lockpc' = [lockpc EXCEPT ![p] = "opened"]
    /\ open' = open \cup {p}
    /\ timeout' = [timeout EXCEPT ![p] = t]
    /\ UNCHANGED <<holder, late>>

(* The deadline: now for zero, later for a positive timeout, never for a   *)
(* negative one.                                                           *)
SetDeadline(p) ==
    /\ lockpc[p] = "opened"
    /\ timeout[p] # "none"
    /\ lockpc' = [lockpc EXCEPT ![p] = "trying"]
    /\ late' = [late EXCEPT ![p] = timeout[p] = "zero"]
    /\ UNCHANGED <<holder, open, timeout>>

(* `None >= 0` raises TypeError; nothing closes the descriptor. *)
DeadlineTypeError(p) ==
    /\ lockpc[p] = "opened"
    /\ timeout[p] = "none"
    /\ lockpc' = [lockpc EXCEPT ![p] = "out"]
    /\ UNCHANGED <<holder, open, timeout, late>>

(* Mutant of TryLock: a flock that never refuses. *)
TryLockAlways(p) ==
    /\ lockpc[p] = "trying"
    /\ lockpc' = [lockpc EXCEPT ![p] = "in"]
    /\ holder' = p
    /\ late' = [late EXCEPT ![p] = FALSE]
    /\ UNCHANGED <<open, timeout>>

(* A non-blocking flock that succeeds; it may even be a late one, because  *)
(* the clock is read only after a failure.                                 *)
TryLock(p) ==
    /\ lockpc[p] = "trying"
    /\ holder = Nobody
    /\ lockpc' = [lockpc EXCEPT ![p] = "in"]
    /\ holder' = p
    /\ late' = [late EXCEPT ![p] = FALSE]
    /\ UNCHANGED <<open, timeout>>

(* The clock passes the deadline while the caller sleeps or tries. *)
DeadlinePasses(p) ==
    /\ lockpc[p] = "trying"
    /\ timeout[p] = "positive"
    /\ ~late[p]
    /\ late' = [late EXCEPT ![p] = TRUE]
    /\ UNCHANGED <<lockpc, holder, open, timeout>>

(* Mutant of GiveUp: every attempt starts with a new deadline. *)
GiveUpNever(p) ==
    /\ lockpc[p] = "trying"
    /\ holder # Nobody
    /\ late[p]
    /\ late' = [late EXCEPT ![p] = FALSE]
    /\ UNCHANGED <<lockpc, holder, open, timeout>>

(* A failed attempt after the deadline: close and raise LockTimeout. *)
GiveUp(p) ==
    /\ lockpc[p] = "trying"
    /\ holder # Nobody
    /\ late[p]
    /\ lockpc' = [lockpc EXCEPT ![p] = "out"]
    /\ open' = open \ {p}
    /\ late' = [late EXCEPT ![p] = FALSE]
    /\ UNCHANGED <<holder, timeout>>

(* Mutant of Unlock: the flock is left to the descriptor. *)
UnlockLater(p) ==
    /\ lockpc[p] = "in"
    /\ lockpc' = [lockpc EXCEPT ![p] = "unlocked"]
    /\ UNCHANGED <<holder, open, timeout, late>>

(* _release unlocks first and closes the descriptor afterwards. *)
Unlock(p) ==
    /\ lockpc[p] = "in"
    /\ lockpc' = [lockpc EXCEPT ![p] = "unlocked"]
    /\ holder' = Nobody
    /\ UNCHANGED <<open, timeout, late>>

CloseLockFile(p) ==
    /\ lockpc[p] = "unlocked"
    /\ lockpc' = [lockpc EXCEPT ![p] = "out"]
    /\ open' = open \ {p}
    /\ UNCHANGED <<holder, timeout, late>>

(* The process is killed: the kernel closes its descriptors and so drops   *)
(* a flock it held.  The name p stands for the next process from then on.  *)
LockCrash(p) ==
    /\ lockpc' = [lockpc EXCEPT ![p] = "out"]
    /\ holder' = IF holder = p THEN Nobody ELSE holder
    /\ open' = open \ {p}
    /\ late' = [late EXCEPT ![p] = FALSE]
    /\ UNCHANGED timeout

-----------------------------------------------------------------------------
AcquireStep(p) ==
    SetDeadline(p) \/ DeadlineTypeError(p) \/ TryLock(p) \/ GiveUp(p)

LockNext ==
    \E p \in Procs :
        \/ \E t \in Timeouts : OpenLockFile(p, t)
        \/ AcquireStep(p)
        \/ DeadlinePasses(p)
        \/ Unlock(p)
        \/ CloseLockFile(p)
        \/ lockpc[p] # "out" /\ LockCrash(p)

(* The polling loop runs and time passes; nobody is made to call, and the  *)
(* holder leaves its with block.                                           *)
LockFairness ==
    \A p \in Procs :
        /\ WF_lockVars(AcquireStep(p))
        /\ WF_lockVars(DeadlinePasses(p))
        /\ WF_lockVars(Unlock(p) \/ CloseLockFile(p))

LockSpec == LockInit /\ [][LockNext]_lockVars /\ LockFairness

-----------------------------------------------------------------------------
(* filelock.py: at most one caller is between a successful flock and its   *)
(* release, whatever timeouts, give-ups and crashes happened before.       *)
MutualExclusion ==
    \A p, q \in Procs : lockpc[p] = "in" /\ lockpc[q] = "in" => p = q

(* The kernel's view and the callers' view agree: the lock is never left   *)
(* held by a caller that is not in its with block, so that a timeout or a  *)
(* crash cannot lock everyone out.                                         *)
HolderIsInside ==
    \A p \in Procs : holder = p <=> lockpc[p] = "in"

(* A caller that polls with a finite timeout does not poll forever, even   *)
(* though the lock is not handed out in the order of the calls.            *)
BoundedWait ==
    \A p \in Procs :
        (lockpc[p] = "trying" /\ timeout[p] # "negative")
            ~> (lockpc[p] # "trying")
=============================================================================
