----------------------------- MODULE CostTracker -----------------------------
(***************************************************************************)
(* core/infra/cost.py: the day's cost in one file, which each              *)
(* record_actual_cost reads and writes under a lock.  The code asks for    *)
(* today's date when it reads the total and again when it writes it; the   *)
(* day may end in between.  A read that fails counts as a total of nothing *)
(* and the write then replaces what could not be read.                     *)
(***************************************************************************)
EXTENDS Naturals

CONSTANTS
    Procs, Nobody,      \* the callers; a free lock
    NoRecord,           \* no cost file, or one that is torn
    Costs,              \* what one request may cost
    MaxDay,             \* bound of the calendar
    MaxCalls            \* bound: costs that each caller records

ASSUME CostsAssumption == Costs \subseteq Nat
ASSUME BoundsAssumption == MaxDay \in Nat /\ MaxCalls \in Nat
ASSUME NobodyAssumption ==
    Nobody \notin Procs /\ NoRecord \notin [date : Nat, total : Nat]

VARIABLES
    file,       \* cost_today.json
    today,      \* the UTC date
    lock,       \* cost.lock
    pc,         \* where each caller is
    total,      \* the total it read
    calls,      \* the costs it was asked to record
    spent,      \* history: what was recorded on each day and not lost since
    straddled   \* history: the days that began between a read and its write

vars == <<file, today, lock, pc, total, calls, spent, straddled>>

Days == 0..MaxDay
Labels == {"idle", "lock", "read", "write", "overwrite"}

TypeOK ==
    /\ file \in [date : Days, total : Nat] \cup {NoRecord}
    /\ today \in Days
    /\ lock \in Procs \cup {Nobody}
    /\ pc \in [Procs -> Labels]
    /\ total \in [Procs -> Nat]
    /\ calls \in [Procs -> 0..MaxCalls]
    /\ spent \in [Days -> Nat]
    /\ straddled \subseteq Days

Init ==
    /\ file = NoRecord
    /\ today = 0
    /\ lock = Nobody
    /\ pc = [p \in Procs |-> "idle"]
    /\ total = [p \in Procs |-> 0]
    /\ calls = [p \in Procs |-> 0]
    /\ spent = [d \in Days |-> 0]
    /\ straddled = {}

Goto(p, l) == pc' = [pc EXCEPT ![p] = l]

(* Mutant of DailyTotal: the date is not looked at. *)
LastTotal == IF file = NoRecord THEN 0 ELSE file.total

(* _read_daily_unlocked: the total of another day counts as nothing. *)
DailyTotal ==
    IF file = NoRecord THEN 0
    ELSE IF file.date = today THEN file.total ELSE 0

-----------------------------------------------------------------------------
(* record_actual_cost is called, with a cost that its write will add. *)
RecordActualCost(p) ==
    /\ pc[p] = "idle"
    /\ calls[p] < MaxCalls
    /\ calls' = [calls EXCEPT ![p] = @ + 1]
    /\ Goto(p, "lock")
    /\ UNCHANGED <<file, today, lock, total, spent, straddled>>

(* Mutant of Acquire: without a lock. *)
AcquireNothing(p) ==
    /\ pc[p] = "lock"
    /\ Goto(p, "read")
    /\ UNCHANGED <<file, today, lock, total, calls, spent, straddled>>

Acquire(p) ==
    /\ pc[p] = "lock"
    /\ lock = Nobody
    /\ lock' = p
    /\ Goto(p, "read")
    /\ UNCHANGED <<file, today, total, calls, spent, straddled>>

(* LockTimeout: the cost is not recorded. *)
LockTimeout(p) ==
    /\ pc[p] = "lock"
    /\ lock # Nobody
    /\ Goto(p, "idle")
    /\ UNCHANGED <<file, today, lock, total, calls, spent, straddled>>

ReadDaily(p) ==
    /\ pc[p] = "read"
    /\ total' = [total EXCEPT ![p] = DailyTotal]
    /\ Goto(p, "write")
    /\ UNCHANGED <<file, today, lock, calls, spent, straddled>>

(* The read raises an OSError, which counts as a total of 0.0. *)
ReadError(p) ==
    /\ pc[p] = "read"
    /\ file # NoRecord
    /\ total' = [total EXCEPT ![p] = 0]
    /\ Goto(p, "overwrite")
    /\ UNCHANGED <<file, today, lock, calls, spent, straddled>>

Leave(p) ==
    /\ total' = [total EXCEPT ![p] = 0]
    /\ lock' = IF lock = p THEN Nobody ELSE lock
    /\ Goto(p, "idle")

(* The new total under the date of the moment; after a failed read, what   *)
(* was recorded today is lost.  (A midnight between this date and the end  *)
(* of the write is as good as one after it: no reader sees a difference.)  *)
WriteDaily(p, cost) ==
    /\ pc[p] \in {"write", "overwrite"}
    /\ file' = [date |-> today, total |-> total[p] + cost]
    /\ spent' = [spent EXCEPT ![today] = (IF pc[p] = "write" THEN @ ELSE 0) + cost]
    /\ Leave(p)
    /\ UNCHANGED <<today, calls, straddled>>

(* os.write falls short and nobody notices: the torn file loses everything.*)
WriteLess(p) ==
    /\ pc[p] \in {"write", "overwrite"}
    /\ file' = NoRecord
    /\ spent' = [d \in Days |-> 0]
    /\ Leave(p)
    /\ UNCHANGED <<today, calls, straddled>>

(* The write raises or the process is killed: the lock is free again and   *)
(* the cost is not recorded.                                               *)
Fail(p) ==
    /\ pc[p] # "idle"
    /\ Leave(p)
    /\ UNCHANGED <<file, today, calls, spent, straddled>>

Midnight ==
    /\ today < MaxDay
    /\ today' = today + 1
    /\ straddled' = straddled \cup {d \in {today + 1} : \E p \in Procs : pc[p] = "write"}
    /\ UNCHANGED <<file, lock, pc, total, calls, spent>>

Next ==
    \/ \E p \in Procs :
          \/ RecordActualCost(p)
          \/ Acquire(p)
          \/ LockTimeout(p)
          \/ ReadDaily(p)
          \/ ReadError(p)
          \/ \E cost \in Costs : WriteDaily(p, cost)
          \/ WriteLess(p)
          \/ Fail(p)
    \/ Midnight

Spec == Init /\ [][Next]_vars

-----------------------------------------------------------------------------
(* cost.py, "the entire read-modify-write cycle runs under a single lock   *)
(* to prevent TOCTOU races": whoever records at the same time, fails or    *)
(* dies, and whenever the day ends, the total of a day holds every cost    *)
(* that was recorded on it since a failed read or a torn write last made   *)
(* the code start from nothing.                                            *)
NeverUndercounts ==
    /\ file # NoRecord => file.total >= spent[file.date]
    /\ \A d \in Days : spent[d] > 0 => file # NoRecord /\ file.date >= d

(* cost.py, "automatically resets when the date changes": the total of a   *)
(* day is what was recorded on that day (and not lost), and nothing of a   *)
(* day before.  The exception are days that began while a caller had read  *)
(* the total and not yet written it, because the date is asked for twice.  *)
ResetsAtMidnight ==
    file # NoRecord /\ file.date \notin straddled => file.total = spent[file.date]
=============================================================================
