------------------------- MODULE CostTracker_proofs -------------------------
(***************************************************************************)
(* The daily total of core/infra/cost.py never undercounts, for any number *)
(* of callers, costs and days: the caller inside the lock has read at      *)
(* least what was recorded today, and a midnight after its read makes that *)
(* nothing.  If no midnight came in between, it has read exactly that, and *)
(* what it writes is exact again.  Whoever could not read starts the day   *)
(* from nothing, and is in "overwrite".                                    *)
(***************************************************************************)
EXTENDS CostTracker, TLAPS

LockOK == \A p \in Procs : pc[p] \in {"read", "write", "overwrite"} <=> lock = p

ReadEnough ==
    \A p \in Procs : /\ pc[p] = "write" => total[p] >= spent[today]
                     /\ pc[p] = "overwrite" => total[p] = 0

NotFromTomorrow == file # NoRecord => file.date <= today

IInv == TypeOK /\ LockOK /\ ReadEnough /\ NotFromTomorrow /\ NeverUndercounts

USE CostsAssumption, BoundsAssumption, NobodyAssumption

LEMMA IInvInit == Init => IInv
BY DEF Init, IInv, TypeOK, LockOK, ReadEnough, NotFromTomorrow, NeverUndercounts, Days, Labels

(* Nothing that was recorded today is missing from the total of today. *)
LEMMA DailyTotalIs == IInv => DailyTotal \in Nat /\ spent[today] <= DailyTotal
<1> SUFFICES ASSUME IInv
             PROVE  DailyTotal \in Nat /\ spent[today] <= DailyTotal
  OBVIOUS
<1> USE DEF IInv, TypeOK, NotFromTomorrow, NeverUndercounts, Days
<1>1. today \in Days /\ spent[today] \in Nat
  OBVIOUS
<1>2. CASE file = NoRecord
  BY <1>1, <1>2 DEF DailyTotal
<1>3. CASE file # NoRecord /\ file.date = today
  BY <1>1, <1>3 DEF DailyTotal
<1>4. CASE file # NoRecord /\ file.date # today
  <2>1. file.date \in Nat /\ file.date < today
    BY <1>4
  <2>2. ~(spent[today] > 0)
    BY <1>1, <2>1
  <2> QED
    BY <1>1, <1>4, <2>2 DEF DailyTotal
<1> QED
  BY <1>2, <1>3, <1>4

LEMMA IInvStep == IInv /\ [Next]_vars => IInv'
<1> SUFFICES ASSUME IInv, [Next]_vars
             PROVE  IInv'
  OBVIOUS
<1> USE DEF IInv, TypeOK, LockOK, ReadEnough, NotFromTomorrow, NeverUndercounts, Days, Labels, Goto
<1>1. ASSUME NEW p \in Procs,
             RecordActualCost(p) \/ LockTimeout(p)
      PROVE  IInv'
  <2>1. CASE RecordActualCost(p)
    BY <2>1 DEF RecordActualCost
  <2>2. CASE LockTimeout(p)
    BY <2>2 DEF LockTimeout
  <2> QED
    BY <1>1, <2>1, <2>2
<1>2. ASSUME NEW p \in Procs, Acquire(p)
      PROVE  IInv'
  BY <1>2 DEF Acquire
<1>3. ASSUME NEW p \in Procs, ReadDaily(p) \/ ReadError(p)
      PROVE  IInv'
  <2>1. DailyTotal \in Nat /\ spent[today] <= DailyTotal
    BY DailyTotalIs
  <2>2. PICK l \in {"write", "overwrite"}, n \in Nat :
            /\ pc[p] = "read" /\ pc' = [pc EXCEPT ![p] = l] /\ total' = [total EXCEPT ![p] = n]
            /\ UNCHANGED <<file, today, lock, calls, spent, straddled>>
            /\ l = "write" => n >= spent[today]
            /\ l = "overwrite" => n = 0
    BY <1>3, <2>1 DEF ReadDaily, ReadError
  <2>3. TypeOK'
    BY <2>2
  <2>4. LockOK' /\ ReadEnough'
    BY <2>2
  <2> QED
    BY <2>2, <2>3, <2>4
<1>4. ASSUME NEW p \in Procs, NEW cost \in Costs, WriteDaily(p, cost)
      PROVE  IInv'
  <2> DEFINE before == IF pc[p] = "write" THEN spent[today] ELSE 0
  <2>1. total[p] \in Nat /\ before \in Nat /\ cost \in Nat
    OBVIOUS
  <2>2. file' = [date |-> today, total |-> total[p] + cost]
    BY <1>4 DEF WriteDaily
  <2>3. spent' = [spent EXCEPT ![today] = before + cost]
    BY <1>4 DEF WriteDaily
  <2>4. total[p] >= before
    BY <1>4 DEF WriteDaily
  <2> HIDE DEF before
  <2>5. TypeOK'
    <3> HIDE DEF IInv, LockOK, ReadEnough, NotFromTomorrow, NeverUndercounts
    <3>1. TypeOK
      BY DEF IInv
    <3>2. file' \in [date : Days, total : Nat]
      BY <2>1, <2>2, <3>1
    <3>3. spent' \in [Days -> Nat]
      BY <2>1, <2>3, <3>1
    <3>4. total' \in [Procs -> Nat] /\ pc' \in [Procs -> Labels] /\ lock' \in Procs \cup {Nobody}
      BY <1>4, <3>1 DEF WriteDaily, Leave
    <3>5. UNCHANGED <<today, calls, straddled>>
      BY <1>4 DEF WriteDaily
    <3> QED
      BY <3>1, <3>2, <3>3, <3>4, <3>5
  <2>6. LockOK' /\ ReadEnough'
    BY <1>4 DEF WriteDaily, Leave
  <2>7. NotFromTomorrow'
    BY <1>4, <2>2 DEF WriteDaily
  <2>8. NeverUndercounts'
    <3>1. file'.total >= spent'[file'.date]
      BY <2>1, <2>2, <2>3, <2>4
    <3>2. file' # NoRecord /\ file'.date = today
      <4>1. file' \in [date : Nat, total : Nat]
        BY <2>1, <2>2
      <4> QED
        BY <2>2, <4>1
    <3>3. ASSUME NEW d \in Days, spent'[d] > 0
          PROVE  today >= d
      <4>1. CASE d = today
        BY <4>1
      <4>2. CASE d # today
        <5>1. spent[d] > 0
          BY <2>3, <3>3, <4>2
        <5> QED
          BY <5>1
      <4> QED
        BY <4>1, <4>2
    <3> QED
      BY <3>1, <3>2, <3>3
  <2> QED
    BY <2>5, <2>6, <2>7, <2>8
<1>5. ASSUME NEW p \in Procs, Fail(p) \/ WriteLess(p)
      PROVE  IInv'
  <2>1. CASE Fail(p)
    BY <2>1 DEF Fail, Leave
  <2>2. CASE WriteLess(p)
    <3>1. LockOK' /\ ReadEnough' /\ NotFromTomorrow'
      BY <2>2 DEF WriteLess, Leave
    <3>2. TypeOK' /\ NeverUndercounts'
      BY <2>2 DEF WriteLess, Leave
    <3> QED
      BY <3>1, <3>2
  <2> QED
    BY <1>5, <2>1, <2>2
<1>6. CASE Midnight
  <2>1. today' \in Days /\ today' = today + 1 /\ UNCHANGED <<file, lock, pc, total, calls, spent>>
    BY <1>6 DEF Midnight
  <2>2. spent[today'] = 0
    <3>1. spent[today'] \in Nat
      BY <2>1
    <3>2. ~(spent[today'] > 0)
      BY <2>1
    <3> QED
      BY <3>1, <3>2
  <2>3. TypeOK' /\ LockOK' /\ NeverUndercounts'
    <3>1. straddled' \subseteq Days
      BY <1>6, <2>1 DEF Midnight
    <3> QED
      BY <2>1, <3>1
  <2>4. ReadEnough'
    BY <2>1, <2>2
  <2>5. NotFromTomorrow'
    BY <2>1
  <2> QED
    BY <2>3, <2>4, <2>5
<1>7. CASE UNCHANGED vars
  BY <1>7 DEF vars
<1> QED
  BY <1>1, <1>2, <1>3, <1>4, <1>5, <1>6, <1>7 DEF Next

(* cost.py: no recorded cost of a day is missing from its total, unless a  *)
(* failed read or a torn write made the code start from nothing.           *)
THEOREM TotalNeverUndercounts == Spec => []NeverUndercounts
<1>1. IInv => NeverUndercounts
  BY DEF IInv
<1> QED
  BY <1>1, IInvInit, IInvStep, PTL DEF Spec

(* Every variable of every caller stays in its type.                       *)
THEOREM TypesHold == Spec => []TypeOK
<1>1. IInv => TypeOK
  BY DEF IInv
<1> QED
  BY <1>1, IInvInit, IInvStep, PTL DEF Spec

-----------------------------------------------------------------------------
(* The reset at midnight. *)
ReadExactly ==
    \A p \in Procs : pc[p] = "write" /\ today \notin straddled => total[p] = spent[today]

Exact == ReadExactly /\ ResetsAtMidnight

LEMMA ExactInit == Init => Exact
BY DEF Init, Exact, ReadExactly, ResetsAtMidnight

(* Where the total of today is exact, so is what is read. *)
LEMMA DailyTotalIsExact ==
    ASSUME IInv, Exact, today \notin straddled
    PROVE  DailyTotal = spent[today]
<1> USE DEF IInv, TypeOK, NotFromTomorrow, NeverUndercounts, Days
<1>1. today \in Days /\ spent[today] \in Nat
  OBVIOUS
<1>2. CASE file # NoRecord /\ file.date = today
  BY <1>2 DEF DailyTotal, Exact, ResetsAtMidnight
<1>3. CASE file = NoRecord \/ file.date # today
  <2>1. file # NoRecord => file.date \in Nat /\ file.date < today
    BY <1>3
  <2>2. ~(spent[today] > 0)
    BY <1>1, <2>1
  <2> QED
    BY <1>1, <1>3, <2>2 DEF DailyTotal
<1> QED
  BY <1>2, <1>3

LEMMA ExactStep == IInv /\ Exact /\ [Next]_vars => Exact'
<1> SUFFICES ASSUME IInv, Exact, [Next]_vars
             PROVE  Exact'
  OBVIOUS
<1> USE DEF Goto
<1>1. TypeOK /\ pc \in [Procs -> Labels]
  BY DEF IInv, TypeOK
<1>2. ASSUME NEW p \in Procs,
             RecordActualCost(p) \/ Acquire(p) \/ LockTimeout(p) \/ ReadError(p)
      PROVE  Exact'
  BY <1>1, <1>2 DEF RecordActualCost, Acquire, LockTimeout, ReadError, Exact, ReadExactly,
     ResetsAtMidnight, TypeOK
<1>3. ASSUME NEW p \in Procs, ReadDaily(p)
      PROVE  Exact'
  BY <1>1, <1>3, DailyTotalIsExact DEF ReadDaily, Exact, ReadExactly, ResetsAtMidnight, TypeOK
<1>4. ASSUME NEW p \in Procs, NEW cost \in Costs, WriteDaily(p, cost)
      PROVE  Exact'
  <2> DEFINE before == IF pc[p] = "write" THEN spent[today] ELSE 0
  <2>1. /\ file' = [date |-> today, total |-> total[p] + cost]
        /\ spent'[today] = before + cost
        /\ pc[p] \in {"write", "overwrite"} /\ pc' = [pc EXCEPT ![p] = "idle"]
        /\ today' = today /\ straddled' = straddled
    BY <1>1, <1>4 DEF WriteDaily, Leave, TypeOK
  <2>2. ASSUME NEW q \in Procs
        PROVE  pc'[q] # "write"
    BY <1>1, <2>1 DEF IInv, LockOK
  <2>3. today \notin straddled => total[p] = before
    BY <2>1 DEF Exact, ReadExactly, IInv, ReadEnough
  <2> HIDE DEF before
  <2> QED
    BY <2>1, <2>2, <2>3 DEF Exact, ReadExactly, ResetsAtMidnight
<1>5. ASSUME NEW p \in Procs, Fail(p) \/ WriteLess(p)
      PROVE  Exact'
  <2>1. CASE Fail(p)
    BY <1>1, <2>1 DEF Fail, Leave, Exact, ReadExactly, ResetsAtMidnight, TypeOK
  <2>2. CASE WriteLess(p)
    <3>1. file' = NoRecord /\ pc[p] \in {"write", "overwrite"} /\ pc' = [pc EXCEPT ![p] = "idle"]
      BY <2>2 DEF WriteLess, Leave
    <3>2. \A q \in Procs : pc'[q] # "write"
      BY <1>1, <3>1 DEF IInv, LockOK
    <3> QED
      BY <3>1, <3>2 DEF Exact, ReadExactly, ResetsAtMidnight
  <2> QED
    BY <1>5, <2>1, <2>2
<1>6. CASE Midnight
  <2>1. /\ today' = today + 1 /\ UNCHANGED <<file, pc, total, spent>>
        /\ straddled \subseteq straddled'
        /\ \A p \in Procs : pc[p] = "write" => today' \in straddled'
    BY <1>6 DEF Midnight
  <2> QED
    BY <2>1 DEF Exact, ReadExactly, ResetsAtMidnight
<1>7. CASE UNCHANGED vars
  BY <1>7 DEF vars, Exact, ReadExactly, ResetsAtMidnight
<1> QED
  BY <1>2, <1>3, <1>4, <1>5, <1>6, <1>7 DEF Next

(* cost.py: the total starts from nothing on a new day, and is exactly     *)
(* what the day has cost, unless the day began between a read and a write. *)
THEOREM DaysAreExact == Spec => []ResetsAtMidnight
<1>1. Exact => ResetsAtMidnight
  BY DEF Exact
<1> QED
  BY <1>1, IInvInit, IInvStep, ExactInit, ExactStep, PTL DEF Spec
=============================================================================
