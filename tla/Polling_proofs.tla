--------------------------- MODULE Polling_proofs ---------------------------
(* What the polling commands report, for every limit, interval and         *)
(* duration.                                                               *)
EXTENDS Polling, TLAPS

(* What a command knows where it is in its loop: it asks only in time, what *)
(* it saw unfinished was so at most one call ago, and what it downloads is  *)
(* over.                                                                    *)
Knows ==
    /\ cmd.outcome # "none" => cmd.pc = "out"
    /\ cmd.pc = "start" => now = 0
    /\ cmd.pc \in {"announce", "clock"} => now <= MaxCall
    /\ cmd.kind # "none" => /\ cmd.wait \in Waits \cup {DefaultWait}
                            /\ cmd.interval \in Intervals \cup {FixedInterval}
    /\ cmd.pc # "out" => cmd.kind # "none" /\ cmd.start <= MaxCall
    /\ cmd.pc = "check" =>
          \/ now = cmd.start
          \/ /\ cmd.interval >= 0 /\ now < cmd.start + cmd.wait + cmd.interval + MaxCall
             /\ op.at > now - cmd.interval - MaxCall
    /\ cmd.pc = "poll" => now < cmd.start + cmd.wait
    /\ cmd.pc = "sleep" => now < cmd.start + cmd.wait + MaxCall /\ op.at > now - MaxCall
    /\ cmd.pc = "download" => op.at <= now

IInv == TypeOK /\ Knows /\ ReportIsFinal /\ TimeoutMeansLate /\ TimeoutInTime

(* Goto and Ends, field by field. *)
LEMMA GotoFields ==
    ASSUME cmd \in CommandType, NEW l \in Pcs, Goto(l)
    PROVE  /\ cmd' \in CommandType
           /\ cmd'.pc = l /\ cmd'.kind = cmd.kind /\ cmd'.wait = cmd.wait
           /\ cmd'.interval = cmd.interval /\ cmd'.start = cmd.start
           /\ cmd'.outcome = cmd.outcome
  BY DEF Goto, CommandType

(* Ends leaves all but the position and the outcome alone. *)
LEMMA EndsFields ==
    ASSUME cmd \in CommandType, NEW o \in Outcomes, Ends(o)
    PROVE  /\ cmd' \in CommandType
           /\ cmd'.pc = "out" /\ cmd'.kind = cmd.kind /\ cmd'.wait = cmd.wait
           /\ cmd'.interval = cmd.interval /\ cmd'.start = cmd.start
           /\ cmd'.outcome = o
  BY DEF Ends, CommandType, Pcs

(* A call or a sleep takes at most its time. *)
LEMMA TakesBounds ==
    ASSUME now \in 0..Horizon, NEW d \in Nat, Takes(d)
    PROVE  /\ now' \in 0..Horizon /\ now <= now' /\ now' <= now + d
           /\ now + d < Horizon => now' = now + d
  BY PollingAssumption DEF Takes

(* A call, of a command that is in time, does not reach the horizon. *)
LEMMA CallsFit ==
    ASSUME TypeOK, Knows, cmd.kind # "none", NEW d \in 1..MaxCall,
           cmd.start <= MaxCall, now < cmd.start + cmd.wait
    PROVE  now + d < Horizon
  BY PollingAssumption DEF TypeOK, Knows, CommandType

(* The first command has not begun. *)
LEMMA InitEstablishes == Init => IInv
  <1> SUFFICES ASSUME Init PROVE IInv
    OBVIOUS
  <1> USE PollingAssumption DEF Init
  <1>1. cmd \in CommandType
    BY DEF CommandType, Pcs, Outcomes
  <1>2. TypeOK
    <2>1. op \in [how : Finals \cup {"none"}, at : Nat]
      OBVIOUS
    <2>2. now \in 0..Horizon /\ commands \in 0..MaxCommands /\ cmd.start <= now
      OBVIOUS
    <2>3. cmd.pc \notin {"check", "poll", "sleep"}
      OBVIOUS
    <2>4. QED  BY <1>1, <2>1, <2>2, <2>3 DEF TypeOK
  <1>3. Knows
    BY DEF Knows
  <1>4. ReportIsFinal /\ TimeoutMeansLate /\ TimeoutInTime
    BY DEF ReportIsFinal, TimeoutMeansLate, TimeoutInTime
  <1>5. QED  BY <1>2, <1>3, <1>4 DEF IInv

(* A command that ends with anything but a report keeps the invariant.      *)
LEMMA EndingKeeps ==
    ASSUME IInv, cmd.pc # "out", Ends("error") \/ Ends("killed"),
           now' \in 0..Horizon, now' >= now, UNCHANGED <<op, told, commands>>
    PROVE  IInv'
  <1> USE PollingAssumption DEF IInv
  <1>1. /\ cmd' \in CommandType /\ cmd'.pc = "out" /\ cmd'.kind = cmd.kind
        /\ cmd'.wait = cmd.wait /\ cmd'.interval = cmd.interval
        /\ cmd'.start = cmd.start /\ cmd'.outcome \in {"error", "killed"}
    BY EndsFields DEF TypeOK, Outcomes
  <1>2. TypeOK'
    BY <1>1 DEF TypeOK, CommandType
  <1>3. Knows'
    BY <1>1 DEF TypeOK, Knows, CommandType
  <1>4. ReportIsFinal'
    BY <1>1 DEF TypeOK, Knows, CommandType, ReportIsFinal
  <1>5. TimeoutMeansLate'
    BY <1>1 DEF TypeOK, Knows, CommandType, TimeoutMeansLate
  <1>6. TimeoutInTime'
    BY <1>1 DEF TypeOK, Knows, CommandType, TimeoutInTime
  <1>7. QED  BY <1>2, <1>3, <1>4, <1>5, <1>6 DEF IInv

(* A new command knows nothing yet. *)
LEMMA BeginKeeps == IInv /\ Begin => IInv'
  <1> SUFFICES ASSUME IInv, Begin PROVE IInv'
    OBVIOUS
  <1> USE PollingAssumption DEF IInv
  <1>1. /\ cmd' \in CommandType /\ cmd'.outcome = "none" /\ cmd'.start = 0
        /\ cmd'.kind # "none" /\ cmd'.pc \in {"start", "clock"}
        /\ cmd'.pc = "clock" => told
        /\ cmd'.wait \in Waits \cup {DefaultWait}
        /\ cmd'.interval \in Intervals \cup {FixedInterval}
    BY DEF Begin, Command, PollTimeout, CommandType, Kinds, Pcs, Outcomes, TypeOK
  <1>2. now' = 0 /\ told' = told /\ commands' \in 0..MaxCommands
    BY DEF Begin, TypeOK
  <1>3. op' \in [how : Finals \cup {"none"}, at : Nat]
    <2>1. PICK rest \in Rest : op' = [op EXCEPT !.at = rest]
      BY DEF Begin
    <2>2. rest \in Nat
      BY DEF Rest, TypeOK
    <2>3. QED  BY <2>1, <2>2 DEF TypeOK
  <1>4. TypeOK'
    BY <1>1, <1>2, <1>3 DEF TypeOK, CommandType
  <1>5. Knows'
    BY <1>1, <1>2, <1>3 DEF TypeOK, Knows, CommandType
  <1>6. ReportIsFinal'
    BY <1>1, <1>2, <1>3 DEF TypeOK, Knows, CommandType, ReportIsFinal
  <1>7. TimeoutMeansLate'
    BY <1>1, <1>2, <1>3 DEF TypeOK, Knows, CommandType, TimeoutMeansLate
  <1>8. TimeoutInTime'
    BY <1>1, <1>2, <1>3 DEF TypeOK, Knows, CommandType, TimeoutInTime
  <1>9. QED  BY <1>4, <1>5, <1>6, <1>7, <1>8 DEF IInv

(* The call that starts the operation. *)
LEMMA StartKeeps == IInv /\ StartOperation => IInv'
  <1> SUFFICES ASSUME IInv, StartOperation PROVE IInv'
    OBVIOUS
  <1> USE PollingAssumption DEF IInv
  <1>1. PICK d \in 1..MaxCall :
            /\ Takes(d)
            /\ \/ Ends("error") /\ UNCHANGED <<op, told>>
               \/ /\ \E t \in Durations, how \in Finals : op' = [how |-> how, at |-> now + t]
                  /\ told' = FALSE
                  /\ Goto("announce")
    BY DEF StartOperation
  <1>2. /\ now' \in 0..Horizon /\ now' >= now /\ now = 0 /\ now' <= MaxCall
        /\ cmd.pc = "start" /\ UNCHANGED commands
    BY <1>1, TakesBounds DEF TypeOK, Knows, StartOperation
  <1>3. CASE Ends("error") /\ UNCHANGED <<op, told>>
    BY <1>2, <1>3, EndingKeeps
  <1>4. CASE Goto("announce") /\ told' = FALSE
             /\ \E t \in Durations, how \in Finals : op' = [how |-> how, at |-> now + t]
    <2>1. op' \in [how : Finals \cup {"none"}, at : Nat]
      BY <1>4 DEF TypeOK
    <2>2. /\ cmd' \in CommandType /\ cmd'.pc = "announce" /\ cmd'.kind = cmd.kind
          /\ cmd'.wait = cmd.wait /\ cmd'.interval = cmd.interval
          /\ cmd'.start = cmd.start /\ cmd'.outcome = cmd.outcome
      BY <1>4, GotoFields DEF TypeOK, Pcs
    <2>3. TypeOK'
      <3>1. told' \in BOOLEAN /\ commands' \in 0..MaxCommands
        BY <1>2, <1>4 DEF TypeOK
      <3>2. cmd'.start <= now'
        BY <1>2, <2>2 DEF TypeOK, CommandType
      <3>3. QED  BY <1>2, <2>1, <2>2, <3>1, <3>2 DEF TypeOK
    <2>4. Knows'
      BY <1>2, <1>4, <2>1, <2>2 DEF TypeOK, Knows, CommandType
    <2>5. ReportIsFinal'
      BY <1>2, <1>4, <2>1, <2>2 DEF TypeOK, Knows, CommandType, ReportIsFinal
    <2>6. TimeoutMeansLate'
      BY <1>2, <1>4, <2>1, <2>2 DEF TypeOK, Knows, CommandType, TimeoutMeansLate
    <2>7. TimeoutInTime'
      BY <1>2, <1>4, <2>1, <2>2 DEF TypeOK, Knows, CommandType, TimeoutInTime
    <2>8. QED  BY <2>3, <2>4, <2>5, <2>6, <2>7 DEF IInv
  <1>5. QED  BY <1>1, <1>3, <1>4

(* The id is printed. *)
LEMMA AnnounceKeeps == IInv /\ Announce => IInv'
  <1> SUFFICES ASSUME IInv, Announce PROVE IInv'
    OBVIOUS
  <1> USE PollingAssumption DEF IInv
  <1>1. /\ cmd' \in CommandType /\ cmd'.pc = "clock" /\ cmd'.kind = cmd.kind
        /\ cmd'.wait = cmd.wait /\ cmd'.interval = cmd.interval
        /\ cmd'.start = cmd.start /\ cmd'.outcome = cmd.outcome
    BY GotoFields DEF Announce, TypeOK, Pcs
  <1>2. TypeOK'
    BY <1>1 DEF TypeOK, CommandType, Announce
  <1>3. Knows'
    BY <1>1 DEF TypeOK, Knows, CommandType, Announce
  <1>4. ReportIsFinal'
    BY <1>1 DEF TypeOK, Knows, CommandType, ReportIsFinal, Announce
  <1>5. TimeoutMeansLate'
    BY <1>1 DEF TypeOK, Knows, CommandType, TimeoutMeansLate, Announce
  <1>6. TimeoutInTime'
    BY <1>1 DEF TypeOK, Knows, CommandType, TimeoutInTime, Announce
  <1>7. QED  BY <1>2, <1>3, <1>4, <1>5, <1>6 DEF IInv

(* The wait begins. *)
LEMMA StartClockKeeps == IInv /\ StartClock => IInv'
  <1> SUFFICES ASSUME IInv, StartClock PROVE IInv'
    OBVIOUS
  <1> USE PollingAssumption DEF IInv
  <1>1. /\ cmd' \in CommandType /\ cmd'.pc = "check" /\ cmd'.kind = cmd.kind
        /\ cmd'.wait = cmd.wait /\ cmd'.interval = cmd.interval
        /\ cmd'.start = now /\ cmd'.outcome = cmd.outcome
    BY DEF StartClock, TypeOK, CommandType, Pcs
  <1>2. TypeOK'
    BY <1>1 DEF TypeOK, CommandType, StartClock
  <1>3. Knows'
    BY <1>1 DEF TypeOK, Knows, CommandType, StartClock
  <1>4. ReportIsFinal'
    BY <1>1 DEF TypeOK, Knows, CommandType, ReportIsFinal, StartClock
  <1>5. TimeoutMeansLate'
    BY <1>1 DEF TypeOK, Knows, CommandType, TimeoutMeansLate, StartClock
  <1>6. TimeoutInTime'
    BY <1>1 DEF TypeOK, Knows, CommandType, TimeoutInTime, StartClock
  <1>7. QED  BY <1>2, <1>3, <1>4, <1>5, <1>6 DEF IInv

(* The command polls in time or reports a timeout. *)
LEMMA CheckKeeps == IInv /\ CheckTime => IInv'
  <1> SUFFICES ASSUME IInv, CheckTime PROVE IInv'
    OBVIOUS
  <1> USE PollingAssumption DEF IInv
  <1>1. cmd.pc = "check" /\ UNCHANGED <<now, op, told, commands>>
    BY DEF CheckTime
  <1>2. CASE now - cmd.start < cmd.wait
    <2>1. /\ cmd' \in CommandType /\ cmd'.pc = "poll" /\ cmd'.kind = cmd.kind
          /\ cmd'.wait = cmd.wait /\ cmd'.interval = cmd.interval
          /\ cmd'.start = cmd.start /\ cmd'.outcome = cmd.outcome
      BY <1>2, GotoFields DEF CheckTime, TypeOK, Pcs
    <2>2. TypeOK'
      BY <1>1, <1>2, <2>1 DEF TypeOK, CommandType
    <2>3. Knows'
      BY <1>1, <1>2, <2>1 DEF TypeOK, Knows, CommandType
    <2>4. ReportIsFinal'
      BY <1>1, <1>2, <2>1 DEF TypeOK, Knows, CommandType, ReportIsFinal
    <2>5. TimeoutMeansLate'
      BY <1>1, <1>2, <2>1 DEF TypeOK, Knows, CommandType, TimeoutMeansLate
    <2>6. TimeoutInTime'
      BY <1>1, <1>2, <2>1 DEF TypeOK, Knows, CommandType, TimeoutInTime
    <2>7. QED  BY <2>2, <2>3, <2>4, <2>5, <2>6 DEF IInv
  <1>3. CASE ~(now - cmd.start < cmd.wait)
    <2>1. /\ cmd' \in CommandType /\ cmd'.pc = "out" /\ cmd'.kind = cmd.kind
          /\ cmd'.wait = cmd.wait /\ cmd'.interval = cmd.interval
          /\ cmd'.start = cmd.start /\ cmd'.outcome = "timeout"
      BY <1>3, EndsFields DEF CheckTime, TypeOK, Outcomes
    <2>2. TypeOK'
      BY <1>1, <1>3, <2>1 DEF TypeOK, CommandType
    <2>3. Knows'
      BY <1>1, <1>3, <2>1 DEF TypeOK, Knows, CommandType
    <2>4. ReportIsFinal'
      BY <1>1, <1>3, <2>1 DEF TypeOK, Knows, CommandType, ReportIsFinal
    <2>5. TimeoutMeansLate'
      BY <1>1, <1>3, <2>1 DEF TypeOK, Knows, CommandType, TimeoutMeansLate
    <2>6. TimeoutInTime'
      BY <1>1, <1>3, <2>1 DEF TypeOK, Knows, CommandType, TimeoutInTime
    <2>7. QED  BY <2>2, <2>3, <2>4, <2>5, <2>6 DEF IInv
  <1>4. QED  BY <1>2, <1>3

(* A poll sees the operation as it was during the call. *)
LEMMA PollKeeps == IInv /\ Poll => IInv'
  <1> SUFFICES ASSUME IInv, Poll PROVE IInv'
    OBVIOUS
  <1> USE PollingAssumption DEF IInv
  <1>1. PICK d \in 1..MaxCall :
            Takes(d) /\ ((\E status \in Seen(d) : Judge(status)) \/ Ends("error"))
    BY DEF Poll
  <1>2. cmd.pc = "poll" /\ UNCHANGED <<op, told, commands>>
    BY DEF Poll
  <1>3. cmd.kind # "none" /\ cmd.start <= MaxCall /\ now < cmd.start + cmd.wait
    BY <1>2 DEF Knows
  <1>4. now' \in 0..Horizon /\ now' = now + d
    BY <1>1, <1>3, CallsFit, TakesBounds DEF TypeOK
  <1>5. CASE Ends("error")
    BY <1>2, <1>4, <1>5, EndingKeeps DEF TypeOK
  <1>6. ASSUME NEW status \in Seen(d), Judge(status)
        PROVE  IInv'
    <2>1. \/ status \in Unfinished /\ op.at > now
          \/ status = op.how /\ op.at <= now' /\ status \notin Unfinished
      BY <1>4, <1>6 DEF Seen, TypeOK, Finals, Unfinished
    <2>2. CASE status \in Unfinished
      <3>1. /\ cmd' \in CommandType /\ cmd'.pc = "sleep" /\ cmd'.kind = cmd.kind
            /\ cmd'.wait = cmd.wait /\ cmd'.interval = cmd.interval
            /\ cmd'.start = cmd.start /\ cmd'.outcome = cmd.outcome
        BY <1>6, <2>2, GotoFields DEF Judge, TypeOK, Pcs
      <3>2. TypeOK'
        BY <1>2, <1>4, <2>1, <2>2, <3>1 DEF TypeOK, CommandType
      <3>3. Knows'
        BY <1>2, <1>4, <2>1, <2>2, <3>1 DEF TypeOK, Knows, CommandType
      <3>4. ReportIsFinal'
        BY <1>2, <1>4, <2>1, <2>2, <3>1 DEF TypeOK, Knows, CommandType, ReportIsFinal
      <3>5. TimeoutMeansLate'
        BY <1>2, <1>4, <2>1, <2>2, <3>1 DEF TypeOK, Knows, CommandType, TimeoutMeansLate
      <3>6. TimeoutInTime'
        BY <1>2, <1>4, <2>1, <2>2, <3>1 DEF TypeOK, Knows, CommandType, TimeoutInTime
      <3>7. QED  BY <3>2, <3>3, <3>4, <3>5, <3>6 DEF IInv
    <2>3. CASE status \notin Unfinished /\ cmd.kind = "video"
      <3>1. /\ cmd' \in CommandType /\ cmd'.pc = "download" /\ cmd'.kind = cmd.kind
            /\ cmd'.wait = cmd.wait /\ cmd'.interval = cmd.interval
            /\ cmd'.start = cmd.start /\ cmd'.outcome = cmd.outcome
        BY <1>6, <2>3, GotoFields DEF Judge, TypeOK, Pcs
      <3>2. TypeOK'
        BY <1>2, <1>4, <2>1, <2>3, <3>1 DEF TypeOK, CommandType
      <3>3. Knows'
        BY <1>2, <1>4, <2>1, <2>3, <3>1 DEF TypeOK, Knows, CommandType
      <3>4. ReportIsFinal'
        BY <1>2, <1>4, <2>1, <2>3, <3>1 DEF TypeOK, Knows, CommandType, ReportIsFinal
      <3>5. TimeoutMeansLate'
        BY <1>2, <1>4, <2>1, <2>3, <3>1 DEF TypeOK, Knows, CommandType, TimeoutMeansLate
      <3>6. TimeoutInTime'
        BY <1>2, <1>4, <2>1, <2>3, <3>1 DEF TypeOK, Knows, CommandType, TimeoutInTime
      <3>7. QED  BY <3>2, <3>3, <3>4, <3>5, <3>6 DEF IInv
    <2>4. CASE status \notin Unfinished /\ cmd.kind # "video"
      <3>1. PICK o \in Outcomes :
                /\ Ends(o)
                /\ \/ o = "result" /\ (cmd.kind = "upload" \/ status = "completed")
                   \/ o = "failed" /\ status # "completed"
        BY <1>6, <2>4 DEF Judge, Outcomes
      <3>2. /\ cmd' \in CommandType /\ cmd'.pc = "out" /\ cmd'.kind = cmd.kind
            /\ cmd'.wait = cmd.wait /\ cmd'.interval = cmd.interval
            /\ cmd'.start = cmd.start /\ cmd'.outcome = o
        BY <3>1, EndsFields DEF TypeOK
      <3>3. TypeOK'
        BY <1>2, <1>4, <2>1, <2>4, <3>1, <3>2 DEF TypeOK, CommandType
      <3>4. Knows'
        BY <1>2, <1>4, <2>1, <2>4, <3>1, <3>2 DEF TypeOK, Knows, CommandType
      <3>5. ReportIsFinal'
        BY <1>2, <1>4, <2>1, <2>4, <3>1, <3>2 DEF TypeOK, Knows, CommandType, ReportIsFinal
      <3>6. TimeoutMeansLate'
        BY <1>2, <1>4, <2>1, <2>4, <3>1, <3>2 DEF TypeOK, Knows, CommandType, TimeoutMeansLate
      <3>7. TimeoutInTime'
        BY <1>2, <1>4, <2>1, <2>4, <3>1, <3>2 DEF TypeOK, Knows, CommandType, TimeoutInTime
      <3>8. QED  BY <3>3, <3>4, <3>5, <3>6, <3>7 DEF IInv
    <2>5. QED  BY <2>2, <2>3, <2>4
  <1>7. QED  BY <1>1, <1>5, <1>6

(* A sleep is no longer than the interval. *)
LEMMA SleepKeeps == IInv /\ Sleep => IInv'
  <1> SUFFICES ASSUME IInv, Sleep PROVE IInv'
    OBVIOUS
  <1> USE PollingAssumption DEF IInv
  <1>1. cmd.pc = "sleep" /\ UNCHANGED <<op, told, commands>>
    BY DEF Sleep
  <1>2. CASE cmd.interval < 0
    <2>1. Ends("error") /\ UNCHANGED now
      BY <1>2 DEF Sleep
    <2>2. QED  BY <1>1, <2>1, EndingKeeps DEF TypeOK
  <1>3. CASE ~(cmd.interval < 0)
    <2>1. cmd.interval \in Nat
      BY <1>3 DEF TypeOK, CommandType
    <2>2. Takes(cmd.interval) /\ Goto("check")
      BY <1>3 DEF Sleep
    <2>3. now' \in 0..Horizon /\ now <= now' /\ now' <= now + cmd.interval
      BY <2>1, <2>2, TakesBounds DEF TypeOK
    <2>4. /\ cmd' \in CommandType /\ cmd'.pc = "check" /\ cmd'.kind = cmd.kind
          /\ cmd'.wait = cmd.wait /\ cmd'.interval = cmd.interval
          /\ cmd'.start = cmd.start /\ cmd'.outcome = cmd.outcome
      BY <2>2, GotoFields DEF TypeOK, Pcs
    <2>5. TypeOK'
      BY <1>1, <2>1, <2>3, <2>4 DEF TypeOK, CommandType
    <2>6. Knows'
      BY <1>1, <2>1, <2>3, <2>4 DEF TypeOK, Knows, CommandType
    <2>7. ReportIsFinal'
      BY <1>1, <2>1, <2>3, <2>4 DEF TypeOK, Knows, CommandType, ReportIsFinal
    <2>8. TimeoutMeansLate'
      BY <1>1, <2>1, <2>3, <2>4 DEF TypeOK, Knows, CommandType, TimeoutMeansLate
    <2>9. TimeoutInTime'
      BY <1>1, <2>1, <2>3, <2>4 DEF TypeOK, Knows, CommandType, TimeoutInTime
    <2>10. QED  BY <2>5, <2>6, <2>7, <2>8, <2>9 DEF IInv
  <1>4. QED  BY <1>2, <1>3

(* The operation stays over while its video is fetched. *)
LEMMA DownloadKeeps == IInv /\ Download => IInv'
  <1> SUFFICES ASSUME IInv, Download PROVE IInv'
    OBVIOUS
  <1> USE PollingAssumption DEF IInv
  <1>1. cmd.pc = "download" /\ UNCHANGED <<op, told, commands>>
    BY DEF Download
  <1>2. CASE op.how # "completed"
    <2>1. Ends("error") /\ UNCHANGED now
      BY <1>2 DEF Download
    <2>2. QED  BY <1>1, <2>1, EndingKeeps DEF TypeOK
  <1>3. CASE op.how = "completed"
    <2>1. PICK d \in 1..MaxCall : Takes(d) /\ (Ends("result") \/ Ends("error"))
      BY <1>3 DEF Download
    <2>2. now' \in 0..Horizon /\ now <= now'
      BY <2>1, TakesBounds DEF TypeOK
    <2>3. CASE Ends("error")
      BY <1>1, <2>2, <2>3, EndingKeeps
    <2>4. CASE Ends("result")
      <3>1. /\ cmd' \in CommandType /\ cmd'.pc = "out" /\ cmd'.kind = cmd.kind
            /\ cmd'.wait = cmd.wait /\ cmd'.interval = cmd.interval
            /\ cmd'.start = cmd.start /\ cmd'.outcome = "result"
        BY <2>4, EndsFields DEF TypeOK, Outcomes
      <3>2. TypeOK'
        BY <1>1, <1>3, <2>2, <3>1 DEF TypeOK, CommandType
      <3>3. Knows'
        BY <1>1, <1>3, <2>2, <3>1 DEF TypeOK, Knows, CommandType
      <3>4. ReportIsFinal'
        BY <1>1, <1>3, <2>2, <3>1 DEF TypeOK, Knows, CommandType, ReportIsFinal
      <3>5. TimeoutMeansLate'
        BY <1>1, <1>3, <2>2, <3>1 DEF TypeOK, Knows, CommandType, TimeoutMeansLate
      <3>6. TimeoutInTime'
        BY <1>1, <1>3, <2>2, <3>1 DEF TypeOK, Knows, CommandType, TimeoutInTime
      <3>7. QED  BY <3>2, <3>3, <3>4, <3>5, <3>6 DEF IInv
    <2>5. QED  BY <2>1, <2>3, <2>4
  <1>4. QED  BY <1>2, <1>3

(* Every step keeps the invariant. *)
LEMMA NextKeeps == IInv /\ [Next]_vars => IInv'
  <1> SUFFICES ASSUME IInv, [Next]_vars PROVE IInv'
    OBVIOUS
  <1>1. CASE Kill
    BY <1>1, EndingKeeps DEF Kill, IInv, TypeOK
  <1>2. CASE UNCHANGED vars
    BY <1>2 DEF vars, IInv, TypeOK, Knows, ReportIsFinal, TimeoutMeansLate, TimeoutInTime
  <1>3. QED
    BY <1>1, <1>2, BeginKeeps, StartKeeps, AnnounceKeeps, StartClockKeeps, CheckKeeps,
       PollKeeps, SleepKeeps, DownloadKeeps
    DEF Next, Step

(* Types, and what a command knows, hold of every step: the three theorems  *)
(* below are conjuncts of it.                                               *)
THEOREM PollingInvariant == Spec => []IInv
  BY InitEstablishes, NextKeeps, PTL DEF Spec

(* A report is of an operation that is over, whatever order the calls, the  *)
(* end of the operation and a resumption come in.                           *)
THEOREM ReportsAreFinal == Spec => []ReportIsFinal
  <1>1. IInv => ReportIsFinal
    BY DEF IInv
  <1>2. QED  BY PollingInvariant, <1>1, PTL

(* A timeout is not reported of an operation that was over one sleep and    *)
(* one call before the limit.                                               *)
THEOREM TimeoutsAreLate == Spec => []TimeoutMeansLate
  <1>1. IInv => TimeoutMeansLate
    BY DEF IInv
  <1>2. QED  BY PollingInvariant, <1>1, PTL

(* A timeout comes less than one sleep and one call after the limit.        *)
THEOREM TimeoutsAreInTime == Spec => []TimeoutInTime
  <1>1. IInv => TimeoutInTime
    BY DEF IInv
  <1>2. QED  BY PollingInvariant, <1>1, PTL

(* Every variable stays in its type.                                       *)
THEOREM TypesHold == Spec => []TypeOK
<1>1. IInv => TypeOK
  BY DEF IInv
<1> QED
  BY <1>1, PollingInvariant, PTL
=============================================================================
