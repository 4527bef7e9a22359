------------------------------ MODULE Polling -------------------------------
(***************************************************************************)
(* adapters/experimental/deep_research.py, adapters/media/video_gen.py and *)
(* the upload of adapters/data/file_search.py: commands that start a long  *)
(* operation of the server and ask for it until it is over or the time is  *)
(* up; a deep research can be resumed by another command.  Time passes in  *)
(* calls and in sleeps and is counted from the beginning of the command.   *)
(* When the server will be done, and how, is drawn with the operation.     *)
(* Without --execute a command does nothing, and is left out.              *)
(***************************************************************************)
EXTENDS Integers

CONSTANTS
    Waits,          \* the values of --max-wait
    DefaultWait,    \* deep_research_timeout_seconds, and the limit of an upload
    Intervals,      \* the values of --poll-interval
    FixedInterval,  \* the sleep of the other commands
    MaxCall,        \* how long a call may take: assumed, see Transport!CallsEnd
    Durations,      \* how long an operation may take
    Horizon,        \* bound of the clock, where it stands: no command gets there
    MaxCommands     \* bound: how many commands are run

ASSUME PollingAssumption ==
    /\ Waits \subseteq Int /\ Intervals \subseteq Int /\ Durations \subseteq Nat
    /\ DefaultWait \in Nat \ {0} /\ FixedInterval \in Nat \ {0}
    /\ MaxCall \in Nat \ {0} /\ MaxCommands \in Nat
    /\ Horizon \in Nat
    /\ \A w \in Waits \cup {DefaultWait}, i \in Intervals \cup {0, FixedInterval} :
          w + i + 3 * MaxCall < Horizon

Kinds == {"research", "resume", "video", "upload"}
Finals == {"completed", "failed", "cancelled"}
Unfinished == {"queued", "in_progress"}

VARIABLES
    now,        \* the time since the beginning of the command
    op,         \* the latest operation: how and when it will be over
    told,       \* its id was printed
    cmd,        \* the command that runs, or the last one
    commands    \* how many were run

vars == <<now, op, told, cmd, commands>>

(* The command of kind k that waits w and sleeps i. *)
Command(k, w, i) ==
    [kind |-> k, wait |-> w, interval |-> i, start |-> 0, outcome |-> "none",
     pc |-> IF k = "resume" THEN "clock" ELSE "start"]

Pcs == {"out", "start", "announce", "clock", "check", "poll", "sleep", "download"}
Outcomes == {"none", "result", "failed", "timeout", "error", "killed"}

CommandType == [kind : Kinds \cup {"none"}, wait : Int, interval : Int,
                start : 0..Horizon, outcome : Outcomes, pc : Pcs]

TypeOK ==
    /\ now \in 0..Horizon /\ told \in BOOLEAN /\ commands \in 0..MaxCommands
    /\ op \in [how : Finals \cup {"none"}, at : Nat]
    /\ cmd \in CommandType
    /\ cmd.start <= now
    /\ cmd.pc \in {"clock", "check", "poll", "sleep"} => told

Init ==
    /\ now = 0 /\ told = FALSE /\ commands = 0
    /\ op = [how |-> "none", at |-> 0]
    /\ cmd = [kind |-> "none", wait |-> 0, interval |-> 0, start |-> 0,
              outcome |-> "none", pc |-> "out"]

Goto(l) == cmd' = [cmd EXCEPT !.pc = l]
Ends(how) == cmd' = [cmd EXCEPT !.pc = "out", !.outcome = how]
Takes(d) == now' = IF now + d < Horizon THEN now + d ELSE Horizon

(* How long the operation still takes, unless it ends before the next      *)
(* command.                                                                *)
Rest == {0, IF op.at > now THEN op.at - now ELSE 0}

(* run: no --max-wait, or a zero, means the default for a research. *)
PollTimeout(w) == IF w = 0 THEN DefaultWait ELSE w

Begin ==
    /\ cmd.pc = "out" /\ commands < MaxCommands
    /\ \E w \in Waits, i \in Intervals :
          \/ cmd' = Command("research", PollTimeout(w), FixedInterval)
          \/ told /\ cmd' = Command("resume", PollTimeout(w), FixedInterval)
          \/ cmd' = Command("video", w, i)
          \/ cmd' = Command("upload", DefaultWait, FixedInterval)
    /\ commands' = commands + 1
    /\ now' = 0
    /\ \E rest \in Rest : op' = [op EXCEPT !.at = rest]
    /\ UNCHANGED told

(* The call that starts the operation fails, has no id in its answer, or   *)
(* succeeds.                                                               *)
StartOperation ==
    /\ cmd.pc = "start"
    /\ \E d \in 1..MaxCall :
          /\ Takes(d)
          /\ \/ Ends("error") /\ UNCHANGED <<op, told>>
             \/ /\ \E t \in Durations, how \in Finals : op' = [how |-> how, at |-> now + t]
                /\ told' = FALSE
                /\ Goto("announce")
    /\ UNCHANGED commands

Announce ==
    /\ cmd.pc = "announce"
    /\ told' = TRUE
    /\ Goto("clock")
    /\ UNCHANGED <<now, op, commands>>

StartClock ==
    /\ cmd.pc = "clock"
    /\ cmd' = [cmd EXCEPT !.pc = "check", !.start = now]
    /\ UNCHANGED <<now, op, told, commands>>

(* Mutant of CheckTime: the limit itself is still in time. *)
CheckTimeInclusive ==
    /\ cmd.pc = "check"
    /\ IF now - cmd.start <= cmd.wait THEN Goto("poll") ELSE Ends("timeout")
    /\ UNCHANGED <<now, op, told, commands>>

(* Mutant of CheckTime: the difference is taken the wrong way round. *)
CheckTimeReversed ==
    /\ cmd.pc = "check"
    /\ IF cmd.start - now < cmd.wait THEN Goto("poll") ELSE Ends("timeout")
    /\ UNCHANGED <<now, op, told, commands>>

CheckTime ==
    /\ cmd.pc = "check"
    /\ IF now - cmd.start < cmd.wait THEN Goto("poll") ELSE Ends("timeout")
    /\ UNCHANGED <<now, op, told, commands>>

(* What a call from now to now + d may see of the operation. *)
Seen(d) == (IF op.at <= now + d THEN {op.how} ELSE {})
               \cup (IF op.at > now THEN Unfinished ELSE {})

(* Mutant of Judge: every other status than "in_progress" ends a research. *)
JudgeQueued(status) ==
    IF status = "in_progress" THEN Goto("sleep")
    ELSE IF cmd.kind = "video" THEN Goto("download")
    ELSE IF cmd.kind = "upload" \/ status = "completed" THEN Ends("result")
    ELSE Ends("failed")

(* The status decides for a research, the flag "done" for the others. *)
Judge(status) ==
    IF status \in Unfinished THEN Goto("sleep")
    ELSE IF cmd.kind = "video" THEN Goto("download")
    ELSE IF cmd.kind = "upload" \/ status = "completed" THEN Ends("result")
    ELSE Ends("failed")

Poll ==
    /\ cmd.pc = "poll"
    /\ \E d \in 1..MaxCall :
          /\ Takes(d)
          /\ (\E status \in Seen(d) : Judge(status)) \/ Ends("error")
    /\ UNCHANGED <<op, told, commands>>

(* Mutant of Sleep: the interval is doubled, as for a back-off. *)
SleepTwice ==
    /\ cmd.pc = "sleep"
    /\ IF cmd.interval < 0 THEN Ends("error") /\ UNCHANGED now
       ELSE Takes(2 * cmd.interval) /\ Goto("check")
    /\ UNCHANGED <<op, told, commands>>

(* time.sleep raises ValueError if the interval is negative. *)
Sleep ==
    /\ cmd.pc = "sleep"
    /\ IF cmd.interval < 0 THEN Ends("error") /\ UNCHANGED now
       ELSE Takes(cmd.interval) /\ Goto("check")
    /\ UNCHANGED <<op, told, commands>>

(* _extract_video_uri finds nothing unless there is a video; _download. *)
Download ==
    /\ cmd.pc = "download"
    /\ IF op.how # "completed" THEN Ends("error") /\ UNCHANGED now
       ELSE \E d \in 1..MaxCall : Takes(d) /\ (Ends("result") \/ Ends("error"))
    /\ UNCHANGED <<op, told, commands>>

Kill ==
    /\ cmd.pc # "out"
    /\ Ends("killed")
    /\ UNCHANGED <<now, op, told, commands>>

Step == StartOperation \/ Announce \/ StartClock \/ CheckTime \/ Poll \/ Sleep \/ Download

Next == Begin \/ Step \/ Kill

(* A command that runs goes on: sleeps end, and calls return, which is     *)
(* assumed where the SDK makes them (Transport).                           *)
Spec == Init /\ [][Next]_vars /\ WF_vars(Step)

-----------------------------------------------------------------------------
(* deep_research.py, video_gen.py, file_search.py: a result is reported    *)
(* only of an operation that is over, and of one that went well unless the *)
(* whole operation is printed; a failure only of one that failed.          *)
ReportIsFinal ==
    /\ cmd.outcome = "result" => op.at <= now /\ (op.how = "completed" \/ cmd.kind = "upload")
    /\ cmd.outcome = "failed" => op.at <= now /\ op.how # "completed"

(* The same loops: who is told of a timeout had given the command the time *)
(* (--max-wait is positive), and the operation was not over when there was *)
(* still time for a sleep and a call: the last sleep hides no more.        *)
TimeoutMeansLate ==
    cmd.outcome = "timeout" =>
        /\ now >= cmd.start + cmd.wait
        /\ cmd.wait > 0 => op.at > cmd.start + cmd.wait - cmd.interval - MaxCall

(* The same loops: however the calls and sleeps fall, a timeout comes less *)
(* than one sleep and one call after the time is up.                       *)
TimeoutInTime ==
    cmd.outcome = "timeout" /\ cmd.wait > 0 =>
        now < cmd.start + cmd.wait + cmd.interval + MaxCall

(* The same loops: every command comes to an end, also if the operation    *)
(* never does and if the interval is zero.                                 *)
CommandsEnd == (cmd.pc # "out") ~> (cmd.pc = "out")
=============================================================================
