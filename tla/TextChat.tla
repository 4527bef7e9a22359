------------------------------ MODULE TextChat ------------------------------
(***************************************************************************)
(* adapters/generation/text.py with --session or --continue: a process     *)
(* looks its session up, loads or creates it, calls the API and appends    *)
(* the user's message and the model's in two calls of append_message.      *)
(* A message is its role and the turn (process and number) it belongs to.  *)
(***************************************************************************)
EXTENDS SessionState

CONSTANTS
    NoSession,      \* no session id was resolved
    MaxTurns,       \* bound: turns that each process takes
    MayCrash,       \* processes may be killed
    MayEnd          \* somebody calls end_session

ASSUME TurnsAssumption == MaxTurns \in Nat
ASSUME SwitchesAssumption == {MayCrash, MayEnd, MayFail} \subseteq BOOLEAN

VARIABLES
    pc,         \* where each process is in run()
    sid,        \* its session_id
    sent,       \* the history it sends to the API
    turn        \* the number of turns it has begun

vars == <<sessionVars, pc, sid, sent, turn>>
runVars == <<pc, sid, sent, turn>>

Message(p, r) == [role |-> r, turn |-> <<p, turn[p]>>]
AllMessages == [role : {"user", "model"}, turn : Procs \X (1..MaxTurns)]

ASSUME NamesAssumption ==
    /\ Nobody \notin Procs /\ NoSession \notin Sessions /\ IsFiniteSet(Sessions)
    /\ NoFile \notin Seq(AllMessages)

TypeOK ==
    /\ pc \in [Procs -> {"start", "exists", "get_history", "create", "created", "api",
                         "append_user", "append_model", "appended"}]
    /\ sid \in [Procs -> Sessions \cup {NoSession}]
    /\ sent \in [Procs -> Seq(AllMessages)]
    /\ turn \in [Procs -> 0..MaxTurns]
    /\ file \in [Sessions -> {NoFile} \cup Seq(AllMessages)]
    /\ recent \in Seq(Sessions) /\ ToSet(recent) = {s \in Sessions : file[s] # NoFile}
    /\ lock \in [Sessions -> Procs \cup {Nobody}]
    /\ frame \in [Procs -> {NoFrame} \cup AppendFrames(AllMessages) \cup CreateFrames]
    /\ outcome \in [Procs -> {"ok", "raised"}]
    /\ wiped \subseteq Sessions

Init ==
    /\ SessionInit
    /\ pc = [p \in Procs |-> "start"]
    /\ sid = [p \in Procs |-> NoSession]
    /\ sent = [p \in Procs |-> << >>]
    /\ turn = [p \in Procs |-> 0]

Goto(p, l) == pc' = [pc EXCEPT ![p] = l]

-----------------------------------------------------------------------------
(* --session s, or --continue: the most recently modified session if any. *)
Start(p) ==
    /\ pc[p] = "start"
    /\ turn[p] < MaxTurns
    /\ \E s \in Sessions \cup {IF recent = << >> THEN NoSession ELSE Last(recent)} :
          /\ sid' = [sid EXCEPT ![p] = s]
          /\ Goto(p, IF s = NoSession THEN "api" ELSE "exists")
    /\ turn' = [turn EXCEPT ![p] = @ + 1]
    /\ sent' = [sent EXCEPT ![p] = << >>]
    /\ UNCHANGED sessionVars

(* sessions.exists *)
Exists(p) ==
    /\ pc[p] = "exists"
    /\ Goto(p, IF file[sid[p]] = NoFile THEN "create" ELSE "get_history")
    /\ UNCHANGED <<sessionVars, sid, sent, turn>>

(* Mutant of GetHistory: the new question counts as saved. *)
GetHistoryAndPrompt(p) ==
    /\ pc[p] = "get_history"
    /\ sent' = [sent EXCEPT ![p] = Append(History(sid[p]), Message(p, "user"))]
    /\ Goto(p, "api")
    /\ UNCHANGED <<sessionVars, sid, turn>>

(* sessions.get_history, without the lock *)
GetHistory(p) ==
    /\ pc[p] = "get_history"
    /\ \E h \in Loadable(sid[p]) : sent' = [sent EXCEPT ![p] = h]
    /\ Goto(p, "api")
    /\ UNCHANGED <<sessionVars, sid, turn>>

Create(p) ==
    /\ pc[p] = "create"
    /\ BeginCreate(p, sid[p])
    /\ Goto(p, "created")
    /\ UNCHANGED <<sid, sent, turn>>

(* An exception of create ends the program, so does one of the API call or *)
(* a blocked answer, and then nothing is appended.                         *)
Created(p) ==
    /\ pc[p] = "created"
    /\ ~InMethod(p)
    /\ Goto(p, IF outcome[p] = "ok" THEN "api" ELSE "start")
    /\ UNCHANGED <<sessionVars, sid, sent, turn>>

CallApi(p) ==
    /\ pc[p] = "api"
    /\ \/ Goto(p, IF sid[p] = NoSession THEN "start" ELSE "append_user")
       \/ Goto(p, "start")
    /\ UNCHANGED <<sessionVars, sid, sent, turn>>

AppendUser(p) ==
    /\ pc[p] = "append_user"
    /\ BeginAppend(p, sid[p], Message(p, "user"))
    /\ Goto(p, "append_model")
    /\ UNCHANGED <<sid, sent, turn>>

(* Mutant of AppendModel: the failure of the first append is ignored. *)
AppendModelAnyway(p) ==
    /\ pc[p] = "append_model"
    /\ ~InMethod(p)
    /\ BeginAppend(p, sid[p], Message(p, "model"))
    /\ Goto(p, "appended")
    /\ UNCHANGED <<sid, sent, turn>>

(* Only when the first append_message returned. *)
AppendModel(p) ==
    /\ pc[p] = "append_model"
    /\ ~InMethod(p)
    /\ IF outcome[p] = "ok"
       THEN BeginAppend(p, sid[p], Message(p, "model")) /\ Goto(p, "appended")
       ELSE Goto(p, "start") /\ UNCHANGED sessionVars
    /\ UNCHANGED <<sid, sent, turn>>

Done(p) ==
    /\ pc[p] = "appended"
    /\ ~InMethod(p)
    /\ Goto(p, "start")
    /\ UNCHANGED <<sessionVars, sid, sent, turn>>

InState(p) == MethodStep(p) /\ UNCHANGED runVars

Crash(p) ==
    /\ MayCrash
    /\ pc[p] # "start"
    /\ DropFrame(p)
    /\ Goto(p, "start")
    /\ UNCHANGED <<sid, sent, turn>>

End(s) ==
    /\ MayEnd
    /\ file[s] # NoFile
    /\ Unlink(s)
    /\ UNCHANGED runVars

Next ==
    \/ \E p \in Procs :
          \/ Start(p)
          \/ Exists(p)
          \/ GetHistory(p)
          \/ Create(p)
          \/ Created(p)
          \/ CallApi(p)
          \/ AppendUser(p)
          \/ AppendModel(p)
          \/ Done(p)
          \/ InState(p)
          \/ Crash(p)
    \/ \E s \in Sessions : End(s)

Spec == Init /\ [][Next]_vars

-----------------------------------------------------------------------------
(* text.py: what a process sent to the API was saved: it is what the file  *)
(* began with, even when others have appended since (in a session that was *)
(* not wiped).                                                             *)
SentWasSaved ==
    \A p \in Procs : pc[p] \in {"api", "append_user", "append_model", "appended"}
        /\ sid[p] \in Sessions \ wiped
            => file[sid[p]] # NoFile /\ IsPrefix(sent[p], file[sid[p]])
=============================================================================
