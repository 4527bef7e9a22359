----------------------------- MODULE PlanReview -----------------------------
(***************************************************************************)
(* adapters/generation/plan_review.py: a REPL that sends each proposal to  *)
(* the API with the history of its session, keeps the history in memory    *)
(* and appends the two messages of a review to the session file.  Without  *)
(* a requested model an exception of any kind makes it try the next of the *)
(* default models, once for each.                                          *)
(***************************************************************************)
EXTENDS SessionState

CONSTANTS
    NoSession,      \* a one-shot review outside any session
    Models,         \* how many default models there are
    MayCrash,       \* processes may be killed
    MayEnd,         \* somebody calls end_session
    MaxProposals    \* bound: proposals that each process reviews

ASSUME ModelsAssumption == Models \in Nat \ {0} /\ MaxProposals \in Nat
ASSUME SwitchesAssumption == {MayFail, MayCrash, MayEnd} \subseteq BOOLEAN

VARIABLES
    pc,         \* where each process is
    sid,        \* the session of its context
    repl,       \* it reads proposals from a terminal
    requested,  \* it was given a model with --model
    contents,   \* session_context.contents, the history in memory
    proposal,   \* the number of the proposal under review
    candidate   \* the number of the model it tries

vars == <<sessionVars, pc, sid, repl, requested, contents, proposal, candidate>>
runVars == <<pc, sid, repl, requested, contents, proposal, candidate>>

Candidates(p) == IF requested[p] THEN 1 ELSE Models

Message(p, r) == [role |-> r, turn |-> <<p, proposal[p]>>]
AllMessages == [role : {"user", "model"}, turn : Procs \X (1..MaxProposals)]

ASSUME NamesAssumption ==
    /\ Nobody \notin Procs /\ NoSession \notin Sessions /\ IsFiniteSet(Sessions)
    /\ NoFile \notin Seq(AllMessages)

Labels == {"begin", "exists", "get_history", "create", "created", "prompt", "review",
           "append_user", "append_model", "appended", "ended"}

TypeOK ==
    /\ pc \in [Procs -> Labels]
    /\ sid \in [Procs -> Sessions \cup {NoSession}]
    /\ repl \in [Procs -> BOOLEAN]
    /\ requested \in [Procs -> BOOLEAN]
    /\ contents \in [Procs -> Seq(AllMessages)]
    /\ proposal \in [Procs -> 0..MaxProposals]
    /\ candidate \in [Procs -> 0..Models]
    /\ file \in [Sessions -> {NoFile} \cup Seq(AllMessages)]
    /\ recent \in Seq(Sessions)
    /\ lock \in [Sessions -> Procs \cup {Nobody}]
    /\ frame \in [Procs -> {NoFrame} \cup AppendFrames(AllMessages) \cup CreateFrames]
    /\ outcome \in [Procs -> {"ok", "raised"}]
    /\ wiped \subseteq Sessions

Init ==
    /\ SessionInit
    /\ pc = [p \in Procs |-> "begin"]
    /\ sid = [p \in Procs |-> NoSession]
    /\ repl = [p \in Procs |-> FALSE]
    /\ requested = [p \in Procs |-> FALSE]
    /\ contents = [p \in Procs |-> << >>]
    /\ proposal = [p \in Procs |-> 0]
    /\ candidate = [p \in Procs |-> 0]

Goto(p, l) == pc' = [pc EXCEPT ![p] = l]

-----------------------------------------------------------------------------
(* _build_session_context: a REPL always has a session, a named, the most  *)
(* recent or (when there is none) a new one; a one-shot review may not.    *)
Begin(p) ==
    /\ pc[p] = "begin"
    /\ proposal[p] < MaxProposals
    /\ \E r, m \in BOOLEAN, s \in Sessions \cup {NoSession} :
          /\ s = NoSession => ~r
          /\ repl' = [repl EXCEPT ![p] = r]
          /\ requested' = [requested EXCEPT ![p] = m]
          /\ sid' = [sid EXCEPT ![p] = s]
          /\ Goto(p, IF s = NoSession THEN "prompt" ELSE "exists")
    /\ contents' = [contents EXCEPT ![p] = << >>]
    /\ UNCHANGED <<sessionVars, proposal, candidate>>

Exists(p) ==
    /\ pc[p] = "exists"
    /\ Goto(p, IF file[sid[p]] = NoFile THEN "create" ELSE "get_history")
    /\ UNCHANGED <<sessionVars, sid, repl, requested, contents, proposal, candidate>>

GetHistory(p) ==
    /\ pc[p] = "get_history"
    /\ \E h \in Loadable(sid[p]) : contents' = [contents EXCEPT ![p] = h]
    /\ Goto(p, "prompt")
    /\ UNCHANGED <<sessionVars, sid, repl, requested, proposal, candidate>>

Create(p) ==
    /\ pc[p] = "create"
    /\ BeginCreate(p, sid[p])
    /\ Goto(p, "created")
    /\ UNCHANGED <<sid, repl, requested, contents, proposal, candidate>>

Created(p) ==
    /\ pc[p] = "created"
    /\ ~InMethod(p)
    /\ Goto(p, IF outcome[p] = "ok" THEN "prompt" ELSE "ended")
    /\ UNCHANGED <<sessionVars, sid, repl, requested, contents, proposal, candidate>>

(* A proposal: the argument, or a line of the REPL that is not empty. *)
Propose(p) ==
    /\ pc[p] = "prompt"
    /\ proposal[p] < MaxProposals
    /\ proposal' = [proposal EXCEPT ![p] = @ + 1]
    /\ candidate' = [candidate EXCEPT ![p] = 1]
    /\ Goto(p, "review")
    /\ UNCHANGED <<sessionVars, sid, repl, requested, contents>>

(* /done, /quit or the end of input. *)
Quit(p) ==
    /\ pc[p] = "prompt"
    /\ repl[p]
    /\ Goto(p, "ended")
    /\ UNCHANGED <<sessionVars, sid, repl, requested, contents, proposal, candidate>>

(* A review has been printed. *)
Reviewed(p) == Goto(p, IF repl[p] THEN "prompt" ELSE "ended")

(* Mutant of Failover: past the last model. *)
FailoverBeyond(p) ==
    IF candidate[p] <= Candidates(p)
    THEN candidate' = [candidate EXCEPT ![p] = @ + 1] /\ Goto(p, "review")
    ELSE UNCHANGED candidate /\ Goto(p, "ended")

(* Mutant of Failover: the same model again. *)
FailoverSame(p) ==
    IF candidate[p] < Candidates(p)
    THEN UNCHANGED candidate /\ Goto(p, "review")
    ELSE UNCHANGED candidate /\ Goto(p, "ended")

(* _review_with_failover: the next model, or the exception ends the run.   *)
Failover(p) ==
    IF candidate[p] < Candidates(p)
    THEN candidate' = [candidate EXCEPT ![p] = @ + 1] /\ Goto(p, "review")
    ELSE UNCHANGED candidate /\ Goto(p, "ended")

(* Model resolution, thinking configuration, API call or answer fail. *)
ReviewFails(p) ==
    /\ pc[p] = "review"
    /\ Failover(p)
    /\ UNCHANGED <<sessionVars, sid, repl, requested, contents, proposal>>

ReviewAnswered(p) ==
    /\ pc[p] = "review"
    /\ IF sid[p] = NoSession THEN Reviewed(p) ELSE Goto(p, "append_user")
    /\ UNCHANGED <<sessionVars, sid, repl, requested, contents, proposal, candidate>>

AppendUser(p) ==
    /\ pc[p] = "append_user"
    /\ BeginAppend(p, sid[p], Message(p, "user"))
    /\ Goto(p, "append_model")
    /\ UNCHANGED <<sid, repl, requested, contents, proposal, candidate>>

AppendModel(p) ==
    /\ pc[p] = "append_model"
    /\ ~InMethod(p)
    /\ IF outcome[p] = "ok"
       THEN /\ BeginAppend(p, sid[p], Message(p, "model"))
            /\ Goto(p, "appended")
            /\ UNCHANGED candidate
       ELSE Failover(p) /\ UNCHANGED sessionVars
    /\ UNCHANGED <<sid, repl, requested, contents, proposal>>

(* Mutant of Remember: in memory although it may not be on disk. *)
RememberAnyway(p) ==
    /\ pc[p] = "appended"
    /\ ~InMethod(p)
    /\ contents' = [contents EXCEPT ![p] =
                       @ \o <<Message(p, "user"), Message(p, "model")>>]
    /\ Reviewed(p)
    /\ UNCHANGED <<sessionVars, sid, repl, requested, proposal, candidate>>

(* Mutant of Remember: the question is not remembered. *)
RememberAnswer(p) ==
    /\ pc[p] = "appended"
    /\ ~InMethod(p)
    /\ IF outcome[p] = "ok"
       THEN /\ contents' = [contents EXCEPT ![p] = Append(@, Message(p, "model"))]
            /\ Reviewed(p)
            /\ UNCHANGED candidate
       ELSE Failover(p) /\ UNCHANGED contents
    /\ UNCHANGED <<sessionVars, sid, repl, requested, proposal>>

(* The history in memory follows only when both appends returned. *)
Remember(p) ==
    /\ pc[p] = "appended"
    /\ ~InMethod(p)
    /\ IF outcome[p] = "ok"
       THEN /\ contents' = [contents EXCEPT ![p] =
                               @ \o <<Message(p, "user"), Message(p, "model")>>]
            /\ Reviewed(p)
            /\ UNCHANGED candidate
       ELSE Failover(p) /\ UNCHANGED contents
    /\ UNCHANGED <<sessionVars, sid, repl, requested, proposal>>

(* The program is started again. *)
Restart(p) ==
    /\ pc[p] = "ended"
    /\ Goto(p, "begin")
    /\ UNCHANGED <<sessionVars, sid, repl, requested, contents, proposal, candidate>>

(* The process is killed. *)
Crash(p) ==
    /\ MayCrash
    /\ pc[p] \notin {"begin", "ended"}
    /\ DropFrame(p)
    /\ contents' = [contents EXCEPT ![p] = << >>]
    /\ Goto(p, "ended")
    /\ UNCHANGED <<sid, repl, requested, proposal, candidate>>

End(s) ==
    /\ MayEnd
    /\ file[s] # NoFile
    /\ Unlink(s)
    /\ UNCHANGED runVars

InState(p) == MethodStep(p) /\ UNCHANGED runVars

Next ==
    \/ \E p \in Procs :
          \/ Begin(p)
          \/ Exists(p)
          \/ GetHistory(p)
          \/ Create(p)
          \/ Created(p)
          \/ Propose(p)
          \/ Quit(p)
          \/ ReviewFails(p)
          \/ ReviewAnswered(p)
          \/ AppendUser(p)
          \/ AppendModel(p)
          \/ Remember(p)
          \/ Restart(p)
          \/ InState(p)
          \/ Crash(p)
    \/ \E s \in Sessions : End(s)

(* Every lock times out.  That the API call returns is assumed: Transport  *)
(* shows that all calls do but those that wait for the SDK.                *)
Fairness ==
    \A p \in Procs :
        WF_vars(/\ pc[p] \notin {"begin", "prompt", "ended"}
                /\ \/ Exists(p) \/ GetHistory(p) \/ Create(p) \/ Created(p)
                   \/ ReviewFails(p) \/ ReviewAnswered(p) \/ AppendUser(p)
                   \/ AppendModel(p) \/ Remember(p) \/ InState(p))

Spec == Init /\ [][Next]_vars /\ Fairness

-----------------------------------------------------------------------------
(* Each two messages of g are in h, in the same order. *)
InOrder(g, h) ==
    \A i, j \in DOMAIN g : i <= j =>
        \E a, b \in DOMAIN h :
            a <= b /\ (i < j => a < b) /\ h[a] = g[i] /\ h[b] = g[j]

(* plan_review.py: whatever failed on the way, the conversation that a     *)
(* REPL goes on with is one it saved: what it remembers is in its session  *)
(* file, in the same order (other processes may have added theirs), unless *)
(* the session was wiped.                                                  *)
SavedConversation ==
    \A p \in Procs : contents[p] # << >> /\ sid[p] \notin wiped =>
        file[sid[p]] # NoFile /\ InOrder(contents[p], file[sid[p]])

(* plan_review.py: a failover may leave a question without its answer on   *)
(* disk; what a REPL remembers holds no answer without its question before *)
(* it, whoever saved the two (in a session that was not wiped).            *)
MemoryIsComplete == \A p \in Procs : sid[p] \notin wiped => Answered(contents[p])

(* session_state.py:34, "alternating user/model messages", for a failover: *)
(* a proposal that is sent to several models is saved once.                *)
ProposalSavedOnce ==
    \A s \in Sessions : file[s] # NoFile =>
        \A i, j \in DOMAIN file[s] : file[s][i] = file[s][j] => i = j

(* plan_review.py: a proposal is answered or the program has ended; the    *)
(* failover does not go round for ever.                                    *)
ReviewsEnd ==
    \A p \in Procs : pc[p] = "review" ~> pc[p] \in {"prompt", "ended"}
=============================================================================
