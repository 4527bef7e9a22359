----------------------------- MODULE Invocation -----------------------------
(***************************************************************************)
(* One invocation of the skill: the launcher builds the environment and    *)
(* calls the dispatcher, which runs an adapter in it; the adapter of live  *)
(* hands over to its session, whose end is the end of the command.         *)
(***************************************************************************)
EXTENDS Dispatch, LiveSession

vars == <<launchVars, dispatchVars, liveVars>>

Init == LaunchInit /\ DispatchInit /\ LiveInit

(* asyncio.run(run_async) returned or raised. *)
SessionReturns ==
    /\ pc = "live" /\ at = "ended"
    /\ End(IF outcome = "returned" THEN "done" ELSE "failed")
    /\ UNCHANGED <<argv, args, known, request, performed, images, outputs, reported>>
    /\ UNCHANGED <<launchVars, liveVars>>

Launch == LaunchNext /\ UNCHANGED <<dispatchVars, liveVars>>
Run == DispatchNext /\ UNCHANGED <<launchVars, liveVars>>
Live == pc = "live" /\ LiveNext /\ UNCHANGED <<launchVars, dispatchVars>>

Next == Launch \/ Run \/ Live \/ SessionReturns

(* A live session runs on; nothing is assumed of the server, nor of        *)
(* anybody who edits files or presses Ctrl-C.                              *)
Fairness == WF_vars(pc = "live" /\ LiveStep /\ UNCHANGED <<launchVars, dispatchVars>>)

Spec == Init /\ [][Next]_vars /\ Fairness

-----------------------------------------------------------------------------
TypeOK == LaunchTypeOK /\ DispatchTypeOK /\ LiveTypeOK

(* dispatch.py: "Mutating commands require --execute (dry-run default)".   *)
(* Whatever else is on the command line, and with a registry or without,   *)
(* something is changed only if the user wrote --execute (or what argparse *)
(* takes for it) as an option, not as a word after "--".  And a command    *)
(* line with --help or -h has no effect, not even a session, though help   *)
(* passes the policy.                                                      *)
EffectsAreAsked ==
    LET isOption(i) == \A j \in 1..(i - 1) : argv[j] # "--"
    IN  /\ HasEffect =>
              \E i \in DOMAIN argv : isOption(i) /\ argv[i] \in {"--execute", "--exec"}
        /\ HasEffect \/ session =>
              ~ \E i \in DOMAIN argv : isOption(i) /\ argv[i] \in HelpFlags

(* A live session has no timeout: it may wait for ever for a server that   *)
(* says nothing.  Once the server has completed the turn or has ended the  *)
(* stream it ends, with everything closed, Ctrl-C or not.                  *)
SessionEnds ==
    over \/ (\E i \in DOMAIN sent : sent[i].complete) ~> at = "ended" /\ ~session /\ ~stream
=============================================================================
