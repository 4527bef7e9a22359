---------------------------- MODULE MCPlanReview ----------------------------
(* A REPL without a requested model, and a one-shot reviewer with one that *)
(* joins its session with one proposal.  The claims are about sessions     *)
(* that were not wiped: where one was, the processes finish what they do,  *)
(* the REPL first.                                                         *)
EXTENDS PlanReview

CONSTANTS p1, p2, s1
OneProc == {p1}
TwoProcs == {p1, p2}
OneSession == {s1}

Joins == /\ (repl'[p1] /\ ~requested'[p1]) \/ pc'[p1] = "begin"
         /\ pc'[p2] = "begin" \/ (~repl'[p2] /\ requested'[p2])
         /\ proposal[p2] = 1 => (proposal'[p2] = 1 /\ (pc[p2] = "begin" => pc'[p2] = "begin"))
Rests(p) == pc[p] \in {"begin", "prompt", "ended"}
FinishesWiped ==
    wiped # {} =>
        /\ \A p \in Procs : ~Crash(p) /\ (Rests(p) => pc'[p] = pc[p])
        /\ ~Rests(p1) => pc'[p2] = pc[p2] /\ frame'[p2] = frame[p2]
        /\ ~End(s1)
SharedSpec == Init /\ [][Next /\ Joins /\ FinishesWiped]_vars /\ Fairness
=============================================================================
