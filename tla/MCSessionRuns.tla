--------------------------- MODULE MCSessionRuns ----------------------------
(***************************************************************************)
(* SessionRuns for TLC: runs of one kind are interchangeable.  Without     *)
(* liveness TLC may identify them; with it, one of the plan-first runs is  *)
(* the one that is requested before the others.                            *)
(***************************************************************************)
EXTENDS SessionRuns, TLC

RunSymmetry == Permutations(PlanRuns) \cup Permutations(TurnRuns)

FirstPlanRun == CHOOSE r \in PlanRuns : TRUE

FirstPlanRunIsFirst ==
    \A i \in DOMAIN requests :
        requests[i] \in PlanRuns \ {FirstPlanRun} =>
            \E j \in 1 .. i - 1 : requests[j] = FirstPlanRun

\* Any fair behaviour is one of these, up to the names of the plan-first runs.
MCFairSpec == Init /\ [][Next /\ FirstPlanRunIsFirst']_vars /\ Fairness
=============================================================================
