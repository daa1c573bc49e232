---------------------------- MODULE MCPlanReview ----------------------------
(***************************************************************************)
(* PlanReview for TLC: the participants are interchangeable, and a history *)
(* variable says whether the late plan of an aborted run was frozen.       *)
(***************************************************************************)
EXTENDS PlanReview, TLC

VARIABLE late

ParticipantSymmetry == Permutations(Participants)

MCInit == Init /\ late = FALSE
MCNext ==
    \/ Discuss /\ UNCHANGED late
    \/ Decide /\ UNCHANGED late
    \/ Answer /\ late' = (late \/ (PlanIsLate /\ revisions' # revisions))
MCSpec == MCInit /\ [][MCNext]_<<vars, late>>

\* Until the plan of an aborted run is taken for the plan of the next one, a
\* thread is consumed only if the agent was told of it and of all its replies
\* (startPlanFirstRefinement, consumeOpenAnnotations).
NoFeedbackIsLostUntilLatePlan == late \/ NoFeedbackIsLost
=============================================================================
