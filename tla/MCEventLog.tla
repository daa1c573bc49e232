----------------------------- MODULE MCEventLog -----------------------------
(***************************************************************************)
(* EventLog for TLC: the pages are interchangeable, and a history variable *)
(* says whether everything was steady so far.                              *)
(***************************************************************************)
EXTENDS EventLog, TLC

VARIABLE steady

ClientSymmetry == Permutations(Clients)

MCInit == Init /\ steady = TRUE
MCNext ==
    \/ Steady /\ UNCHANGED steady
    \/ Unsteady /\ steady' = FALSE
MCSpec == MCInit /\ [][MCNext]_<<vars, steady>>

\* Until the Durable Object leaves memory, is too large to persist for a whole
\* retention, or a page is left with a batch pending, a page shows exactly the
\* events up to its cursor, whether it catches up from the snapshot, the row or
\* the tail (sendSnapshotIfBehind, replayEvents).
SteadyPagesShowThePrefix == steady => PagesShowThePrefix
=============================================================================
