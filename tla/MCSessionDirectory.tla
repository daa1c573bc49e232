------------------------- MODULE MCSessionDirectory -------------------------
(***************************************************************************)
(* Two requests with one key or none.  The objects of two Sessions share   *)
(* nothing, so only one of them changes its fields, three times.           *)
(***************************************************************************)
EXTENDS SessionDirectory, TLC

CONSTANTS r1, r2

MCRequests == {r1, r2}
MCFields == {"sandbox_state", "active_run_state"}
MCMaxUpdates == r1 :> 3 @@ r2 :> 0
=============================================================================
