----------------------------- MODULE MCAgentCalls -----------------------------
(***************************************************************************)
(* Two runs; a question with options only, or one that takes a text too.   *)
(***************************************************************************)
EXTENDS AgentCalls

MCShapes == { {"options"}, {"options", "text"} }
=============================================================================
