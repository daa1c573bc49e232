-------------------------- MODULE MCWorkspaceCache --------------------------
(***************************************************************************)
(* Two Sessions of one repository, whose branch may move to another lock   *)
(* file or to install hooks.                                               *)
(***************************************************************************)
EXTENDS WorkspaceCache

MCHeads == { [how |-> "install", lock |-> 1], [how |-> "install", lock |-> 2],
             [how |-> "hooks", lock |-> 1] }
MCFirstHead == [how |-> "install", lock |-> 1]
=============================================================================
