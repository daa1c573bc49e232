---------------------------- MODULE SessionState ----------------------------
(***************************************************************************)
(* The Session state machine shared by the orchestrator, the CLI and the   *)
(* web client: packages/shared/src/session.ts.                             *)
(***************************************************************************)

\* SessionStateSchema.
SessionStates ==
    { "initializing", "provisioning_sandbox", "cloning_repo", "ready",
      "planning", "awaiting_approval", "refining", "executing", "verifying",
      "retrying", "creating_pr", "completed", "failed", "timed_out" }

\* The table `transitions`.
Transitions ==
    [ initializing         |-> {"provisioning_sandbox", "failed"},
      provisioning_sandbox |-> {"cloning_repo", "failed", "timed_out"},
      cloning_repo         |-> {"ready", "planning", "failed", "timed_out"},
      ready                |-> {"planning", "executing", "failed", "timed_out"},
      planning             |-> {"awaiting_approval", "ready", "failed", "timed_out"},
      awaiting_approval    |-> {"refining", "executing", "ready", "failed", "timed_out"},
      refining             |-> {"awaiting_approval", "ready", "failed", "timed_out"},
      executing            |-> {"verifying", "ready", "failed", "timed_out"},
      verifying            |-> {"retrying", "creating_pr", "ready", "failed", "timed_out"},
      retrying             |-> {"verifying", "failed", "timed_out"},
      creating_pr          |-> {"ready", "completed", "failed", "timed_out"},
      completed            |-> {},
      failed               |-> {},
      timed_out            |-> {} ]

IsValidTransition(from, to) == to \in Transitions[from]

IsTerminalState(s) == Transitions[s] = {}
=============================================================================
