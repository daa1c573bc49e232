------------------------- MODULE SessionRunsProofs --------------------------
(***************************************************************************)
(* Type correctness of SessionRuns, its safety invariants, the finality of *)
(* outcomes and the refinement of RunLedger, proved for any runs and any   *)
(* bounds.                                                                 *)
(***************************************************************************)
EXTENDS SessionRuns, SequenceTheorems, TLAPS

-----------------------------------------------------------------------------
(* The Session state machine *)

\* Exactly the three final states have no way out (isTerminalState).
LEMMA TerminalStates ==
    ASSUME NEW s \in SessionStates
    PROVE  IsTerminalState(s) <=> s \in {"completed", "failed", "timed_out"}
BY DEF SessionStates, IsTerminalState, Transitions

\* The states from which a settled run takes the Session back to "ready".
LEMMA ReadyIsReachable ==
    ASSUME NEW s \in SessionStates
    PROVE  IsValidTransition(s, "ready") <=>
             s \in {"cloning_repo", "planning", "awaiting_approval", "refining",
                    "executing", "verifying", "creating_pr"}
BY DEF SessionStates, IsValidTransition, Transitions

\* A transition is only ever made from a state that is not final, and a run only
\* waits for or starts in such a state.
LEMMA TerminalStays ==
    ASSUME NEW to, IsValidTransition(state, to)
    PROVE  ~Terminal
BY DEF Terminal, IsTerminalState, IsValidTransition

LEMMA LiveStates ==
    ASSUME NEW s \in {"ready", "planning", "executing"}
    PROVE  ~IsTerminalState(s)
BY DEF IsTerminalState, Transitions

\* The states a finished run leaves behind (AfterRun).
LEMMA AfterRunStates ==
    ASSUME RunTypeOK
    PROVE  AfterRun \in {state, "ready"}
BY DEF AfterRun

-----------------------------------------------------------------------------
(* Type correctness *)

\* Only a plan-first run is planned, reviewed or refined.
ReviewIsForPlanRuns ==
    state \in {"planning", "awaiting_approval", "refining"} => active \in PlanRuns

TypeInv == TypeOK /\ ReviewIsForPlanRuns

\* The values a run starts with are in range whatever the limits are.
LEMMA InitialValuesTyped ==
    /\ 0 \in Rounds /\ 0 \in 0 .. MaxVerificationAttempts /\ 0 \in 0 .. MaxDrops
    /\ NoPlan \in Plans
BY BoundsAssumption DEF Rounds, NoPlan, Plans, Owners

\* What startAgentRun leaves behind.
LEMMA StartTypes ==
    ASSUME RunTypeOK, NEW r \in Runs, NEW up \in BOOLEAN, StartAgentRun(r, up)
    PROVE  /\ state' \in {"planning", "executing"}
           /\ active' = r /\ (state' = "planning" => r \in PlanRuns)
           /\ runState' = RunStateOf[state']
           /\ round' = 0 /\ attempts' = 0 /\ plan' = NoPlan
           /\ toSandbox' \in Seq(ToSandboxMessages)
<1>1. CASE r \in PlanRuns
  <2>1. Msg("plan", r, 0) \in ToSandboxMessages
    BY <1>1 DEF Msg, ToSandboxMessages
  <2>2. Sent(Msg("plan", r, 0), up) \in Seq(ToSandboxMessages)
    BY <2>1, AppendProperties DEF Sent, RunTypeOK
  <2>3. QED
    BY <1>1, <2>2 DEF StartAgentRun, ResetRun, RunStateOf
<1>2. CASE r \notin PlanRuns
  <2>1. Msg("agent_turn", r, 0) \in ToSandboxMessages
    BY <1>2 DEF Msg, ToSandboxMessages, Runs
  <2>2. Sent(Msg("agent_turn", r, 0), up) \in Seq(ToSandboxMessages)
    BY <2>1, AppendProperties DEF Sent, RunTypeOK
  <2>3. QED
    BY <1>2, <2>2 DEF StartAgentRun, ResetRun, RunStateOf
<1>3. QED
  BY <1>1, <1>2

\* What finishRunAndDrainQueue leaves behind.
LEMMA FinishTypes ==
    ASSUME RunTypeOK, attached \in BOOLEAN,
           NEW o \in {"completed", "failed"}, NEW s, FinishRun(s, o),
           \/ s = "ready"
           \/ s = state /\ state \notin {"planning", "awaiting_approval", "refining"}
    PROVE  RunTypeOK' /\ ReviewIsForPlanRuns'
<1>1. outcome' \in [Runs -> {"none", "completed", "failed"}]
  BY DEF FinishRun, RunTypeOK
<1>2. CASE NoneWaiting(s)
  BY <1>1, <1>2 DEF NoneWaiting, RunTypeOK, ReviewIsForPlanRuns, Owners, SessionStates
<1>3. CASE NextStarts(s)
  <2>1. Head(queue) \in Runs /\ queue' \in Seq(Runs)
    BY <1>3, HeadTailProperties DEF NextStarts, RunTypeOK
  <2>2. StartAgentRun(Head(queue), attached)
    BY <1>3 DEF NextStarts
  <2>3. /\ state' \in {"planning", "executing"}
        /\ active' \in Runs /\ (state' = "planning" => active' \in PlanRuns)
        /\ runState' = RunStateOf[state']
        /\ round' = 0 /\ attempts' = 0 /\ plan' = NoPlan
        /\ toSandbox' \in Seq(ToSandboxMessages)
    BY <2>1, <2>2, StartTypes
  <2>4. QED
    BY <1>1, <2>1, <2>3, InitialValuesTyped
       DEF RunTypeOK, ReviewIsForPlanRuns, Owners, RunStateOf, SessionStates
<1>4. CASE AllWaitingFail(s)
  <2>1. queue' \in Seq(Runs)
    BY <1>4, EmptySeq DEF AllWaitingFail
  <2>2. QED
    BY <1>1, <1>4, <2>1, InitialValuesTyped
       DEF AllWaitingFail, ResetRun, RunTypeOK, ReviewIsForPlanRuns, Owners, SessionStates
<1>5. QED
  BY <1>2, <1>3, <1>4 DEF FinishRun

\* Settling the active run keeps the types.
LEMMA SettleTypes ==
    ASSUME TypeInv, NEW o \in {"completed", "failed"}, SettleActiveRun(o)
    PROVE  RunTypeOK' /\ ReviewIsForPlanRuns'
<1>1. CASE active = NoRun
  BY <1>1 DEF SettleActiveRun, TypeInv, TypeOK, RunTypeOK, ReviewIsForPlanRuns, runVars
<1>2. CASE active # NoRun
  <2>1. FinishRun(AfterRun, o)
    BY <1>2 DEF SettleActiveRun
  <2>2. \/ AfterRun = "ready"
        \/ AfterRun = state /\ state \notin {"planning", "awaiting_approval", "refining"}
    <3>1. state \in SessionStates
      BY DEF TypeInv, TypeOK, RunTypeOK
    <3>2. IsValidTransition(state, "ready") \/
          state \notin {"planning", "awaiting_approval", "refining"}
      BY <3>1, ReadyIsReachable
    <3>3. QED
      BY <3>2 DEF AfterRun, IsValidTransition
  <2>3. QED
    BY <2>1, <2>2, FinishTypes DEF TypeInv, TypeOK, RestTypeOK
<1>3. QED
  BY <1>1, <1>2

-----------------------------------------------------------------------------
(* Messages *)

\* The oldest message from the sandbox, and what stays behind it.
LEMMA MessageTypes ==
    ASSUME TypeOK, fromSandbox # <<>>
    PROVE  /\ Message \in FromSandboxMessages
           /\ Tail(fromSandbox) \in Seq(FromSandboxMessages)
BY HeadTailProperties DEF TypeOK, RestTypeOK, Message

\* Every message a handler at work may send has the form the orchestrator
\* expects, and what is left of the work is again work.
LEMMA ResultTypes ==
    ASSUME NEW w \in Works, w # Idle, NEW res \in Results(w)
    PROVE  res[1] \in FromSandboxMessages /\ res[2] \in Works
<1> USE BoundsAssumption, RunsAssumption
<1>1. /\ Idle \in Works
      /\ 0 \in Rounds /\ w.run \in Owners
  BY DEF Idle, Msg, Works, Rounds, ToSandboxMessages, Owners, Runs
<1>2. Msg("error", w.run, 0) \in FromSandboxMessages
  BY <1>1 DEF Msg, FromSandboxMessages
<1>3. CASE w.type = "init"
  BY <1>3 DEF Results, Msg, FromSandboxMessages, Works
<1>4. CASE w.type = "clone"
  <2>1. w.run = NoRun
    BY <1>4 DEF Works, ToSandboxMessages, Idle, Msg
  <2>2. res \in CloneResults(w)
    BY <1>4 DEF Results
  <2>3. Msg("clone_complete", NoRun, 0) \in FromSandboxMessages
    BY DEF Msg, FromSandboxMessages
  <2>4. CASE res = Done(w, "clone_complete", 0)
    BY <1>1, <2>1, <2>3, <2>4 DEF Done
  <2>5. CASE res = Error(w)
    BY <1>1, <1>2, <2>5 DEF Error
  <2>6. QED
    BY <2>2, <2>4, <2>5 DEF CloneResults, GitThrows
<1>5. CASE w.type \in {"plan", "refine_plan"}
  <2>1. w.run \in PlanRuns /\ w.n \in Rounds
    BY <1>1, <1>5 DEF Works, ToSandboxMessages, Idle, Msg
  <2>2. QED
    BY <1>1, <1>2, <1>5, <2>1
       DEF Results, PlanResults, RefineResults, StartThrows, Turn, Done, Error, Msg, FromSandboxMessages
<1>6. CASE w.type = "consolidate_annotations"
  <2>1. w.run \in PlanRuns /\ w.n \in Rounds \ {MaxRefinementRounds}
    BY <1>6 DEF Works, ToSandboxMessages, Idle, Msg
  <2>2. QED
    BY <1>1, <1>6, <2>1 DEF Results, ConsolidateResults, Brief, Done, Msg, FromSandboxMessages
<1>7. CASE w.type = "agent_turn"
  <2>1. w.run \in TurnRuns
    BY <1>7 DEF Works, ToSandboxMessages, Idle, Msg
  <2>2. QED
    BY <1>1, <1>2, <1>7, <2>1
       DEF Results, TurnResults, StartThrows, Turn, Done, Error, Msg, FromSandboxMessages
<1>8. CASE w.type = "execute"
  <2>1. w.run \in PlanRuns
    BY <1>8 DEF Works, ToSandboxMessages, Idle, Msg
  <2>2. QED
    BY <1>1, <1>2, <1>8, <2>1
       DEF Results, ExecuteResults, VerifyResults, SwitchThrows, Error, Msg, FromSandboxMessages,
           Works, Attempts
<1>9. CASE w.type = "verify"
  <2>1. w.run \in PlanRuns /\ w.n \in Attempts
    BY <1>9 DEF Works, ToSandboxMessages, Idle, Msg
  <2>2. res \in VerificationResults(w)
    BY <1>9 DEF Results
  <2>3. QED
    BY <1>1, <1>2, <2>1, <2>2
       DEF VerificationResults, Verified, CommandEnds, Done, Error, Msg, FromSandboxMessages, Works
<1>10. CASE w.type = "repair"
  <2>1. w.run \in PlanRuns /\ w.n \in Attempts \ {MaxVerificationAttempts}
    BY <1>10 DEF Works, ToSandboxMessages, Idle, Msg
  <2>2. w.n + 1 \in Attempts
    BY <2>1 DEF Attempts
  <2>3. QED
    BY <1>1, <1>2, <1>10, <2>1, <2>2
       DEF Results, RepairResults, VerifyResults, Error, Msg, FromSandboxMessages, Works
<1>11. CASE w.type = "create_pr"
  BY <1>1, <1>2, <1>11 DEF Results, PushResults, GitThrows, Done, Error, Msg, FromSandboxMessages
<1>12. QED
  BY <1>3, <1>4, <1>5, <1>6, <1>7, <1>8, <1>9, <1>10, <1>11
     DEF Works, ToSandboxMessages, Idle, Msg

\* What the orchestrator reads from a message it accepts is in range.
LEMMA FieldTypes ==
    ASSUME NEW m \in FromSandboxMessages
    PROVE  /\ m.type = "plan_ready" => [run |-> m.run, n |-> m.n] \in Plans
           /\ m.type \in {"verification_started", "verification_retrying"} =>
                m.n \in 0 .. MaxVerificationAttempts
           /\ m.type = "consolidation_complete" => m.n \in Rounds \ {MaxRefinementRounds}
           /\ m.type = "branch_pushed" => m.run \in Owners
BY BoundsAssumption DEF FromSandboxMessages, Plans, Attempts, Owners, Runs, Rounds

\* Sending a message of the right form keeps the type of the wire.
LEMMA SentTypes ==
    ASSUME TypeOK, NEW m \in ToSandboxMessages, NEW up \in BOOLEAN
    PROVE  Sent(m, up) \in Seq(ToSandboxMessages)
BY AppendProperties DEF Sent, TypeOK, RunTypeOK

\* The messages about a plan-first run, which the handlers build.
LEMMA PlanRunMessages ==
    ASSUME NEW r \in PlanRuns, NEW n \in Rounds
    PROVE  /\ Msg("execute", r, 0) \in ToSandboxMessages
           /\ Msg("refine_plan", r, n) \in ToSandboxMessages
           /\ n # MaxRefinementRounds =>
                Msg("consolidate_annotations", r, n) \in ToSandboxMessages
BY DEF Msg, ToSandboxMessages

-----------------------------------------------------------------------------
(* Each kind of action keeps the types *)

LEMMA CommandTypes ==
    ASSUME TypeInv, Command
    PROVE  TypeInv'
<1> USE DEF TypeInv, TypeOK
<1>1. ASSUME NEW r \in Runs, AgentRequest(r) PROVE TypeInv'
  <2>1. RestTypeOK'
    BY <1>1, AppendProperties DEF AgentRequest, RestTypeOK, revisionVars, linkVars
  <2>2. Enqueued(r) \in Seq(Runs) /\ Enqueued(r) # <<>>
    BY AppendProperties, EmptySeq DEF Enqueued, RunTypeOK
  <2>3. Head(Enqueued(r)) \in Runs /\ Tail(Enqueued(r)) \in Seq(Runs)
    BY <2>2, HeadTailProperties
  <2>4. CASE state = "ready" /\ active = NoRun /\ attached
    <3>1. StartAgentRun(Head(Enqueued(r)), attached) /\ queue' = Tail(Enqueued(r))
      BY <1>1, <2>4 DEF AgentRequest
    <3>2. /\ state' \in {"planning", "executing"}
          /\ active' \in Runs /\ (state' = "planning" => active' \in PlanRuns)
          /\ runState' = RunStateOf[state']
          /\ round' = 0 /\ attempts' = 0 /\ plan' = NoPlan
          /\ toSandbox' \in Seq(ToSandboxMessages)
      BY <2>3, <2>4, <3>1, StartTypes
    <3>3. outcome' = outcome
      BY <1>1 DEF AgentRequest
    <3>4. QED
      BY <2>1, <2>3, <3>1, <3>2, <3>3, InitialValuesTyped
         DEF RunTypeOK, ReviewIsForPlanRuns, Owners, RunStateOf, SessionStates
  <2>5. CASE ~(state = "ready" /\ active = NoRun /\ attached)
    BY <1>1, <2>1, <2>2, <2>5 DEF AgentRequest, RunTypeOK, ReviewIsForPlanRuns
  <2>6. QED
    BY <2>4, <2>5
<1>2. ASSUME Approve PROVE TypeInv'
  <2>1. RestTypeOK'
    BY <1>2 DEF Approve, RestTypeOK, revisionVars, linkVars
  <2>2. active \in PlanRuns
    BY <1>2 DEF Approve, ReviewIsForPlanRuns
  <2>3. toSandbox' \in Seq(ToSandboxMessages)
    BY <1>2, <2>2, PlanRunMessages, SentTypes, InitialValuesTyped DEF Approve, RestTypeOK
  <2>4. QED
    BY <1>2, <2>1, <2>3 DEF Approve, MoveRun, RunTypeOK, ReviewIsForPlanRuns, SessionStates
<1>3. ASSUME Refine PROVE TypeInv'
  <2>1. active \in PlanRuns /\ round \in Rounds /\ round # MaxRefinementRounds
    BY <1>3, BoundsAssumption
       DEF Refine, MayRefine, ReviewIsForPlanRuns, RunTypeOK, Rounds
  <2>2. round + 1 \in Rounds
    BY <1>3, <2>1, BoundsAssumption DEF Rounds
  <2>3. toSandbox' \in Seq(ToSandboxMessages) /\ round' \in Rounds
    BY <1>3, <2>1, <2>2, PlanRunMessages, SentTypes DEF Refine, DispatchProseBrief, RestTypeOK
  <2>4. RestTypeOK'
    BY <1>3, <2>1 DEF Refine, RestTypeOK, linkVars
  <2>5. QED
    BY <1>3, <2>1, <2>3, <2>4
       DEF Refine, MoveRun, RunTypeOK, ReviewIsForPlanRuns, SessionStates
<1>4. QED
  BY <1>1, <1>2, <1>3 DEF Command

LEMMA AbortTypes ==
    ASSUME TypeInv, Abort
    PROVE  TypeInv'
<1>1. RestTypeOK'
  BY DEF Abort, TypeInv, TypeOK, RestTypeOK, revisionVars, linkVars
<1>2. RunTypeOK' /\ ReviewIsForPlanRuns'
  BY FinishTypes DEF Abort, TypeInv, TypeOK, RestTypeOK
<1>3. QED
  BY <1>1, <1>2 DEF TypeInv, TypeOK

\* The Session ends; `fromSandbox` is the only other variable that may change.
LEMMA EndSessionTypes ==
    ASSUME TypeInv, NEW s \in {"failed", "timed_out"}, EndSession(s),
           fromSandbox' \in Seq(FromSandboxMessages)
    PROVE  TypeInv'
<1> USE DEF TypeInv, TypeOK
<1>1. RestTypeOK'
  BY DEF EndSession, RestTypeOK, revisionVars
<1>2. RunTypeOK' /\ ReviewIsForPlanRuns'
  BY DEF EndSession, MoveSession, RunTypeOK, ReviewIsForPlanRuns, SessionStates
<1>3. QED
  BY <1>1, <1>2

\* Every run the Session owns fails.
LEMMA FailSessionTypes ==
    ASSUME TypeInv, FailSession, closing' \in BOOLEAN
    PROVE  TypeInv'
<1> USE DEF TypeInv, TypeOK
<1>1. RestTypeOK'
  BY DEF FailSession, RestTypeOK, revisionVars
<1>2. queue' \in Seq(Runs)
  BY EmptySeq DEF FailSession
<1>3. outcome' \in [Runs -> {"none", "completed", "failed"}]
  BY DEF FailSession, RunTypeOK
<1>4. RunTypeOK' /\ ReviewIsForPlanRuns'
  BY <1>2, <1>3 DEF FailSession, RunTypeOK, ReviewIsForPlanRuns, SessionStates
<1>5. QED
  BY <1>1, <1>4

LEMMA SessionEndsTypes ==
    ASSUME TypeInv, SessionEnds
    PROVE  TypeInv'
<1>1. CASE ReconnectExpired
  BY <1>1 DEF ReconnectExpired, TypeInv, TypeOK, RunTypeOK, RestTypeOK, ReviewIsForPlanRuns,
              revisionVars, SessionStates
<1>2. CASE StopSession \/ MaxTimeExpired \/ ProvisioningTimedOut \/ ProvisioningFailed
  BY <1>2, EndSessionTypes
     DEF StopSession, MaxTimeExpired, ProvisioningTimedOut, ProvisioningFailed,
         TypeInv, TypeOK, RestTypeOK
<1>3. CASE SandboxLost \/ ResumeFails
  BY <1>3, FailSessionTypes DEF SandboxLost, ResumeFails, TypeInv, TypeOK, RestTypeOK
<1>4. QED
  BY <1>1, <1>2, <1>3 DEF SessionEnds

LEMMA SandboxTypes ==
    ASSUME TypeInv, Sandbox
    PROVE  TypeInv'
<1> USE DEF TypeInv, TypeOK
<1>1. CASE SandboxTake
  <2>1. Head(toSandbox) \in ToSandboxMessages /\ Tail(toSandbox) \in Seq(ToSandboxMessages)
    BY <1>1, HeadTailProperties DEF SandboxTake, RunTypeOK
  <2>2. RestTypeOK'
    BY <1>1, <2>1 DEF SandboxTake, RestTypeOK, Works, revisionVars, linkVars
  <2>3. QED
    BY <1>1, <2>1, <2>2 DEF SandboxTake, RunTypeOK, ReviewIsForPlanRuns
<1>2. CASE SandboxStep
  <2>1. fromSandbox' \in Seq(FromSandboxMessages) /\ work' \in Works
    BY <1>2, ResultTypes, AppendProperties DEF SandboxStep, RestTypeOK
  <2>2. RestTypeOK'
    BY <1>2, <2>1 DEF SandboxStep, RestTypeOK, revisionVars, linkVars
  <2>3. QED
    BY <1>2, <2>2 DEF SandboxStep, RunTypeOK, ReviewIsForPlanRuns, runVars
<1>3. QED
  BY <1>1, <1>2 DEF Sandbox

\* What a handler finds when it receives a message, and what it leaves alone.
LEMMA ReceiveTypes ==
    ASSUME TypeInv, NEW types, Receive(types)
    PROVE  /\ Message \in FromSandboxMessages /\ Message.type \in types
           /\ fromSandbox' \in Seq(FromSandboxMessages)
           /\ UNCHANGED <<work, requests>>
BY MessageTypes DEF Receive, TypeInv

\* A handler that receives a message and leaves the revisions, the calls to
\* GitHub and the connection alone.
LEMMA RestTypes ==
    ASSUME TypeInv, fromSandbox' \in Seq(FromSandboxMessages), UNCHANGED <<work, requests>>,
           UNCHANGED <<revisionVars, publishing, linkVars>>
    PROVE  RestTypeOK'
BY DEF TypeInv, TypeOK, RestTypeOK, revisionVars, linkVars

LEMMA DrainTypes ==
    ASSUME TypeInv, NEW s, NEW up \in BOOLEAN, DrainQueuedWork(s, up), s \in {state, "ready"}
    PROVE  RunTypeOK' /\ ReviewIsForPlanRuns'
<1> USE DEF TypeInv, TypeOK
<1>1. CASE s = "ready" /\ active = NoRun /\ queue # <<>> /\ up
  <2>1. Head(queue) \in Runs /\ Tail(queue) \in Seq(Runs)
    BY <1>1, HeadTailProperties DEF RunTypeOK
  <2>2. /\ StartAgentRun(Head(queue), up)
        /\ queue' = Tail(queue) /\ outcome' = outcome
    BY <1>1 DEF DrainQueuedWork
  <2>3. /\ state' \in {"planning", "executing"}
        /\ active' \in Runs /\ (state' = "planning" => active' \in PlanRuns)
        /\ runState' = RunStateOf[state']
        /\ round' = 0 /\ attempts' = 0 /\ plan' = NoPlan
        /\ toSandbox' \in Seq(ToSandboxMessages)
    BY <2>1, <2>2, StartTypes
  <2>4. QED
    BY <2>1, <2>2, <2>3, InitialValuesTyped
       DEF RunTypeOK, ReviewIsForPlanRuns, Owners, RunStateOf, SessionStates
<1>2. CASE ~(s = "ready" /\ active = NoRun /\ queue # <<>> /\ up)
  BY <1>2 DEF DrainQueuedWork, RunTypeOK, ReviewIsForPlanRuns, SessionStates
<1>3. QED
  BY <1>1, <1>2

LEMMA BootTypes ==
    ASSUME TypeInv, CloneStarted \/ CloneComplete
    PROVE  TypeInv'
<1>1. CASE CloneStarted
  <2>1. RestTypeOK'
    BY <1>1, ReceiveTypes, RestTypes DEF CloneStarted
  <2>2. RunTypeOK' /\ ReviewIsForPlanRuns'
    BY <1>1 DEF CloneStarted, MoveSession, TypeInv, TypeOK, RunTypeOK, ReviewIsForPlanRuns,
                SessionStates
  <2>3. QED
    BY <2>1, <2>2 DEF TypeInv, TypeOK
<1>2. CASE CloneComplete
  <2>1. RestTypeOK'
    BY <1>2, ReceiveTypes, RestTypes DEF CloneComplete
  <2>2. RunTypeOK' /\ ReviewIsForPlanRuns'
    BY <1>2, DrainTypes DEF CloneComplete, TypeInv, TypeOK, RestTypeOK
  <2>3. QED
    BY <2>1, <2>2 DEF TypeInv, TypeOK
<1>3. QED
  BY <1>1, <1>2

LEMMA PlanTypes ==
    ASSUME TypeInv, IgnoreMessage \/ PlanReady \/ ConsolidationComplete \/ ConsolidationFailed
    PROVE  TypeInv'
<1> USE DEF TypeInv, TypeOK
<1>1. CASE IgnoreMessage
  <2>1. fromSandbox # <<>> /\ fromSandbox' = Tail(fromSandbox)
    BY <1>1 DEF IgnoreMessage
  <2>2. /\ Message \in FromSandboxMessages
        /\ fromSandbox' \in Seq(FromSandboxMessages)
    BY <2>1, MessageTypes
  <2>3. plan' \in Plans
    BY <1>1, <2>2, FieldTypes DEF IgnoreMessage, RunTypeOK
  <2>4. RestTypeOK'
    BY <1>1, <2>2, RestTypes DEF IgnoreMessage
  <2>5. QED
    BY <1>1, <2>3, <2>4 DEF IgnoreMessage, RunTypeOK, ReviewIsForPlanRuns
<1>2. CASE PlanReady
  <2>1. /\ Message \in FromSandboxMessages /\ Message.type = "plan_ready"
        /\ fromSandbox' \in Seq(FromSandboxMessages)
        /\ UNCHANGED <<work, requests>>
    BY <1>2, ReceiveTypes DEF PlanReady
  <2>2. [run |-> Message.run, n |-> Message.n] \in Plans
    BY <2>1, FieldTypes
  <2>3. RestTypeOK'
    BY <1>2, <2>1, <2>2 DEF PlanReady, FreezePlanRevision, RestTypeOK, revisionVars, linkVars
  <2>4. RunTypeOK' /\ ReviewIsForPlanRuns'
    BY <1>2, <2>1, <2>2
       DEF PlanReady, Accepts, MoveRun, RunTypeOK, ReviewIsForPlanRuns, SessionStates
  <2>5. QED
    BY <2>3, <2>4
<1>3. CASE ConsolidationComplete
  <2>1. /\ Message \in FromSandboxMessages /\ Message.type = "consolidation_complete"
        /\ fromSandbox' \in Seq(FromSandboxMessages)
        /\ UNCHANGED <<work, requests>>
    BY <1>3, ReceiveTypes DEF ConsolidationComplete
  <2>2. active \in PlanRuns /\ round \in Rounds \ {MaxRefinementRounds}
    BY <1>3, <2>1, FieldTypes
       DEF ConsolidationComplete, Accepts, ConsolidationIsCurrent, ReviewIsForPlanRuns
  <2>3. round + 1 \in Rounds
    BY <2>2, BoundsAssumption DEF Rounds
  <2>4. toSandbox' \in Seq(ToSandboxMessages) /\ round' \in Rounds
    BY <1>3, <2>2, <2>3, PlanRunMessages, SentTypes
       DEF ConsolidationComplete, DispatchProseBrief, RestTypeOK
  <2>5. RestTypeOK'
    BY <1>3, <2>1, RestTypes DEF ConsolidationComplete
  <2>6. QED
    BY <1>3, <2>4, <2>5 DEF ConsolidationComplete, RunTypeOK, ReviewIsForPlanRuns
<1>4. CASE ConsolidationFailed
  <2>1. RestTypeOK'
    BY <1>4, ReceiveTypes, RestTypes DEF ConsolidationFailed
  <2>2. Message.type = "consolidation_failed"
    BY <1>4, ReceiveTypes DEF ConsolidationFailed
  <2>3. state = "refining"
    BY <1>4, <2>2 DEF ConsolidationFailed, Accepts, ConsolidationIsCurrent
  <2>4. RunTypeOK' /\ ReviewIsForPlanRuns'
    BY <1>4, <2>3 DEF ConsolidationFailed, MoveRun, RunTypeOK, ReviewIsForPlanRuns, SessionStates
  <2>5. QED
    BY <2>1, <2>4
<1>5. QED
  BY <1>1, <1>2, <1>3, <1>4

LEMMA PipelineTypes ==
    ASSUME TypeInv, VerificationStarted \/ VerificationRetrying \/ ExecutionComplete
    PROVE  TypeInv'
<1> USE DEF TypeInv, TypeOK
<1>1. CASE VerificationStarted \/ VerificationRetrying
  <2>1. /\ Message \in FromSandboxMessages
        /\ Message.type \in {"verification_started", "verification_retrying"}
        /\ fromSandbox' \in Seq(FromSandboxMessages)
        /\ UNCHANGED <<work, requests>>
    BY <1>1, ReceiveTypes DEF VerificationStarted, VerificationRetrying
  <2>2. attempts' \in 0 .. MaxVerificationAttempts
    BY <1>1, <2>1, FieldTypes DEF VerificationStarted, VerificationRetrying
  <2>3. RestTypeOK'
    BY <1>1, <2>1, RestTypes DEF VerificationStarted, VerificationRetrying
  <2>4. QED
    BY <1>1, <2>2, <2>3
       DEF VerificationStarted, VerificationRetrying, MoveRun, RunTypeOK, ReviewIsForPlanRuns,
           SessionStates
<1>2. CASE ExecutionComplete
  <2>1. RestTypeOK'
    BY <1>2, ReceiveTypes, RestTypes DEF ExecutionComplete
  <2>2. Msg("create_pr", active, 0) \in ToSandboxMessages
    BY DEF Msg, ToSandboxMessages, RunTypeOK
  <2>3. toSandbox' \in Seq(ToSandboxMessages)
    BY <1>2, <2>2, SentTypes DEF ExecutionComplete, RestTypeOK
  <2>4. QED
    BY <1>2, <2>1, <2>3
       DEF ExecutionComplete, MoveRun, RunTypeOK, ReviewIsForPlanRuns, SessionStates
<1>3. QED
  BY <1>1, <1>2

LEMMA OutcomeTypes ==
    ASSUME TypeInv, AgentTurnEnded \/ VerificationFailed \/ ErrorFailsRun
    PROVE  TypeInv'
<1>1. RestTypeOK'
  BY ReceiveTypes, RestTypes DEF AgentTurnEnded, VerificationFailed, ErrorFailsRun
<1>2. PICK o \in {"completed", "failed"} : SettleActiveRun(o)
  BY DEF AgentTurnEnded, VerificationFailed, ErrorFailsRun
<1>3. QED
  BY <1>1, <1>2, SettleTypes DEF TypeInv, TypeOK

LEMMA PublishTypes ==
    ASSUME TypeInv, BranchPushed \/ PullRequestSettled
    PROVE  TypeInv'
<1> USE DEF TypeInv, TypeOK
<1>1. CASE BranchPushed
  <2>1. /\ Message \in FromSandboxMessages /\ Message.type = "branch_pushed"
        /\ fromSandbox' \in Seq(FromSandboxMessages)
        /\ UNCHANGED <<work, requests>>
    BY <1>1, ReceiveTypes DEF BranchPushed
  <2>2. Message.run \in Owners
    BY <2>1, FieldTypes
  <2>3. RestTypeOK'
    BY <1>1, <2>1, <2>2 DEF BranchPushed, RestTypeOK, revisionVars, linkVars
  <2>4. QED
    BY <1>1, <2>3 DEF BranchPushed, RunTypeOK, ReviewIsForPlanRuns, runVars
<1>2. CASE PullRequestSettled
  <2>1. PICK r \in publishing, o \in {"completed", "failed"} : SettlePullRequest(r, o)
    BY <1>2 DEF PullRequestSettled
  <2>2. RestTypeOK'
    BY <2>1 DEF SettlePullRequest, RestTypeOK, revisionVars, linkVars
  <2>3. RunTypeOK' /\ ReviewIsForPlanRuns'
    BY <2>1, SettleTypes DEF SettlePullRequest
  <2>4. QED
    BY <2>2, <2>3
<1>3. QED
  BY <1>1, <1>2

LEMMA OrchestratorTypes ==
    ASSUME TypeInv, Orchestrator
    PROVE  TypeInv'
<1>1. CASE ErrorEndsSession
  <2>1. fromSandbox' \in Seq(FromSandboxMessages) /\ EndSession("failed")
    BY <1>1, ReceiveTypes DEF ErrorEndsSession
  <2>2. QED
    BY <2>1, EndSessionTypes
<1>2. QED
  BY <1>1, BootTypes, PlanTypes, PipelineTypes, OutcomeTypes, PublishTypes DEF Orchestrator

LEMMA ConnectionTypes ==
    ASSUME TypeInv, Connect \/ Disconnect \/ SandboxDestroyed
    PROVE  TypeInv'
<1> USE DEF TypeInv, TypeOK
<1>1. ASSUME FlushOutbox PROVE fromSandbox' \in Seq(FromSandboxMessages)
  BY <1>1, ElementOfSeq, LenProperties, SubSeqProperties DEF FlushOutbox, RestTypeOK
<1>2. CASE ConnectInitialize
  <2>1. toSandbox' \in Seq(ToSandboxMessages)
    BY <1>2, AppendProperties DEF ConnectInitialize, RunTypeOK, Msg, ToSandboxMessages
  <2>2. QED
    BY <1>1, <1>2, <2>1
       DEF ConnectInitialize, RunTypeOK, RestTypeOK, ReviewIsForPlanRuns, revisionVars
<1>3. CASE ConnectResume
  <2>1. RestTypeOK'
    BY <1>1, <1>3 DEF ConnectResume, RestTypeOK, revisionVars
  <2>2. QED
    BY <1>3, <2>1, DrainTypes DEF ConnectResume
<1>4. CASE Disconnect
  <2>1. toSandbox' \in Seq(ToSandboxMessages)
    BY <1>4, ElementOfSeq, LenProperties, SubSeqProperties DEF Disconnect, RunTypeOK
  <2>2. drops' \in 0 .. MaxDrops
    BY <1>4, BoundsAssumption DEF Disconnect, RestTypeOK
  <2>3. grace' \in BOOLEAN
    BY <1>4 DEF Disconnect, RestTypeOK
  <2>4. QED
    BY <1>4, <2>1, <2>2, <2>3
       DEF Disconnect, RunTypeOK, RestTypeOK, ReviewIsForPlanRuns, revisionVars
<1>5. CASE SandboxDestroyed
  <2>1. /\ toSandbox' \in Seq(ToSandboxMessages)
        /\ fromSandbox' \in Seq(FromSandboxMessages)
        /\ work' \in Works
    BY <1>5, EmptySeq DEF SandboxDestroyed, Works
  <2>2. QED
    BY <1>5, <2>1
       DEF SandboxDestroyed, RunTypeOK, RestTypeOK, ReviewIsForPlanRuns, revisionVars
<1>6. QED
  BY <1>2, <1>3, <1>4, <1>5 DEF Connect

LEMMA InitTypes ==
    ASSUME Init
    PROVE  TypeInv
<1>1. RunTypeOK
  BY InitialValuesTyped, EmptySeq DEF Init, RunTypeOK, SessionStates, Owners
<1>2. RestTypeOK
  BY InitialValuesTyped, EmptySeq DEF Init, RestTypeOK, Works, Owners
<1>3. QED
  BY <1>1, <1>2 DEF Init, TypeInv, TypeOK, ReviewIsForPlanRuns

LEMMA TypesKept ==
    ASSUME TypeInv, [Next]_vars
    PROVE  TypeInv'
<1>1. CASE UNCHANGED vars
  BY <1>1 DEF vars, runVars, revisionVars, linkVars, TypeInv, TypeOK, RunTypeOK, RestTypeOK,
              ReviewIsForPlanRuns
<1>2. CASE Next
  BY <1>2, CommandTypes, AbortTypes, SessionEndsTypes, SandboxTypes, OrchestratorTypes,
     PublishTypes, ConnectionTypes DEF Next, Uninterrupted
<1>3. QED
  BY <1>1, <1>2

\* Messages, rounds and runs have their types in every behaviour; the round
\* stays within MAX_REFINEMENT_ROUNDS although only handleRefine looks at it.
THEOREM TypeCorrect == Spec => []TypeOK
<1>1. Init => TypeInv
  BY InitTypes
<1>2. TypeInv /\ [Next]_vars => TypeInv'
  BY TypesKept
<1>3. TypeInv => TypeOK
  BY DEF TypeInv
<1>4. QED
  BY <1>1, <1>2, <1>3, PTL DEF Spec

-----------------------------------------------------------------------------
(* The queue of runs and the ledger of requests *)

\* The ways a step can treat the queue, besides FailSession and AgentRequest.
\* A Session that has ended starts no run and fails none.
Untouched ==
    /\ UNCHANGED <<active, queue, requests>>
    /\ Terminal => UNCHANGED <<state, outcome>>
OldestStarts ==
    /\ ~Terminal /\ ~Terminal'
    /\ queue # <<>>
    /\ active' = Head(queue) /\ queue' = Tail(queue) /\ requests' = requests
AllSettled ==
    /\ Terminal' <=> Terminal
    /\ active # NoRun
    /\ active' = NoRun /\ queue' = <<>> /\ requests' = requests

LEMMA FinishSteps ==
    ASSUME active # NoRun, requests' = requests, NEW s, NEW o, FinishRun(s, o),
           s = state \/ (s = "ready" /\ ~Terminal)
    PROVE  OldestStarts \/ AllSettled
<1>1. CASE NoneWaiting(s) \/ AllWaitingFail(s)
  <2>1. active' = NoRun /\ queue' = <<>> /\ state' = s
    BY <1>1 DEF NoneWaiting, AllWaitingFail
  <2>2. Terminal' <=> Terminal
    BY <2>1, LiveStates DEF Terminal
  <2>3. QED
    BY <2>1, <2>2 DEF AllSettled
<1>2. CASE NextStarts(s)
  <2>1. /\ queue # <<>> /\ active' = Head(queue) /\ queue' = Tail(queue)
        /\ s = "ready" /\ state' \in {"planning", "executing"}
    BY <1>2 DEF NextStarts, StartAgentRun
  <2>2. ~Terminal /\ ~Terminal'
    BY <2>1, LiveStates DEF Terminal
  <2>3. QED
    BY <2>1, <2>2 DEF OldestStarts
<1>3. QED
  BY <1>1, <1>2 DEF FinishRun

LEMMA SettleSteps ==
    ASSUME requests' = requests, NEW o, SettleActiveRun(o)
    PROVE  Untouched \/ OldestStarts \/ AllSettled
<1>1. AfterRun = state \/ (AfterRun = "ready" /\ ~Terminal)
  <2>1. CASE IsValidTransition(state, "ready")
    BY <2>1, TerminalStays DEF AfterRun
  <2>2. CASE ~IsValidTransition(state, "ready")
    BY <2>2 DEF AfterRun
  <2>3. QED
    BY <2>1, <2>2
<1>2. QED
  BY <1>1, FinishSteps DEF SettleActiveRun, Untouched, runVars

LEMMA DrainSteps ==
    ASSUME requests' = requests, NEW s, NEW up, DrainQueuedWork(s, up), s = state \/ ~Terminal
    PROVE  Untouched \/ OldestStarts
<1>1. CASE s = "ready" /\ active = NoRun /\ queue # <<>> /\ up
  <2>1. /\ active' = Head(queue) /\ queue' = Tail(queue)
        /\ state' \in {"planning", "executing"}
    BY <1>1 DEF DrainQueuedWork, StartAgentRun
  <2>2. ~Terminal /\ ~Terminal'
    BY <1>1, <2>1, LiveStates DEF Terminal
  <2>3. QED
    BY <1>1, <2>1, <2>2 DEF OldestStarts
<1>2. CASE ~(s = "ready" /\ active = NoRun /\ queue # <<>> /\ up)
  BY <1>2 DEF DrainQueuedWork, Untouched
<1>3. QED
  BY <1>1, <1>2

\* A request neither starts nor ends a Session.
LEMMA RequestKeepsTerminal ==
    ASSUME NEW r \in Runs, AgentRequest(r)
    PROVE  Terminal' <=> Terminal
<1>1. CASE state = "ready" /\ active = NoRun /\ attached
  <2>1. state' \in {"planning", "executing"}
    BY <1>1 DEF AgentRequest, StartAgentRun
  <2>2. QED
    BY <1>1, <2>1, LiveStates DEF Terminal
<1>2. CASE ~(state = "ready" /\ active = NoRun /\ attached)
  BY <1>2 DEF AgentRequest, Terminal
<1>3. QED
  BY <1>1, <1>2

LEMMA QueueSteps ==
    ASSUME [Next]_vars
    PROVE  \/ Untouched \/ OldestStarts \/ AllSettled \/ FailSession
           \/ \E r \in Runs : AgentRequest(r)
<1>1. CASE UNCHANGED vars
  BY <1>1 DEF vars, runVars, Untouched
<1>2. CASE Command
  BY <1>2, TerminalStays DEF Command, Approve, Refine, MoveRun, Untouched
<1>3. CASE SessionEnds
  BY <1>3 DEF SessionEnds, StopSession, MaxTimeExpired, ProvisioningTimedOut, ProvisioningFailed,
              ReconnectExpired, SandboxLost, ResumeFails, EndSession, MoveSession, Untouched
<1>4. CASE Sandbox
  BY <1>4 DEF Sandbox, SandboxTake, SandboxStep, runVars, Untouched
<1>5. CASE Orchestrator
  <2>1. CASE IgnoreMessage \/ BranchPushed
    BY <2>1 DEF IgnoreMessage, BranchPushed, Receive, runVars, Untouched
  <2>2. CASE ErrorEndsSession \/ CloneStarted
    BY <2>2, TerminalStays DEF ErrorEndsSession, CloneStarted, Receive, EndSession, MoveSession,
                               Untouched
  <2>3. CASE CloneComplete
    <3>1. state = "cloning_repo"
      BY <2>3 DEF CloneComplete, Receive, Accepts
    <3>2. ~Terminal
      BY <3>1 DEF Terminal, IsTerminalState, Transitions
    <3>3. QED
      BY <2>3, <3>2, DrainSteps DEF CloneComplete, Receive
  <2>4. CASE AgentTurnEnded \/ VerificationFailed \/ ErrorFailsRun
    BY <2>4, SettleSteps DEF AgentTurnEnded, VerificationFailed, ErrorFailsRun, Receive
  <2>5. CASE PlanReady \/ ConsolidationFailed \/ VerificationRetrying \/ ExecutionComplete
    BY <2>5, TerminalStays DEF PlanReady, ConsolidationFailed, VerificationRetrying,
                               ExecutionComplete, MoveRun, Receive, Untouched
  <2>6. CASE ConsolidationComplete
    BY <2>6 DEF ConsolidationComplete, Receive, Untouched
  <2>7. CASE VerificationStarted
    BY <2>7, TerminalStays DEF VerificationStarted, MoveRun, Receive, Untouched
  <2>8. QED
    BY <1>5, <2>1, <2>2, <2>3, <2>4, <2>5, <2>6, <2>7 DEF Orchestrator
<1>6. CASE PullRequestSettled
  BY <1>6, SettleSteps DEF PullRequestSettled, SettlePullRequest
<1>7. CASE Connect \/ Disconnect \/ SandboxDestroyed
  BY <1>7, DrainSteps DEF Connect, ConnectInitialize, ConnectResume, Disconnect, SandboxDestroyed,
                          Untouched
<1>8. CASE Abort
  BY <1>8, TerminalStays, FinishSteps DEF Abort
<1>9. QED
  BY <1>1, <1>2, <1>3, <1>4, <1>5, <1>6, <1>7, <1>8 DEF Next, Uninterrupted

\* QueueIsTailOfRequests entry by entry: `Taken` requests have left the queue.
Taken == Len(requests) - Len(queue)

\* The active run is the j-th request, and those behind it that do not wait any
\* more were given up with the Session.
ActiveIs(j) ==
    /\ active = requests[j]
    /\ \A i \in j + 1 .. Taken : Terminal /\ outcome[requests[i]] = "failed"

QueueInv ==
    /\ Len(queue) <= Len(requests)
    /\ \A i \in 1 .. Len(queue) : queue[i] = requests[Taken + i]
    /\ active # NoRun => \E j \in 1 .. Taken : ActiveIs(j)

LEMMA QueueInvIsTail ==
    ASSUME TypeOK, QueueInv
    PROVE  QueueIsTailOfRequests
<1>1. /\ queue \in Seq(Runs) /\ Len(queue) \in Nat
      /\ requests \in Seq(Runs) /\ Len(requests) \in Nat
      /\ Taken \in 0 .. Len(requests)
  BY LenProperties DEF TypeOK, RunTypeOK, RestTypeOK, QueueInv, Taken
<1>2. \A i \in Taken + 1 .. Len(requests) : requests[i] \in Runs
  BY <1>1, ElementOfSeq
<1>3. /\ SubSeq(requests, Taken + 1, Len(requests)) \in Seq(Runs)
      /\ Len(SubSeq(requests, Taken + 1, Len(requests))) = Len(queue)
      /\ \A i \in 1 .. Len(queue) :
            SubSeq(requests, Taken + 1, Len(requests))[i] = requests[Taken + i]
  <2>1. Taken + 1 \in Int /\ Len(requests) \in Int
    BY <1>1
  <2>2. /\ SubSeq(requests, Taken + 1, Len(requests)) \in Seq(Runs)
        /\ Len(SubSeq(requests, Taken + 1, Len(requests))) =
             IF Taken + 1 <= Len(requests) THEN Len(requests) - (Taken + 1) + 1 ELSE 0
        /\ \A i \in 1 .. Len(requests) - (Taken + 1) + 1 :
             SubSeq(requests, Taken + 1, Len(requests))[i] = requests[Taken + 1 + i - 1]
    BY <1>2, <2>1, SubSeqProperties
  <2>3. Len(requests) - (Taken + 1) + 1 = Len(queue)
    BY <1>1 DEF Taken
  <2>4. \A i \in 1 .. Len(queue) : Taken + 1 + i - 1 = Taken + i
    BY <1>1
  <2>5. QED
    BY <1>1, <2>2, <2>3, <2>4
<1>4. queue = SubSeq(requests, Taken + 1, Len(requests))
  BY <1>1, <1>3, SeqEqual DEF QueueInv
<1>5. QED
  BY <1>1, <1>4 DEF QueueInv, ActiveIs, QueueIsTailOfRequests

\* A request goes to the end of the log and of the queue; the oldest of the
\* queue may start at once.
LEMMA RequestKeepsQueue ==
    ASSUME TypeOK, QueueInv, NEW r \in Runs, AgentRequest(r)
    PROVE  QueueInv'
<1>1. /\ queue \in Seq(Runs) /\ Len(queue) \in Nat
      /\ requests \in Seq(Runs) /\ Len(requests) \in Nat
  BY LenProperties DEF TypeOK, RunTypeOK, RestTypeOK
<1>2. /\ Len(requests') = Len(requests) + 1
      /\ \A i \in 1 .. Len(requests) : requests'[i] = requests[i]
      /\ requests'[Len(requests) + 1] = r
  BY <1>1, AppendProperties DEF AgentRequest
<1>3. /\ Enqueued(r) \in Seq(Runs) /\ Enqueued(r) # <<>>
      /\ Len(Enqueued(r)) = Len(queue) + 1
      /\ \A i \in 1 .. Len(queue) : Enqueued(r)[i] = queue[i]
      /\ Enqueued(r)[Len(queue) + 1] = r
  BY <1>1, AppendProperties DEF Enqueued
<1>4. \A i \in 1 .. Len(queue) + 1 : Enqueued(r)[i] = requests'[Taken + i]
  <2>1. TAKE i \in 1 .. Len(queue) + 1
  <2>2. CASE i \in 1 .. Len(queue)
    <3>1. Taken + i \in 1 .. Len(requests)
      BY <1>1, <2>2 DEF QueueInv, Taken
    <3>2. Enqueued(r)[i] = queue[i] /\ queue[i] = requests[Taken + i]
      BY <1>3, <2>2 DEF QueueInv
    <3>3. QED
      BY <1>2, <3>1, <3>2
  <2>3. CASE i = Len(queue) + 1
    <3>1. Taken + i = Len(requests) + 1
      BY <1>1, <2>3 DEF Taken
    <3>2. QED
      BY <1>2, <1>3, <2>3, <3>1
  <2>4. QED
    BY <1>1, <2>2, <2>3
<1>5. CASE state = "ready" /\ active = NoRun /\ attached
  <2>1. active' = Head(Enqueued(r)) /\ queue' = Tail(Enqueued(r))
    BY <1>5 DEF AgentRequest, StartAgentRun
  <2>2. /\ Len(queue') = Len(queue)
        /\ \A i \in 1 .. Len(queue) : queue'[i] = Enqueued(r)[i + 1]
    BY <1>1, <1>3, <2>1, HeadTailProperties
  <2>3. active' = Enqueued(r)[1]
    BY <2>1
  <2>4. Taken' = Taken + 1 /\ Taken' \in 1 .. Taken' /\ active' = requests'[Taken']
    <3>1. Taken' = Taken + 1 /\ Taken \in Nat
      BY <1>1, <1>2, <2>2 DEF Taken, QueueInv
    <3>2. Enqueued(r)[1] = requests'[Taken + 1]
      BY <1>1, <1>4
    <3>3. QED
      BY <2>3, <3>1, <3>2
  <2>5. \A i \in 1 .. Len(queue') : queue'[i] = requests'[Taken' + i]
    <3>1. TAKE i \in 1 .. Len(queue')
    <3>2. queue'[i] = Enqueued(r)[i + 1]
      BY <2>2
    <3>3. Enqueued(r)[i + 1] = requests'[Taken + (i + 1)]
      BY <1>1, <1>4, <2>2
    <3>4. Taken + (i + 1) = Taken' + i
      <4>1. Taken \in Int /\ i \in Int
        BY <1>1, <2>2 DEF Taken
      <4>2. QED
        BY <2>4, <4>1
    <3>5. QED
      BY <3>2, <3>3, <3>4
  <2>6. active' # NoRun => \E j \in 1 .. Taken' : ActiveIs(j)'
    BY <2>4 DEF ActiveIs
  <2>7. Len(queue') <= Len(requests')
    BY <1>1, <1>2, <2>2 DEF QueueInv
  <2>8. QED
    BY <2>5, <2>6, <2>7 DEF QueueInv
<1>6. CASE ~(state = "ready" /\ active = NoRun /\ attached)
  <2>1. active' = active /\ queue' = Enqueued(r)
    BY <1>6 DEF AgentRequest
  <2>2. Taken' = Taken
    <3>1. Len(queue') = Len(queue) + 1
      BY <1>3, <2>1
    <3>2. QED
      BY <1>1, <1>2, <3>1 DEF Taken
  <2>3. active' # NoRun => \E j \in 1 .. Taken' : ActiveIs(j)'
    <3>1. HAVE active' # NoRun
    <3>2. PICK j \in 1 .. Taken : ActiveIs(j)
      BY <2>1, <3>1 DEF QueueInv
    <3>3. Taken \in 0 .. Len(requests)
      BY <1>1 DEF QueueInv, Taken
    <3>4. \A i \in 1 .. Taken : requests'[i] = requests[i]
      BY <1>1, <1>2, <3>3
    <3>5. outcome' = outcome /\ (Terminal' <=> Terminal)
      BY RequestKeepsTerminal DEF AgentRequest
    <3>6. \A i \in j + 1 .. Taken : i \in 1 .. Taken
      BY <3>3
    <3>7. ActiveIs(j)'
      BY <2>1, <2>2, <3>2, <3>4, <3>5, <3>6 DEF ActiveIs
    <3>8. QED
      BY <2>2, <3>7
  <2>4. QED
    BY <1>1, <1>2, <1>3, <1>4, <2>1, <2>2, <2>3 DEF QueueInv
<1>7. QED
  BY <1>5, <1>6

\* Everything behind the active run fails, and the Session with it.
LEMMA FailSessionKeepsQueue ==
    ASSUME TypeOK, QueueInv, FailSession
    PROVE  QueueInv'
<1>1. /\ queue \in Seq(Runs) /\ Len(queue) \in Nat /\ DOMAIN queue = 1 .. Len(queue)
      /\ requests \in Seq(Runs) /\ Len(requests) \in Nat
  BY LenProperties DEF TypeOK, RunTypeOK, RestTypeOK
<1>2. /\ queue' = <<>> /\ Len(queue') = 0 /\ requests' = requests /\ active' = active
      /\ ~Terminal
  BY EmptySeq DEF FailSession
<1>3. Taken' = Len(requests) /\ Taken \in 0 .. Len(requests)
  BY <1>1, <1>2 DEF Taken, QueueInv
<1>4. Terminal'
  BY TerminalStates DEF FailSession, Terminal, SessionStates
<1>5. \A i \in Taken + 1 .. Len(requests) : outcome'[requests[i]] = "failed"
  <2>1. TAKE i \in Taken + 1 .. Len(requests)
  <2>2. i - Taken \in 1 .. Len(queue) /\ Taken + (i - Taken) = i /\ i \in 1 .. Len(requests)
    BY <1>1, <1>3 DEF Taken
  <2>3. queue[i - Taken] = requests[i]
    BY <2>2 DEF QueueInv
  <2>4. requests[i] \in Runs /\ requests[i] \in {queue[k] : k \in DOMAIN queue}
    BY <1>1, <2>2, <2>3, ElementOfSeq
  <2>5. QED
    BY <2>4 DEF FailSession
<1>6. ASSUME active # NoRun PROVE \E j \in 1 .. Taken' : ActiveIs(j)'
  <2>1. PICK j \in 1 .. Taken : ActiveIs(j)
    BY <1>6 DEF QueueInv
  <2>2. j \in 1 .. Len(requests) /\ j = Taken
    BY <1>2, <1>3, <2>1 DEF ActiveIs
  <2>3. ActiveIs(j)'
    BY <1>2, <1>3, <1>4, <1>5, <2>1, <2>2 DEF ActiveIs
  <2>4. QED
    BY <1>3, <2>2, <2>3
<1>7. QED
  BY <1>1, <1>2, <1>6 DEF QueueInv

LEMMA QueueInvKept ==
    ASSUME TypeOK, QueueInv, [Next]_vars
    PROVE  QueueInv'
<1>1. /\ queue \in Seq(Runs) /\ Len(queue) \in Nat
      /\ requests \in Seq(Runs) /\ Len(requests) \in Nat
  BY LenProperties DEF TypeOK, RunTypeOK, RestTypeOK
<1>2. CASE Untouched
  <2>1. Taken' = Taken
    BY <1>2 DEF Untouched, Taken
  <2>2. \A j \in 1 .. Taken : ActiveIs(j) => ActiveIs(j)'
    BY <1>2, <2>1 DEF Untouched, ActiveIs, Terminal
  <2>3. QED
    BY <1>2, <2>1, <2>2 DEF Untouched, QueueInv
<1>3. CASE OldestStarts
  <2>1. /\ Len(queue') = Len(queue) - 1
        /\ \A i \in 1 .. Len(queue') : queue'[i] = queue[i + 1]
    BY <1>1, <1>3, HeadTailProperties DEF OldestStarts
  <2>2. active' = queue[1] /\ Len(queue) > 0 /\ requests' = requests
    BY <1>1, <1>3, EmptySeq DEF OldestStarts
  <2>3. Taken' = Taken + 1 /\ Taken' \in 1 .. Taken' /\ active' = requests'[Taken']
    BY <1>1, <2>1, <2>2 DEF Taken, QueueInv
  <2>4. \A i \in 1 .. Len(queue') : queue'[i] = requests'[Taken' + i]
    <3>1. TAKE i \in 1 .. Len(queue')
    <3>2. i + 1 \in 1 .. Len(queue) /\ Taken \in Int /\ i \in Int
      BY <1>1, <2>1 DEF Taken
    <3>3. queue'[i] = requests[Taken + (i + 1)]
      BY <2>1, <3>2 DEF QueueInv
    <3>4. Taken + (i + 1) = Taken' + i
      BY <2>3, <3>2
    <3>5. QED
      BY <2>2, <3>3, <3>4
  <2>5. active' # NoRun => \E j \in 1 .. Taken' : ActiveIs(j)'
    BY <2>3 DEF ActiveIs
  <2>6. QED
    BY <1>1, <2>1, <2>2, <2>4, <2>5 DEF QueueInv
<1>4. CASE AllSettled
  BY <1>1, <1>4, EmptySeq DEF AllSettled, QueueInv, Taken
<1>5. CASE \E r \in Runs : AgentRequest(r)
  BY <1>5, RequestKeepsQueue
<1>6. CASE FailSession
  BY <1>6, FailSessionKeepsQueue
<1>7. QED
  BY <1>2, <1>3, <1>4, <1>5, <1>6, QueueSteps

\* Requests are taken up in the order they were made, each at most once, and
\* none is passed over, in every behaviour and for any number of requests: a
\* request between the active run and the waiting ones failed with its Session.
THEOREM RunsAreTakenInOrder == Spec => []QueueIsTailOfRequests
<1>1. Init => QueueInv
  BY EmptySeq DEF Init, QueueInv, Taken
<1>2. TypeOK /\ QueueInv /\ [Next]_vars => QueueInv'
  BY QueueInvKept
<1>3. TypeOK /\ QueueInv => QueueIsTailOfRequests
  BY QueueInvIsTail
<1>4. QED
  BY <1>1, <1>2, <1>3, TypeCorrect, PTL DEF Spec

-----------------------------------------------------------------------------
(* The Session implements RunLedger *)

LEMMA LedgerStep ==
    ASSUME TypeOK, QueueInv, [Next]_vars
    PROVE  [Ledger!Next]_(Ledger!vars)
<1>1. /\ queue \in Seq(Runs) /\ Len(queue) \in Nat
      /\ requests \in Seq(Runs) /\ Len(requests) \in Nat
  BY LenProperties DEF TypeOK, RunTypeOK, RestTypeOK
<1>2. CASE Untouched
  <2>1. CASE Terminal' <=> Terminal
    BY <1>2, <2>1 DEF Untouched, Ledger!vars
  <2>2. CASE Terminal' /\ ~Terminal
    BY <1>2, <2>2 DEF Untouched, Ledger!Next, Ledger!Close
  <2>3. QED
    BY <1>2, <2>1, <2>2 DEF Untouched, Terminal
<1>3. CASE OldestStarts
  <2>1. Len(queue') = Len(queue) - 1 /\ Len(queue) > 0
    BY <1>1, <1>3, HeadTailProperties, EmptySeq DEF OldestStarts
  <2>2. active' = queue[1] /\ queue[1] = requests[Taken + 1]
    BY <1>1, <1>3, <2>1 DEF OldestStarts, QueueInv
  <2>3. Taken < Len(requests) /\ Taken' = Taken + 1
    BY <1>1, <1>3, <2>1 DEF OldestStarts, Taken
  <2>4. Ledger!TakeNext
    BY <1>3, <2>2, <2>3 DEF OldestStarts, Ledger!TakeNext, Taken
  <2>5. QED
    BY <2>4 DEF Ledger!Next
<1>4. CASE AllSettled
  <2>1. Len(queue') = 0
    BY <1>4, EmptySeq DEF AllSettled
  <2>2. Ledger!Settle
    BY <1>1, <1>4, <2>1 DEF AllSettled, Ledger!Settle
  <2>3. QED
    BY <2>2 DEF Ledger!Next
<1>5. ASSUME NEW r \in Runs, AgentRequest(r) PROVE Ledger!Request(r)
  <2>1. /\ \A i \in DOMAIN requests : requests[i] # r
        /\ requests' = Append(requests, r)
        /\ Len(requests') = Len(requests) + 1
    BY <1>1, <1>5, AppendProperties DEF AgentRequest
  <2>2. /\ Enqueued(r) \in Seq(Runs) /\ Enqueued(r) # <<>>
        /\ Len(Enqueued(r)) = Len(queue) + 1
    BY <1>1, AppendProperties DEF Enqueued
  <2>3. CASE state = "ready" /\ active = NoRun /\ attached
    <3>1. queue' = Tail(Enqueued(r))
      BY <1>5, <2>3 DEF AgentRequest
    <3>2. Len(queue') = Len(queue)
      BY <1>1, <2>2, <3>1, HeadTailProperties
    <3>3. Taken' = Taken + 1 /\ active' # NoRun
      <4>1. active' \in Runs
        BY <1>5, <2>2, <2>3, HeadTailProperties DEF AgentRequest, StartAgentRun
      <4>2. QED
        BY <1>1, <2>1, <3>2, <4>1, RunsAssumption DEF Taken
    <3>4. active' = requests'[Taken + 1]
      <4>1. /\ Enqueued(r)[1] = Head(Enqueued(r)) /\ active' = Head(Enqueued(r))
            /\ DOMAIN queue = 1 .. Len(queue)
        BY <1>1, <1>5, <2>2, <2>3, LenProperties DEF AgentRequest, StartAgentRun
      <4>2. CASE queue = <<>>
        <5>1. Enqueued(r)[1] = r /\ Taken + 1 = Len(requests) + 1
          BY <1>1, <4>2, EmptySeq, AppendProperties DEF Enqueued, Taken
        <5>2. QED
          BY <1>1, <2>1, <4>1, <5>1, AppendProperties
      <4>3. CASE queue # <<>>
        <5>1. Len(queue) > 0 /\ Taken + 1 \in 1 .. Len(requests)
          BY <1>1, <4>3, EmptySeq DEF QueueInv, Taken
        <5>2. Enqueued(r)[1] = queue[1] /\ queue[1] = requests[Taken + 1]
          BY <1>1, <5>1, AppendProperties DEF Enqueued, QueueInv
        <5>3. QED
          BY <1>1, <2>1, <4>1, <5>1, <5>2, AppendProperties
      <4>4. QED
        BY <4>2, <4>3
    <3>5. ~Terminal /\ (Terminal' <=> Terminal)
      BY <1>5, <2>3, LiveStates, RequestKeepsTerminal DEF Terminal
    <3>6. QED
      BY <2>1, <2>3, <3>3, <3>4, <3>5 DEF Ledger!Request, Taken
  <2>4. CASE ~(state = "ready" /\ active = NoRun /\ attached)
    <3>1. active' = active /\ queue' = Enqueued(r)
      BY <1>5, <2>4 DEF AgentRequest
    <3>2. Len(queue') = Len(queue) + 1
      BY <2>2, <3>1
    <3>3. Len(requests') - Len(queue') = Len(requests) - Len(queue)
      BY <1>1, <2>1, <3>2
    <3>4. QED
      BY <1>5, <2>1, <3>1, <3>3, RequestKeepsTerminal DEF Ledger!Request
  <2>5. QED
    BY <2>3, <2>4
<1>6. CASE \E r \in Runs : AgentRequest(r)
  BY <1>5, <1>6 DEF Ledger!Next
<1>7. CASE FailSession
  <2>1. /\ ~Terminal /\ Len(queue') = 0 /\ requests' = requests /\ active' = active
    BY EmptySeq, <1>7 DEF FailSession
  <2>2. Terminal'
    BY <1>7, TerminalStates DEF FailSession, Terminal, SessionStates
  <2>3. Ledger!Close
    BY <1>1, <2>1, <2>2 DEF Ledger!Close
  <2>4. QED
    BY <2>3 DEF Ledger!Next
<1>8. QED
  BY <1>2, <1>3, <1>4, <1>6, <1>7, QueueSteps

\* Whatever happens to the sandbox, the connection and GitHub, the Session
\* keeps the promise of RunLedger about the requests made to it.
THEOREM SessionImplementsRunLedger == Spec => KeepsRunLedger
<1>1. Init => QueueInv
  BY EmptySeq DEF Init, QueueInv, Taken
<1>2. TypeOK /\ QueueInv /\ [Next]_vars => QueueInv'
  BY QueueInvKept
<1>3. Init => Ledger!Init
  BY EmptySeq, TerminalStates DEF Init, Ledger!Init, Terminal, SessionStates
<1>4. TypeOK /\ QueueInv /\ [Next]_vars => [Ledger!Next]_(Ledger!vars)
  BY LedgerStep
<1>5. QED
  BY <1>1, <1>2, <1>3, <1>4, TypeCorrect, PTL DEF Spec, KeepsRunLedger, Ledger!Spec

-----------------------------------------------------------------------------
(* The phase of the Session, the state of its run, and its queue *)

PhaseInv == RunStateFollowsSession /\ ReadySessionIsDrained

LEMMA SamePhase ==
    ASSUME PhaseInv, UNCHANGED <<state, active, runState, queue>>, attached' => attached
    PROVE  PhaseInv'
BY DEF PhaseInv, RunStateFollowsSession, ReadySessionIsDrained, Terminal, RunStateOf

LEMMA EndedPhase ==
    ASSUME state' \in {"failed", "timed_out"}
    PROVE  PhaseInv'
BY TerminalStates
   DEF PhaseInv, RunStateFollowsSession, ReadySessionIsDrained, Terminal, SessionStates

\* With no run, only a ready Session has anything to show.
LEMMA RestingPhase ==
    ASSUME active' = NoRun, \/ state' # "ready" \/ queue' = <<>> \/ ~attached'
    PROVE  PhaseInv'
BY DEF PhaseInv, RunStateFollowsSession, ReadySessionIsDrained

LEMMA MovePhase ==
    ASSUME TypeInv, PhaseInv, NEW to \in DOMAIN RunStateOf, MoveRun(to, RunStateOf[to])
    PROVE  PhaseInv'
BY DEF PhaseInv, RunStateFollowsSession, ReadySessionIsDrained, MoveRun, RunStateOf

LEMMA StartPhase ==
    ASSUME TypeInv, NEW r \in Runs, NEW up \in BOOLEAN, StartAgentRun(r, up)
    PROVE  PhaseInv'
<1>1. state' \in {"planning", "executing"} /\ runState' = RunStateOf[state']
  BY StartTypes DEF TypeInv, TypeOK
<1>2. QED
  BY <1>1 DEF PhaseInv, RunStateFollowsSession, ReadySessionIsDrained, RunStateOf

LEMMA FinishPhase ==
    ASSUME TypeInv, NEW s, NEW o, FinishRun(s, o)
    PROVE  PhaseInv'
<1>1. CASE NoneWaiting(s) \/ AllWaitingFail(s)
  BY <1>1, RestingPhase DEF NoneWaiting, AllWaitingFail
<1>2. CASE NextStarts(s)
  <2>1. Head(queue) \in Runs
    BY <1>2, HeadTailProperties DEF NextStarts, TypeInv, TypeOK, RunTypeOK
  <2>2. QED
    BY <1>2, <2>1, StartPhase DEF NextStarts, TypeInv, TypeOK, RestTypeOK
<1>3. QED
  BY <1>1, <1>2 DEF FinishRun

LEMMA SettlePhase ==
    ASSUME TypeInv, PhaseInv, NEW o, SettleActiveRun(o), attached' = attached
    PROVE  PhaseInv'
<1>1. CASE active = NoRun
  BY <1>1, SamePhase DEF SettleActiveRun, runVars
<1>2. CASE active # NoRun
  BY <1>2, FinishPhase DEF SettleActiveRun
<1>3. QED
  BY <1>1, <1>2

LEMMA DrainPhase ==
    ASSUME TypeInv, PhaseInv, NEW s, DrainQueuedWork(s, attached'), attached' \in BOOLEAN,
           \/ s = state
           \/ s = "ready" /\ active = NoRun
    PROVE  PhaseInv'
<1>1. CASE s = "ready" /\ active = NoRun /\ queue # <<>> /\ attached'
  <2>1. Head(queue) \in Runs
    BY <1>1, HeadTailProperties DEF TypeInv, TypeOK, RunTypeOK
  <2>2. QED
    BY <1>1, <2>1, StartPhase DEF DrainQueuedWork
<1>2. CASE s = "ready" /\ active = NoRun /\ ~(queue # <<>> /\ attached')
  BY <1>2, RestingPhase DEF DrainQueuedWork
<1>3. CASE s = state /\ ~(s = "ready" /\ active = NoRun)
  <2>1. UNCHANGED <<state, active, runState, queue>> /\ state # "ready"
    BY <1>3 DEF DrainQueuedWork, PhaseInv, ReadySessionIsDrained
  <2>2. QED
    BY <2>1 DEF PhaseInv, RunStateFollowsSession, ReadySessionIsDrained, Terminal, RunStateOf
<1>4. QED
  BY <1>1, <1>2, <1>3

\* Before the repository is cloned there is no active run.
LEMMA BootHasNoRun ==
    ASSUME TypeInv, PhaseInv, state \in {"provisioning_sandbox", "cloning_repo"}
    PROVE  active = NoRun
<1>1. ~Terminal
  BY TerminalStates DEF Terminal, SessionStates
<1>2. state \notin DOMAIN RunStateOf
  BY DEF RunStateOf
<1>3. QED
  BY <1>1, <1>2 DEF PhaseInv, RunStateFollowsSession

LEMMA CommandPhase ==
    ASSUME TypeInv, PhaseInv, Command
    PROVE  PhaseInv'
<1>1. ASSUME NEW r \in Runs, AgentRequest(r) PROVE PhaseInv'
  <2>1. Head(Enqueued(r)) \in Runs
    BY AppendProperties, HeadTailProperties DEF Enqueued, TypeInv, TypeOK, RunTypeOK
  <2>2. CASE state = "ready" /\ active = NoRun /\ attached
    BY <1>1, <2>1, <2>2, StartPhase DEF AgentRequest, TypeInv, TypeOK, RestTypeOK
  <2>3. CASE ~(state = "ready" /\ active = NoRun /\ attached)
    <3>1. UNCHANGED <<state, active, runState, attached>>
      BY <1>1, <2>3 DEF AgentRequest, linkVars
    <3>2. state = "ready" => ~attached
      BY <2>3 DEF PhaseInv, ReadySessionIsDrained
    <3>3. QED
      BY <3>1, <3>2 DEF PhaseInv, RunStateFollowsSession, ReadySessionIsDrained, Terminal,
                        RunStateOf
  <2>4. QED
    BY <2>2, <2>3
<1>2. CASE Approve
  <2>1. MoveRun("executing", RunStateOf["executing"])
    BY <1>2 DEF Approve, RunStateOf
  <2>2. QED
    BY <2>1, MovePhase DEF RunStateOf
<1>3. CASE Refine
  <2>1. MoveRun("refining", RunStateOf["refining"])
    BY <1>3 DEF Refine, RunStateOf
  <2>2. QED
    BY <2>1, MovePhase DEF RunStateOf
<1>4. QED
  BY <1>1, <1>2, <1>3 DEF Command

LEMMA SessionEndsPhase ==
    ASSUME SessionEnds \/ ErrorEndsSession
    PROVE  PhaseInv'
<1>1. state' \in {"failed", "timed_out"}
  BY DEF SessionEnds, ErrorEndsSession, StopSession, MaxTimeExpired, ProvisioningTimedOut,
         ProvisioningFailed, ReconnectExpired, SandboxLost, ResumeFails, FailSession,
         EndSession, MoveSession
<1>2. QED
  BY <1>1, EndedPhase

LEMMA OrchestratorPhase ==
    ASSUME TypeInv, PhaseInv, Orchestrator
    PROVE  PhaseInv'
<1>1. CASE IgnoreMessage \/ BranchPushed \/ ConsolidationComplete
  BY <1>1, SamePhase
     DEF IgnoreMessage, BranchPushed, ConsolidationComplete, runVars, linkVars
<1>2. CASE CloneStarted
  <2>1. Message.type = "clone_started"
    BY <1>2 DEF CloneStarted, Receive
  <2>2. active = NoRun
    BY <1>2, <2>1, BootHasNoRun DEF CloneStarted, Accepts
  <2>3. QED
    BY <1>2, <2>2, RestingPhase DEF CloneStarted, MoveSession
<1>3. CASE CloneComplete
  <2>1. Message.type = "clone_complete"
    BY <1>3 DEF CloneComplete, Receive
  <2>2. active = NoRun
    BY <1>3, <2>1, BootHasNoRun DEF CloneComplete, Accepts
  <2>3. attached' = attached /\ attached \in BOOLEAN
    BY <1>3 DEF CloneComplete, linkVars, TypeInv, TypeOK, RestTypeOK
  <2>4. QED
    BY <1>3, <2>2, <2>3, DrainPhase DEF CloneComplete
<1>4. CASE PlanReady \/ ConsolidationFailed
  <2>1. MoveRun("awaiting_approval", RunStateOf["awaiting_approval"])
    BY <1>4 DEF PlanReady, ConsolidationFailed, RunStateOf
  <2>2. QED
    BY <2>1, MovePhase DEF RunStateOf
<1>5. CASE AgentTurnEnded \/ VerificationFailed \/ ErrorFailsRun
  BY <1>5, SettlePhase DEF AgentTurnEnded, VerificationFailed, ErrorFailsRun, linkVars
<1>6. CASE VerificationStarted
  <2>1. CASE state = "verifying"
    BY <1>6, <2>1, SamePhase DEF VerificationStarted, linkVars
  <2>2. CASE state # "verifying"
    <3>1. MoveRun("verifying", RunStateOf["verifying"])
      BY <1>6, <2>2 DEF VerificationStarted, RunStateOf
    <3>2. QED
      BY <3>1, MovePhase DEF RunStateOf
  <2>3. QED
    BY <2>1, <2>2
<1>7. CASE VerificationRetrying
  <2>1. MoveRun("retrying", RunStateOf["retrying"])
    BY <1>7 DEF VerificationRetrying, RunStateOf
  <2>2. QED
    BY <2>1, MovePhase DEF RunStateOf
<1>8. CASE ExecutionComplete
  <2>1. MoveRun("creating_pr", RunStateOf["creating_pr"])
    BY <1>8 DEF ExecutionComplete, RunStateOf
  <2>2. QED
    BY <2>1, MovePhase DEF RunStateOf
<1>9. CASE ErrorEndsSession
  BY <1>9, SessionEndsPhase
<1>10. QED
  BY <1>1, <1>2, <1>3, <1>4, <1>5, <1>6, <1>7, <1>8, <1>9 DEF Orchestrator

LEMMA ConnectionPhase ==
    ASSUME TypeInv, PhaseInv, Connect \/ Disconnect \/ SandboxDestroyed
    PROVE  PhaseInv'
<1>1. CASE ConnectInitialize
  BY <1>1, BootHasNoRun, RestingPhase DEF ConnectInitialize
<1>2. CASE ConnectResume
  <2>1. DrainQueuedWork(state, attached') /\ attached' \in BOOLEAN
    BY <1>2 DEF ConnectResume
  <2>2. QED
    BY <2>1, DrainPhase
<1>3. CASE Disconnect \/ SandboxDestroyed
  BY <1>3, SamePhase DEF Disconnect, SandboxDestroyed
<1>4. QED
  BY <1>1, <1>2, <1>3 DEF Connect

LEMMA InitPhase ==
    ASSUME Init
    PROVE  PhaseInv
BY DEF Init, PhaseInv, RunStateFollowsSession, ReadySessionIsDrained

LEMMA PhaseKept ==
    ASSUME TypeInv, PhaseInv, [Next]_vars
    PROVE  PhaseInv'
<1>1. CASE UNCHANGED vars \/ Sandbox
  BY <1>1, SamePhase DEF vars, runVars, linkVars, Sandbox, SandboxTake, SandboxStep
<1>2. CASE PullRequestSettled
  BY <1>2, SettlePhase DEF PullRequestSettled, SettlePullRequest, linkVars
<1>3. CASE Abort
  BY <1>3, FinishPhase DEF Abort
<1>4. QED
  BY <1>1, <1>2, <1>3, CommandPhase, SessionEndsPhase, OrchestratorPhase, ConnectionPhase
     DEF Next, Uninterrupted

LEMMA PhaseCorrect == Spec => [](TypeInv /\ PhaseInv)
<1>1. Init => TypeInv /\ PhaseInv
  BY InitTypes, InitPhase
<1>2. TypeInv /\ PhaseInv /\ [Next]_vars => (TypeInv /\ PhaseInv)'
  BY TypesKept, PhaseKept
<1>3. QED
  BY <1>1, <1>2, PTL DEF Spec

\* The run state shown to clients is always the one of the Session's phase.
THEOREM RunStateIsRight == Spec => []RunStateFollowsSession
<1>1. PhaseInv => RunStateFollowsSession
  BY DEF PhaseInv
<1>2. QED
  BY <1>1, PhaseCorrect, PTL

\* No request waits in a ready, connected Session: no wake-up is ever missed.
THEOREM NoWakeUpIsMissed == Spec => []ReadySessionIsDrained
<1>1. PhaseInv => ReadySessionIsDrained
  BY DEF PhaseInv
<1>2. QED
  BY <1>1, PhaseCorrect, PTL

-----------------------------------------------------------------------------
(* A run under review has a revision *)

\* A consolidation in flight was asked for a revision that exists, so the run
\* it returns to review, when it fails, has one.
Backed(m) ==
    m.type \in {"consolidate_annotations", "consolidation_failed"} =>
        revision[<<m.run, m.n>>] # NoPlan

BackedTo == {m \in ToSandboxMessages : Backed(m)}
BackedFrom == {m \in FromSandboxMessages : Backed(m)}

BackedInv ==
    /\ toSandbox \in Seq(BackedTo)
    /\ fromSandbox \in Seq(BackedFrom)
    /\ Backed(work)

ReviewInv == BackedInv /\ ReviewHasRevision

\* Revisions are replaced, never removed.
LEMMA RevisionsStay ==
    ASSUME TypeInv, [Next]_vars, NEW k \in PlanRuns \X Rounds, revision[k] # NoPlan
    PROVE  revision'[k] # NoPlan
<1>1. CASE UNCHANGED revision
  BY <1>1
<1>2. CASE PlanReady
  <2>1. Message \in FromSandboxMessages /\ Message.type = "plan_ready"
    BY <1>2, ReceiveTypes DEF PlanReady
  <2>2. Message.run \in PlanRuns
    BY <2>1 DEF FromSandboxMessages
  <2>3. [run |-> Message.run, n |-> Message.n] # NoPlan
    BY <2>2, RunsAssumption DEF NoPlan, Runs
  <2>4. QED
    BY <1>2, <2>3 DEF PlanReady, FreezePlanRevision, revisionVars, TypeInv, TypeOK, RestTypeOK
<1>3. CASE ~PlanReady
  BY <1>1, <1>3
     DEF Next, Uninterrupted, Command, AgentRequest, Approve, Refine, Abort,
         SessionEnds, StopSession, MaxTimeExpired, ProvisioningTimedOut, ProvisioningFailed,
         ReconnectExpired, SandboxLost, ResumeFails, FailSession, EndSession, Sandbox, SandboxTake, SandboxStep,
         Orchestrator, IgnoreMessage, CloneStarted, CloneComplete, ConsolidationComplete,
         ConsolidationFailed, AgentTurnEnded, VerificationStarted, VerificationRetrying,
         VerificationFailed, ExecutionComplete, BranchPushed, ErrorFailsRun, ErrorEndsSession,
         PullRequestSettled, SettlePullRequest, Connect, ConnectInitialize, ConnectResume,
         Disconnect, SandboxDestroyed, revisionVars, vars
<1>4. QED
  BY <1>2, <1>3

\* The messages that are backed now are backed after any step.
LEMMA BackingStays ==
    ASSUME TypeInv, [Next]_vars
    PROVE  /\ BackedTo \subseteq BackedTo'
           /\ BackedFrom \subseteq BackedFrom'
           /\ \A w \in Works : Backed(w) => Backed(w)'
<1>1. ASSUME NEW m, m.type \in {"consolidate_annotations", "consolidation_failed"} =>
                     <<m.run, m.n>> \in PlanRuns \X Rounds,
             Backed(m)
      PROVE  Backed(m)'
  BY <1>1, RevisionsStay DEF Backed
<1>2. ASSUME NEW m \in ToSandboxMessages \cup FromSandboxMessages \cup Works,
             m.type \in {"consolidate_annotations", "consolidation_failed"}
      PROVE  <<m.run, m.n>> \in PlanRuns \X Rounds
  BY <1>2 DEF ToSandboxMessages, FromSandboxMessages, Works, Idle, Msg
<1>3. QED
  BY <1>1, <1>2 DEF BackedTo, BackedFrom

\* What the handlers send, other than a consolidation, needs no revision.
LEMMA PlainMessages ==
    /\ \A r \in PlanRuns : /\ Msg("plan", r, 0) \in BackedTo
                           /\ Msg("execute", r, 0) \in BackedTo
    /\ \A r \in TurnRuns : Msg("agent_turn", r, 0) \in BackedTo
    /\ \A r \in PlanRuns, n \in Rounds : Msg("refine_plan", r, n) \in BackedTo
    /\ \A r \in Owners : Msg("create_pr", r, 0) \in BackedTo
    /\ Msg("init", NoRun, 0) \in BackedTo
BY DEF Msg, BackedTo, Backed, ToSandboxMessages

LEMMA SentBacked ==
    ASSUME BackedInv, NEW m \in BackedTo, NEW up
    PROVE  Sent(m, up) \in Seq(BackedTo)
BY AppendProperties DEF Sent, BackedInv

LEMMA StartBacked ==
    ASSUME BackedInv, NEW r \in Runs, NEW up, StartAgentRun(r, up)
    PROVE  toSandbox' \in Seq(BackedTo)
BY PlainMessages, SentBacked DEF StartAgentRun, Runs

LEMMA FinishBacked ==
    ASSUME TypeInv, BackedInv, NEW s, NEW o, FinishRun(s, o)
    PROVE  toSandbox' \in Seq(BackedTo)
<1>1. CASE NoneWaiting(s) \/ AllWaitingFail(s)
  BY <1>1 DEF NoneWaiting, AllWaitingFail, BackedInv
<1>2. CASE NextStarts(s)
  <2>1. Head(queue) \in Runs
    BY <1>2, HeadTailProperties DEF NextStarts, TypeInv, TypeOK, RunTypeOK
  <2>2. QED
    BY <1>2, <2>1, StartBacked DEF NextStarts
<1>3. QED
  BY <1>1, <1>2 DEF FinishRun

LEMMA SettleBacked ==
    ASSUME TypeInv, BackedInv, NEW o, SettleActiveRun(o)
    PROVE  toSandbox' \in Seq(BackedTo)
BY FinishBacked DEF SettleActiveRun, runVars, BackedInv

LEMMA DrainBacked ==
    ASSUME TypeInv, BackedInv, NEW s, NEW up, DrainQueuedWork(s, up)
    PROVE  toSandbox' \in Seq(BackedTo)
<1>1. CASE queue # <<>>
  <2>1. Head(queue) \in Runs
    BY <1>1, HeadTailProperties DEF TypeInv, TypeOK, RunTypeOK
  <2>2. QED
    BY <2>1, StartBacked DEF DrainQueuedWork, BackedInv
<1>2. CASE queue = <<>>
  BY <1>2 DEF DrainQueuedWork, BackedInv
<1>3. QED
  BY <1>1, <1>2

LEMMA CommandBacked ==
    ASSUME TypeInv, ReviewInv, Command
    PROVE  toSandbox' \in Seq(BackedTo)
<1>1. ASSUME NEW r \in Runs, AgentRequest(r) PROVE toSandbox' \in Seq(BackedTo)
  <2>1. Head(Enqueued(r)) \in Runs
    BY AppendProperties, HeadTailProperties DEF Enqueued, TypeInv, TypeOK, RunTypeOK
  <2>2. QED
    BY <1>1, <2>1, StartBacked DEF AgentRequest, ReviewInv, BackedInv
<1>2. CASE Approve
  <2>1. active \in PlanRuns
    BY <1>2 DEF Approve, TypeInv, ReviewIsForPlanRuns
  <2>2. QED
    BY <1>2, <2>1, PlainMessages, SentBacked DEF Approve, ReviewInv
<1>3. CASE Refine
  <2>1. active \in PlanRuns /\ round \in Rounds \ {MaxRefinementRounds}
    BY <1>3, BoundsAssumption
       DEF Refine, MayRefine, TypeInv, TypeOK, RunTypeOK, ReviewIsForPlanRuns, Rounds
  <2>2. round + 1 \in Rounds
    BY <2>1, BoundsAssumption DEF Rounds
  <2>3. Msg("consolidate_annotations", active, round) \in BackedTo
    <3>1. Msg("consolidate_annotations", active, round) \in ToSandboxMessages
      BY <2>1, PlanRunMessages
    <3>2. revision[<<active, round>>] # NoPlan
      BY <1>3, <2>1 DEF Refine
    <3>3. QED
      BY <3>1, <3>2 DEF BackedTo, Backed, Msg
  <2>4. QED
    BY <1>3, <2>1, <2>2, <2>3, PlainMessages, SentBacked
       DEF Refine, DispatchProseBrief, ReviewInv
<1>4. QED
  BY <1>1, <1>2, <1>3 DEF Command

LEMMA OrchestratorBacked ==
    ASSUME TypeInv, ReviewInv, Orchestrator
    PROVE  toSandbox' \in Seq(BackedTo) /\ fromSandbox' \in Seq(BackedFrom)
<1>1. fromSandbox # <<>> /\ fromSandbox' = Tail(fromSandbox)
  BY DEF Orchestrator, IgnoreMessage, CloneStarted, CloneComplete, PlanReady,
         ConsolidationComplete, ConsolidationFailed, AgentTurnEnded, VerificationStarted,
         VerificationRetrying, VerificationFailed, ExecutionComplete, BranchPushed,
         ErrorFailsRun, ErrorEndsSession, Receive
<1>2. fromSandbox' \in Seq(BackedFrom)
  BY <1>1, HeadTailProperties DEF ReviewInv, BackedInv
<1>3. CASE \/ IgnoreMessage \/ CloneStarted \/ PlanReady \/ ConsolidationFailed
           \/ VerificationStarted \/ VerificationRetrying \/ BranchPushed \/ ErrorEndsSession
  BY <1>2, <1>3
     DEF IgnoreMessage, CloneStarted, PlanReady, ConsolidationFailed, VerificationStarted,
         VerificationRetrying, BranchPushed, ErrorEndsSession, EndSession, MoveSession, runVars,
         ReviewInv, BackedInv
<1>4. CASE CloneComplete
  BY <1>2, <1>4, DrainBacked DEF CloneComplete, ReviewInv
<1>5. CASE ConsolidationComplete
  <2>1. Message \in FromSandboxMessages /\ Message.type = "consolidation_complete"
    BY <1>5, ReceiveTypes DEF ConsolidationComplete
  <2>2. active \in PlanRuns /\ round \in Rounds \ {MaxRefinementRounds}
    BY <1>5, <2>1, FieldTypes
       DEF ConsolidationComplete, Accepts, ConsolidationIsCurrent, TypeInv, ReviewIsForPlanRuns
  <2>3. round + 1 \in Rounds
    BY <2>2, BoundsAssumption DEF Rounds
  <2>4. QED
    BY <1>2, <1>5, <2>2, <2>3, PlainMessages, SentBacked
       DEF ConsolidationComplete, DispatchProseBrief, ReviewInv
<1>6. CASE AgentTurnEnded \/ VerificationFailed \/ ErrorFailsRun
  BY <1>2, <1>6, SettleBacked DEF AgentTurnEnded, VerificationFailed, ErrorFailsRun, ReviewInv
<1>7. CASE ExecutionComplete
  BY <1>2, <1>7, PlainMessages, SentBacked
     DEF ExecutionComplete, ReviewInv, TypeInv, TypeOK, RunTypeOK
<1>8. QED
  BY <1>3, <1>4, <1>5, <1>6, <1>7 DEF Orchestrator

LEMMA SandboxBacked ==
    ASSUME TypeInv, ReviewInv, Sandbox
    PROVE  /\ toSandbox' \in Seq(BackedTo) /\ fromSandbox' \in Seq(BackedFrom)
           /\ Backed(work')
<1>1. CASE SandboxTake
  <2>1. Head(toSandbox) \in BackedTo /\ Tail(toSandbox) \in Seq(BackedTo)
    BY <1>1, HeadTailProperties DEF SandboxTake, ReviewInv, BackedInv
  <2>2. Backed(work')
    BY <1>1, <2>1 DEF SandboxTake, BackedTo
  <2>3. QED
    BY <1>1, <2>1, <2>2 DEF SandboxTake, ReviewInv, BackedInv
<1>2. CASE SandboxStep
  <2>1. PICK res \in Results(work) : fromSandbox' = Append(fromSandbox, res[1]) /\ work' = res[2]
    BY <1>2 DEF SandboxStep
  <2>2. work \in Works /\ work # Idle
    BY <1>2 DEF SandboxStep, TypeInv, TypeOK, RestTypeOK
  <2>3. res[1] \in FromSandboxMessages /\ res[2] \in Works
    BY <2>2, ResultTypes
  <2>4. Backed(res[1]) /\ Backed(res[2])
    <3>1. CASE work.type = "consolidate_annotations"
      <4>1. /\ res[1].run = work.run /\ res[1].n = work.n /\ res[2] = Idle
        BY <3>1 DEF Results, ConsolidateResults, Brief, Done, Msg
      <4>2. QED
        BY <3>1, <4>1 DEF ReviewInv, BackedInv, Backed, Idle, Msg
    <3>2. CASE work.type # "consolidate_annotations"
      <4>1. /\ res[1].type \notin {"consolidate_annotations", "consolidation_failed"}
            /\ res[2].type \notin {"consolidate_annotations", "consolidation_failed"}
        BY <2>2, <3>2
           DEF Results, CloneResults, PlanResults, RefineResults, TurnResults, ExecuteResults,
               VerificationResults, RepairResults, PushResults, VerifyResults, Verified,
               CommandEnds, StartThrows, SwitchThrows, GitThrows, Turn, Done, Error, Idle, Msg,
               Works, ToSandboxMessages
      <4>2. QED
        BY <4>1 DEF Backed
    <3>3. QED
      BY <3>1, <3>2
  <2>5. fromSandbox' \in Seq(BackedFrom)
    BY <2>1, <2>3, <2>4, AppendProperties DEF BackedFrom, ReviewInv, BackedInv
  <2>6. QED
    BY <1>2, <2>1, <2>4, <2>5 DEF SandboxStep, runVars, ReviewInv, BackedInv
<1>3. QED
  BY <1>1, <1>2 DEF Sandbox

LEMMA ConnectionBacked ==
    ASSUME TypeInv, ReviewInv, Connect \/ Disconnect \/ SandboxDestroyed
    PROVE  /\ toSandbox' \in Seq(BackedTo) /\ fromSandbox' \in Seq(BackedFrom)
           /\ work' \in {work, Idle}
<1> USE DEF ReviewInv, BackedInv
<1>1. ASSUME FlushOutbox PROVE fromSandbox' \in Seq(BackedFrom)
  BY <1>1, ElementOfSeq, LenProperties, SubSeqProperties DEF FlushOutbox
<1>2. CASE ConnectInitialize
  BY <1>1, <1>2, PlainMessages, AppendProperties DEF ConnectInitialize
<1>3. CASE ConnectResume
  BY <1>1, <1>3, DrainBacked DEF ConnectResume
<1>4. CASE Disconnect
  <2>1. toSandbox' \in Seq(BackedTo)
    BY <1>4, ElementOfSeq, LenProperties, SubSeqProperties DEF Disconnect
  <2>2. QED
    BY <1>4, <2>1 DEF Disconnect
<1>5. CASE SandboxDestroyed
  BY <1>5, EmptySeq DEF SandboxDestroyed
<1>6. QED
  BY <1>2, <1>3, <1>4, <1>5 DEF Connect

LEMMA BackedKept ==
    ASSUME TypeInv, ReviewInv, [Next]_vars
    PROVE  BackedInv'
<1>1. /\ toSandbox' \in Seq(BackedTo) /\ fromSandbox' \in Seq(BackedFrom)
      /\ Backed(work')
  <2>1. Backed(Idle)
    BY DEF Backed, Idle, Msg
  <2>2. CASE UNCHANGED vars
    BY <2>2 DEF vars, runVars, ReviewInv, BackedInv, Backed
  <2>3. CASE SessionEnds
    BY <2>3
       DEF SessionEnds, StopSession, MaxTimeExpired, ProvisioningTimedOut, ProvisioningFailed,
           ReconnectExpired, SandboxLost, ResumeFails, FailSession, EndSession, MoveSession,
           ReviewInv, BackedInv, Backed
  <2>4. CASE Command
    BY <2>4, CommandBacked DEF Command, AgentRequest, Approve, Refine, ReviewInv, BackedInv, Backed
  <2>5. CASE Orchestrator
    <3>1. work' = work
      BY <2>5
         DEF Orchestrator, IgnoreMessage, CloneStarted, CloneComplete, PlanReady,
             ConsolidationComplete, ConsolidationFailed, AgentTurnEnded, VerificationStarted,
             VerificationRetrying, VerificationFailed, ExecutionComplete, BranchPushed,
             ErrorFailsRun, ErrorEndsSession, Receive
    <3>2. QED
      BY <2>5, <3>1, OrchestratorBacked DEF ReviewInv, BackedInv, Backed
  <2>6. CASE Sandbox
    BY <2>6, SandboxBacked
  <2>7. CASE PullRequestSettled
    BY <2>7, SettleBacked DEF PullRequestSettled, SettlePullRequest, ReviewInv, BackedInv, Backed
  <2>8. CASE Connect \/ Disconnect \/ SandboxDestroyed
    BY <2>1, <2>8, ConnectionBacked DEF ReviewInv, BackedInv, Backed
  <2>9. CASE Abort
    BY <2>9, FinishBacked DEF Abort, ReviewInv, BackedInv, Backed
  <2>10. QED
    BY <2>2, <2>3, <2>4, <2>5, <2>6, <2>7, <2>8, <2>9 DEF Next, Uninterrupted
<1>2. work' \in Works
  BY TypesKept DEF TypeInv, TypeOK, RestTypeOK
<1>3. toSandbox' \in Seq(BackedTo') /\ fromSandbox' \in Seq(BackedFrom')
  BY <1>1, BackingStays, SeqMonotonic
<1>4. Backed(work)'
  <2>1. work'.type \in {"consolidate_annotations", "consolidation_failed"} =>
          <<work'.run, work'.n>> \in PlanRuns \X Rounds
    BY <1>2 DEF Works, ToSandboxMessages, Idle, Msg
  <2>2. QED
    BY <1>1, <2>1, RevisionsStay DEF Backed
<1>5. QED
  BY <1>3, <1>4 DEF BackedInv

\* The steps that leave a run under review.
LEMMA ReviewSteps ==
    ASSUME TypeInv, [Next]_vars, state' = "awaiting_approval"
    PROVE  UNCHANGED <<state, active, round>> \/ PlanReady \/ ConsolidationFailed
<1>1. CASE UNCHANGED vars \/ Sandbox \/ SessionEnds
  BY <1>1
     DEF vars, runVars, Sandbox, SandboxTake, SandboxStep, SessionEnds, StopSession,
         MaxTimeExpired, ProvisioningTimedOut, ProvisioningFailed, ReconnectExpired, SandboxLost,
         ResumeFails, FailSession, EndSession, MoveSession
<1>2. ASSUME NEW s, NEW o, FinishRun(s, o), s # "awaiting_approval" PROVE FALSE
  BY <1>2 DEF FinishRun, NoneWaiting, NextStarts, AllWaitingFail, StartAgentRun
<1>3. ASSUME NEW o, SettleActiveRun(o) PROVE UNCHANGED <<state, active, round>>
  <2>1. AfterRun # "awaiting_approval"
    <3>1. state \in SessionStates
      BY DEF TypeInv, TypeOK, RunTypeOK
    <3>2. state = "awaiting_approval" => IsValidTransition(state, "ready")
      BY <3>1, ReadyIsReachable
    <3>3. QED
      BY <3>2 DEF AfterRun, IsValidTransition
  <2>2. QED
    BY <1>2, <1>3, <2>1 DEF SettleActiveRun, runVars
<1>4. CASE Command
  BY <1>4 DEF Command, AgentRequest, Approve, Refine, MoveRun, StartAgentRun
<1>5. CASE Orchestrator
  <2>1. CASE IgnoreMessage \/ BranchPushed
    BY <2>1 DEF IgnoreMessage, BranchPushed, runVars
  <2>2. CASE AgentTurnEnded \/ VerificationFailed \/ ErrorFailsRun
    BY <1>3, <2>2 DEF AgentTurnEnded, VerificationFailed, ErrorFailsRun
  <2>3. CASE ConsolidationComplete
    <3>1. Message.type = "consolidation_complete"
      BY <2>3 DEF ConsolidationComplete, Receive
    <3>2. state = "refining" /\ state' = state
      BY <2>3, <3>1 DEF ConsolidationComplete, Accepts, ConsolidationIsCurrent
    <3>3. QED
      BY <3>2
  <2>4. CASE VerificationStarted
    <3>1. Message.type = "verification_started"
      BY <2>4 DEF VerificationStarted, Receive
    <3>2. QED
      BY <2>4, <3>1 DEF VerificationStarted, Accepts, MoveRun
  <2>5. CASE \/ CloneStarted \/ CloneComplete \/ VerificationRetrying \/ ExecutionComplete
             \/ ErrorEndsSession
    BY <2>5
       DEF CloneStarted, CloneComplete, VerificationRetrying, ExecutionComplete, ErrorEndsSession,
           EndSession, MoveSession, MoveRun, DrainQueuedWork, StartAgentRun
  <2>6. QED
    BY <1>5, <2>1, <2>2, <2>3, <2>4, <2>5 DEF Orchestrator
<1>6. CASE PullRequestSettled
  BY <1>3, <1>6 DEF PullRequestSettled, SettlePullRequest
<1>7. CASE Connect \/ Disconnect \/ SandboxDestroyed
  BY <1>7
     DEF Connect, ConnectInitialize, ConnectResume, Disconnect, SandboxDestroyed,
         DrainQueuedWork, StartAgentRun
<1>8. CASE Abort
  BY <1>2, <1>8 DEF Abort
<1>9. QED
  BY <1>1, <1>4, <1>5, <1>6, <1>7, <1>8 DEF Next, Uninterrupted

LEMMA ReviewKept ==
    ASSUME TypeInv, ReviewInv, [Next]_vars
    PROVE  ReviewHasRevision'
<1> SUFFICES ASSUME state' = "awaiting_approval"
             PROVE  active' \in PlanRuns /\ revision'[<<active', round'>>] # NoPlan
  BY DEF ReviewHasRevision
<1>1. active' \in PlanRuns /\ round' \in Rounds
  BY TypesKept DEF TypeInv, TypeOK, RunTypeOK, ReviewIsForPlanRuns
<1>2. CASE UNCHANGED <<state, active, round>>
  BY <1>1, <1>2, RevisionsStay DEF ReviewInv, ReviewHasRevision
<1>3. CASE PlanReady
  <2>1. Message \in FromSandboxMessages /\ Message.type = "plan_ready"
    BY <1>3, ReceiveTypes DEF PlanReady
  <2>2. [run |-> Message.run, n |-> Message.n] # NoPlan
    BY <2>1, RunsAssumption DEF FromSandboxMessages, NoPlan, Runs
  <2>3. active' = active /\ round' = round
    BY <1>3 DEF PlanReady, MoveRun
  <2>4. QED
    BY <1>1, <1>3, <2>2, <2>3 DEF PlanReady, FreezePlanRevision, TypeInv, TypeOK, RestTypeOK
<1>4. CASE ConsolidationFailed
  <2>1. fromSandbox # <<>> /\ Message.type = "consolidation_failed"
    BY <1>4 DEF ConsolidationFailed, Receive
  <2>2. active = Message.run /\ round = Message.n
    BY <1>4, <2>1 DEF ConsolidationFailed, Accepts, ConsolidationIsCurrent
  <2>3. Backed(Message)
    BY <2>1, HeadTailProperties DEF ReviewInv, BackedInv, BackedFrom, Message
  <2>4. active' = active /\ round' = round /\ revision' = revision
    BY <1>4 DEF ConsolidationFailed, MoveRun, revisionVars
  <2>5. QED
    BY <1>1, <2>1, <2>2, <2>3, <2>4 DEF Backed
<1>5. QED
  BY <1>2, <1>3, <1>4, ReviewSteps

LEMMA InitReview ==
    ASSUME Init
    PROVE  ReviewInv
<1>1. toSandbox \in Seq(BackedTo) /\ fromSandbox \in Seq(BackedFrom)
  BY EmptySeq DEF Init
<1>2. Backed(work)
  BY DEF Init, Backed, Idle, Msg
<1>3. ReviewHasRevision
  BY DEF Init, ReviewHasRevision
<1>4. QED
  BY <1>1, <1>2, <1>3 DEF ReviewInv, BackedInv

\* A run is under review only with the revision to review, although messages
\* of other runs and rounds may still be on the wire.
THEOREM ReviewIsBacked == Spec => []ReviewHasRevision
<1>1. Init => TypeInv /\ ReviewInv
  BY InitTypes, InitReview
<1>2. TypeInv /\ ReviewInv /\ [Next]_vars => (TypeInv /\ ReviewInv)'
  BY TypesKept, BackedKept, ReviewKept DEF ReviewInv
<1>3. ReviewInv => ReviewHasRevision
  BY DEF ReviewInv
<1>4. QED
  BY <1>1, <1>2, <1>3, PTL DEF Spec

-----------------------------------------------------------------------------
(* The runs that were taken up *)

TakenUp == {requests[i] : i \in 1 .. Taken}

\* No request is in the log twice, so a run that waits was never taken up.
RequestedOnce ==
    \A i, j \in 1 .. Len(requests) : requests[i] = requests[j] => i = j

LEMMA WaitingIsNew ==
    ASSUME TypeOK, QueueInv, RequestedOnce
    PROVE  /\ \A i \in DOMAIN queue : queue[i] \in Runs \ TakenUp
           /\ active # NoRun => active \in TakenUp
<1>1. /\ queue \in Seq(Runs) /\ Len(queue) \in Nat /\ DOMAIN queue = 1 .. Len(queue)
      /\ requests \in Seq(Runs) /\ Len(requests) \in Nat
      /\ \A i \in 1 .. Len(queue) : queue[i] \in Runs
  BY LenProperties, ElementOfSeq DEF TypeOK, RunTypeOK, RestTypeOK
<1>2. ASSUME NEW i \in DOMAIN queue, queue[i] \in TakenUp PROVE FALSE
  <2>1. PICK j \in 1 .. Taken : queue[i] = requests[j]
    BY <1>2 DEF TakenUp
  <2>2. Taken + i \in 1 .. Len(requests) /\ j \in 1 .. Len(requests) /\ Taken + i # j
    BY <1>1 DEF QueueInv, Taken
  <2>3. queue[i] = requests[Taken + i]
    BY <1>1 DEF QueueInv
  <2>4. QED
    BY <2>1, <2>2, <2>3 DEF RequestedOnce
<1>3. active # NoRun => active \in TakenUp
  <2>1. HAVE active # NoRun
  <2>2. QED
    BY <2>1 DEF QueueInv, ActiveIs, TakenUp
<1>4. QED
  BY <1>1, <1>2, <1>3

\* The run that starts is the oldest one waiting, or the new one.
LEMMA HeadIsNew ==
    ASSUME TypeOK, QueueInv, RequestedOnce, queue # <<>>
    PROVE  Head(queue) \in Runs \ TakenUp
<1>1. 1 \in DOMAIN queue /\ Head(queue) = queue[1]
  BY EmptySeq, LenProperties DEF TypeOK, RunTypeOK
<1>2. QED
  BY <1>1, WaitingIsNew

LEMMA NewcomerIsNew ==
    ASSUME TypeOK, QueueInv, RequestedOnce, NEW r \in Runs, AgentRequest(r)
    PROVE  Head(Enqueued(r)) \in Runs \ TakenUp
<1>1. queue \in Seq(Runs) /\ Len(queue) \in Nat /\ requests \in Seq(Runs) /\ Len(requests) \in Nat
  BY LenProperties DEF TypeOK, RunTypeOK, RestTypeOK
<1>2. r \notin TakenUp
  <2>1. Taken <= Len(requests)
    BY <1>1 DEF Taken
  <2>2. \A i \in 1 .. Len(requests) : requests[i] # r
    BY <1>1, LenProperties DEF AgentRequest
  <2>3. QED
    BY <1>1, <2>1, <2>2 DEF TakenUp, Taken
<1>3. CASE queue = <<>>
  <2>1. Head(Enqueued(r)) = r
    BY <1>1, <1>3, AppendProperties DEF Enqueued
  <2>2. QED
    BY <1>2, <2>1
<1>4. CASE queue # <<>>
  <2>1. Head(Enqueued(r)) = Head(queue)
    <3>1. Len(queue) > 0
      BY <1>1, <1>4, EmptySeq
    <3>2. Enqueued(r)[1] = queue[1]
      BY <1>1, <3>1, AppendProperties DEF Enqueued
    <3>3. Enqueued(r) \in Seq(Runs) /\ Enqueued(r) # <<>>
      BY <1>1, AppendProperties DEF Enqueued
    <3>4. QED
      BY <1>1, <1>4, <3>2, <3>3
  <2>2. QED
    BY <1>4, <2>1, HeadIsNew
<1>5. QED
  BY <1>3, <1>4

\* Nothing that was taken up goes back.
LEMMA TakenUpGrows ==
    ASSUME TypeOK, QueueInv, RequestedOnce, [Next]_vars
    PROVE  /\ RequestedOnce'
           /\ TakenUp \subseteq TakenUp'
           /\ UNCHANGED <<queue, requests>> => TakenUp' = TakenUp
<1>1. /\ queue \in Seq(Runs) /\ Len(queue) \in Nat
      /\ requests \in Seq(Runs) /\ Len(requests) \in Nat
  BY LenProperties DEF TypeOK, RunTypeOK, RestTypeOK
<1>2. CASE UNCHANGED <<queue, requests>>
  BY <1>2 DEF RequestedOnce, TakenUp, Taken
<1>3. CASE OldestStarts \/ AllSettled
  <2>1. requests' = requests /\ Len(queue') \in Nat /\ Len(queue') <= Len(queue)
    BY <1>1, <1>3, HeadTailProperties, EmptySeq DEF OldestStarts, AllSettled
  <2>2. 1 .. Taken \subseteq 1 .. Taken'
    BY <1>1, <2>1 DEF Taken
  <2>3. Len(queue') = Len(queue) => Taken' = Taken
    BY <2>1 DEF Taken
  <2>4. QED
    BY <2>1, <2>2, <2>3 DEF RequestedOnce, TakenUp
<1>4. CASE \E r \in Runs : AgentRequest(r)
  <2>1. PICK r \in Runs : AgentRequest(r)
    BY <1>4
  <2>2. /\ Len(requests') = Len(requests) + 1
        /\ \A i \in 1 .. Len(requests) : requests'[i] = requests[i]
        /\ requests'[Len(requests) + 1] = r
        /\ \A i \in 1 .. Len(requests) : requests[i] # r
    BY <1>1, <2>1, AppendProperties, LenProperties DEF AgentRequest
  <2>3. /\ Len(Enqueued(r)) = Len(queue) + 1 /\ Enqueued(r) \in Seq(Runs) /\ Enqueued(r) # <<>>
    BY <1>1, AppendProperties DEF Enqueued
  <2>4. Len(queue') \in {Len(queue), Len(queue) + 1}
    BY <1>1, <2>1, <2>3, HeadTailProperties DEF AgentRequest
  <2>5. RequestedOnce'
    <3>1. SUFFICES ASSUME NEW i \in 1 .. Len(requests) + 1, NEW j \in 1 .. Len(requests) + 1,
                          requests'[i] = requests'[j]
                   PROVE  i = j
      BY <2>2 DEF RequestedOnce
    <3>2. \A k \in 1 .. Len(requests) + 1 : k \in 1 .. Len(requests) \/ k = Len(requests) + 1
      BY <1>1
    <3>3. QED
      BY <2>2, <3>1, <3>2 DEF RequestedOnce
  <2>6. TakenUp \subseteq TakenUp'
    <3>1. 1 .. Taken \subseteq 1 .. Taken' /\ 1 .. Taken \subseteq 1 .. Len(requests)
      BY <1>1, <2>2, <2>4 DEF Taken
    <3>2. QED
      BY <2>2, <3>1 DEF TakenUp
  <2>7. requests' # requests
    BY <1>1, <2>2
  <2>8. QED
    BY <2>5, <2>6, <2>7
<1>5. CASE FailSession
  <2>1. requests' = requests /\ Len(queue') = 0
    BY <1>5, EmptySeq DEF FailSession
  <2>2. 1 .. Taken \subseteq 1 .. Taken'
    BY <1>1, <2>1 DEF Taken
  <2>3. Len(queue') = Len(queue) => Taken' = Taken
    BY <2>1 DEF Taken
  <2>4. QED
    BY <2>1, <2>2, <2>3 DEF RequestedOnce, TakenUp
<1>6. QED
  BY <1>2, <1>3, <1>4, <1>5, QueueSteps DEF Untouched

-----------------------------------------------------------------------------
(* The outcome of a run *)

\* A run that was not taken up has no outcome, nor has the one at work, unless
\* the Session is over.
OutcomeInv ==
    /\ RequestedOnce
    /\ \A r \in Runs \ TakenUp : outcome[r] = "none"
    /\ active # NoRun /\ ~Terminal => outcome[active] = "none"

\* The ways a step can treat outcomes.
OutcomesKept ==
    UNCHANGED <<outcome, active>> /\ (Terminal => Terminal')
RunStarts ==
    outcome' = outcome /\ active' \in Runs \ TakenUp
RunFinishes ==
    /\ active # NoRun /\ requests' = requests
    /\ ~Terminal \/ publishing' # publishing
    /\ \E s, o : FinishRun(s, o)
RunsFail == ReconnectExpired \/ FailSession

LEMMA DrainOutcome ==
    ASSUME TypeOK, QueueInv, RequestedOnce, NEW s, NEW up, DrainQueuedWork(s, up),
           s = state \/ ~Terminal
    PROVE  OutcomesKept \/ RunStarts
BY HeadIsNew DEF DrainQueuedWork, StartAgentRun, OutcomesKept, RunStarts, Terminal

LEMMA SettleOutcome ==
    ASSUME NEW o, SettleActiveRun(o), requests' = requests, ~Terminal \/ publishing' # publishing
    PROVE  OutcomesKept \/ RunFinishes
BY DEF SettleActiveRun, runVars, OutcomesKept, RunFinishes, Terminal

LEMMA OutcomeSteps ==
    ASSUME TypeOK, QueueInv, RequestedOnce, [Next]_vars
    PROVE  OutcomesKept \/ RunStarts \/ RunFinishes \/ RunsFail
<1>1. CASE UNCHANGED vars
  BY <1>1 DEF vars, runVars, OutcomesKept, Terminal
<1>2. CASE Command
  <2>1. ASSUME NEW r \in Runs, AgentRequest(r) PROVE OutcomesKept \/ RunStarts
    BY <2>1, NewcomerIsNew DEF AgentRequest, StartAgentRun, OutcomesKept, RunStarts, Terminal
  <2>2. CASE Approve \/ Refine
    BY <2>2, TerminalStays DEF Approve, Refine, MoveRun, OutcomesKept
  <2>3. QED
    BY <1>2, <2>1, <2>2 DEF Command
<1>3. CASE SessionEnds
  BY <1>3 DEF SessionEnds, StopSession, MaxTimeExpired, ProvisioningTimedOut, ProvisioningFailed,
              SandboxLost, ResumeFails, RunsFail, EndSession, MoveSession, OutcomesKept
<1>4. CASE Sandbox
  BY <1>4 DEF Sandbox, SandboxTake, SandboxStep, runVars, OutcomesKept, Terminal
<1>5. CASE Orchestrator
  <2>1. CASE IgnoreMessage \/ BranchPushed
    BY <2>1 DEF IgnoreMessage, BranchPushed, runVars, OutcomesKept, Terminal
  <2>2. CASE ErrorEndsSession \/ CloneStarted
    BY <2>2, TerminalStays DEF ErrorEndsSession, EndSession, CloneStarted, MoveSession, OutcomesKept
  <2>3. CASE CloneComplete
    <3>1. state = "cloning_repo"
      BY <2>3 DEF CloneComplete, Receive, Accepts
    <3>2. ~Terminal
      BY <3>1 DEF Terminal, IsTerminalState, Transitions
    <3>3. QED
      BY <2>3, <3>2, DrainOutcome DEF CloneComplete
  <2>4. CASE AgentTurnEnded \/ VerificationFailed \/ ErrorFailsRun
    <3>1. state \in {"executing", "verifying"}
      <4>1. CASE AgentTurnEnded
        BY <4>1 DEF AgentTurnEnded, Receive, Accepts, TurnIsCurrent
      <4>2. CASE VerificationFailed
        BY <4>2 DEF VerificationFailed, Receive, Accepts
      <4>3. QED
        BY <2>4, <4>1, <4>2 DEF ErrorFailsRun
    <3>2. ~Terminal
      BY <3>1 DEF Terminal, IsTerminalState, Transitions
    <3>3. QED
      BY <2>4, <3>2, SettleOutcome DEF AgentTurnEnded, VerificationFailed, ErrorFailsRun, Receive
  <2>5. CASE PlanReady \/ ConsolidationFailed \/ VerificationRetrying \/ ExecutionComplete
    BY <2>5, TerminalStays
       DEF PlanReady, ConsolidationFailed, VerificationRetrying, ExecutionComplete, MoveRun,
           OutcomesKept
  <2>6. CASE ConsolidationComplete
    BY <2>6 DEF ConsolidationComplete, OutcomesKept, Terminal
  <2>7. CASE VerificationStarted
    BY <2>7, TerminalStays DEF VerificationStarted, MoveRun, OutcomesKept, Terminal
  <2>8. QED
    BY <1>5, <2>1, <2>2, <2>3, <2>4, <2>5, <2>6, <2>7 DEF Orchestrator
<1>6. CASE PullRequestSettled
  <2>1. publishing' # publishing
    BY <1>6 DEF PullRequestSettled, SettlePullRequest
  <2>2. QED
    BY <1>6, <2>1, SettleOutcome DEF PullRequestSettled, SettlePullRequest
<1>7. CASE Connect \/ Disconnect \/ SandboxDestroyed
  BY <1>7, DrainOutcome DEF Connect, ConnectInitialize, ConnectResume, Disconnect, SandboxDestroyed,
                            OutcomesKept, Terminal
<1>8. CASE Abort
  BY <1>8, TerminalStays DEF Abort, RunFinishes
<1>9. QED
  BY <1>1, <1>2, <1>3, <1>4, <1>5, <1>6, <1>7, <1>8 DEF Next, Uninterrupted

\* What a finished run leaves behind: its own outcome, and with the queue given
\* up a failure of all that waited.
LEMMA FinishedRuns ==
    ASSUME TypeOK, QueueInv, RequestedOnce, RunFinishes, NEW r \in Runs
    PROVE  /\ r \notin TakenUp' => r # active /\ outcome'[r] = outcome[r]
           /\ active' # NoRun => active' # active /\ outcome'[active'] = outcome[active']
                                 /\ active' \in Runs \ TakenUp
           /\ outcome'[r] # outcome[r] => r = active \/ r \in Runs \ TakenUp
<1>1. PICK s, o : FinishRun(s, o)
  BY DEF RunFinishes
<1>2. /\ queue \in Seq(Runs) /\ Len(queue) \in Nat /\ DOMAIN queue = 1 .. Len(queue)
      /\ requests \in Seq(Runs) /\ Len(requests) \in Nat
  BY LenProperties DEF TypeOK, RunTypeOK, RestTypeOK
<1>3. active \in TakenUp /\ active # NoRun /\ requests' = requests
  BY WaitingIsNew DEF RunFinishes
<1>4. TakenUp \subseteq TakenUp'
  <2>1. Len(queue') \in Nat /\ Len(queue') <= Len(queue)
    BY <1>1, <1>2, HeadTailProperties, EmptySeq
       DEF FinishRun, NoneWaiting, NextStarts, AllWaitingFail
  <2>2. 1 .. Taken \subseteq 1 .. Taken'
    BY <1>2, <1>3, <2>1 DEF Taken
  <2>3. QED
    BY <1>3, <2>2 DEF TakenUp
<1>5. CASE queue # <<>> /\ s # "ready"
  <2>1. active' = NoRun /\ queue' = <<>>
    BY <1>1, <1>5 DEF FinishRun, NoneWaiting, NextStarts, AllWaitingFail
  <2>2. \A i \in DOMAIN queue : queue[i] \in TakenUp'
    <3>1. TAKE i \in DOMAIN queue
    <3>2. Taken + i \in 1 .. Len(requests) /\ queue[i] = requests[Taken + i]
      BY <1>2 DEF QueueInv, Taken
    <3>3. Taken' = Len(requests)
      BY <1>2, <1>3, <2>1, EmptySeq DEF Taken
    <3>4. QED
      BY <1>3, <3>2, <3>3 DEF TakenUp
  <2>3. outcome'[r] # outcome[r] => r = active \/ \E i \in DOMAIN queue : r = queue[i]
    BY <1>1, <1>5 DEF FinishRun
  <2>4. QED
    BY <1>3, <1>4, <2>1, <2>2, <2>3, WaitingIsNew
<1>6. CASE ~(queue # <<>> /\ s # "ready")
  <2>1. \A q \in Runs : outcome'[q] = IF q = active THEN o ELSE outcome[q]
    BY <1>1, <1>6 DEF FinishRun
  <2>2. active' # NoRun => active' = Head(queue) /\ queue # <<>>
    BY <1>1, <1>6 DEF FinishRun, NoneWaiting, NextStarts, AllWaitingFail, StartAgentRun
  <2>3. active' # NoRun => active' \in Runs \ TakenUp
    BY <2>2, HeadIsNew
  <2>4. QED
    BY <1>3, <1>4, <2>1, <2>3
<1>7. QED
  BY <1>5, <1>6

\* The runs that fail with their Session are the active one, if it was at work,
\* and those that waited, which count as taken up from then on.
LEMMA FailedRuns ==
    ASSUME TypeOK, QueueInv, RequestedOnce, RunsFail, NEW r \in Runs
    PROVE  /\ ~Terminal /\ Terminal'
           /\ outcome'[r] # outcome[r] => r = active \/ r \in Runs \ TakenUp
           /\ outcome'[r] # outcome[r] => r \in TakenUp'
<1>1. ~Terminal /\ Terminal'
  BY TerminalStates DEF RunsFail, ReconnectExpired, FailSession, Terminal, SessionStates
<1>2. /\ queue \in Seq(Runs) /\ Len(queue) \in Nat /\ DOMAIN queue = 1 .. Len(queue)
      /\ requests \in Seq(Runs) /\ Len(requests) \in Nat
  BY LenProperties DEF TypeOK, RunTypeOK, RestTypeOK
<1>3. r = active => active \in TakenUp
  BY RunsAssumption, WaitingIsNew
<1>4. CASE ReconnectExpired
  <2>1. TakenUp' = TakenUp
    BY <1>4 DEF ReconnectExpired, TakenUp, Taken
  <2>2. outcome'[r] # outcome[r] => r = active
    BY <1>4 DEF ReconnectExpired
  <2>3. QED
    BY <1>1, <1>3, <2>1, <2>2
<1>5. CASE FailSession
  <2>1. requests' = requests /\ Taken' = Len(requests)
    BY <1>2, <1>5, EmptySeq DEF FailSession, Taken
  <2>2. outcome'[r] # outcome[r] => r = active \/ \E i \in DOMAIN queue : r = queue[i]
    BY <1>5 DEF FailSession
  <2>3. \A i \in DOMAIN queue : queue[i] \in TakenUp'
    <3>1. TAKE i \in DOMAIN queue
    <3>2. Taken + i \in 1 .. Len(requests) /\ queue[i] = requests[Taken + i]
      BY <1>2 DEF QueueInv, Taken
    <3>3. QED
      BY <2>1, <3>2 DEF TakenUp
  <2>4. TakenUp \subseteq TakenUp'
    <3>1. 1 .. Taken \subseteq 1 .. Taken'
      BY <1>2, <2>1 DEF Taken
    <3>2. QED
      BY <2>1, <3>1 DEF TakenUp
  <2>5. QED
    BY <1>1, <1>3, <2>2, <2>3, <2>4, WaitingIsNew
<1>6. QED
  BY <1>4, <1>5 DEF RunsFail

LEMMA OutcomeKept ==
    ASSUME TypeOK, QueueInv, OutcomeInv, [Next]_vars
    PROVE  OutcomeInv'
<1>1. RequestedOnce' /\ TakenUp \subseteq TakenUp'
  BY TakenUpGrows DEF OutcomeInv
<1>2. CASE OutcomesKept
  BY <1>1, <1>2 DEF OutcomeInv, OutcomesKept
<1>3. CASE RunStarts
  BY <1>1, <1>3 DEF OutcomeInv, RunStarts
<1>4. CASE RunFinishes
  <2>1. \A r \in Runs \ TakenUp' : outcome'[r] = "none"
    BY <1>1, <1>4, FinishedRuns DEF OutcomeInv
  <2>2. active' # NoRun => outcome'[active'] = "none"
    <3>1. HAVE active' # NoRun
    <3>2. active \in Runs
      BY <1>4 DEF RunFinishes, TypeOK, RunTypeOK, Owners
    <3>3. outcome'[active'] = outcome[active'] /\ active' \in Runs \ TakenUp
      BY <1>4, <3>1, <3>2, FinishedRuns DEF OutcomeInv
    <3>4. QED
      BY <3>3 DEF OutcomeInv
  <2>3. QED
    BY <1>1, <2>1, <2>2 DEF OutcomeInv
<1>5. CASE RunsFail
  <2>1. \A r \in Runs \ TakenUp' : Terminal' /\ outcome'[r] = outcome[r]
    BY <1>5, FailedRuns DEF OutcomeInv
  <2>2. Terminal'
    BY <1>5, TerminalStates DEF RunsFail, ReconnectExpired, FailSession, Terminal, SessionStates
  <2>3. QED
    BY <1>1, <2>1, <2>2 DEF OutcomeInv
<1>6. QED
  BY <1>2, <1>3, <1>4, <1>5, OutcomeSteps DEF OutcomeInv

LEMMA OutcomeStands ==
    ASSUME TypeOK, QueueInv, OutcomeInv, [Next]_vars, NEW r \in Runs,
           outcome[r] \notin {"none", outcome'[r]}
    PROVE  publishing' # publishing
<1>1. ~OutcomesKept /\ ~RunStarts
  BY DEF OutcomesKept, RunStarts
<1>2. ~RunsFail
  <2>1. SUFFICES ASSUME RunsFail PROVE FALSE
    OBVIOUS
  <2>2. ~Terminal /\ (r = active \/ r \in Runs \ TakenUp)
    BY <2>1, FailedRuns DEF OutcomeInv
  <2>3. QED
    BY <2>2, RunsAssumption DEF OutcomeInv
<1>3. RunFinishes
  BY <1>1, <1>2, OutcomeSteps DEF OutcomeInv
<1>4. r = active \/ r \in Runs \ TakenUp
  BY <1>3, FinishedRuns DEF OutcomeInv
<1>5. r = active /\ active # NoRun
  BY <1>3, <1>4 DEF OutcomeInv, RunFinishes
<1>6. Terminal
  BY <1>5 DEF OutcomeInv
<1>7. QED
  BY <1>3, <1>6 DEF RunFinishes

\* A run gets one outcome, however often it is aborted, failed or settled; only
\* a pull request that GitHub answers late may give it another.
THEOREM OutcomesStand == Spec => OutcomeIsFinal
<1>1. Init => QueueInv /\ OutcomeInv
  <2>1. HAVE Init
  <2>2. QueueInv
    BY <2>1, EmptySeq DEF Init, QueueInv, Taken
  <2>3. RequestedOnce
    BY <2>1, EmptySeq DEF Init, RequestedOnce
  <2>4. QED
    BY <2>1, <2>2, <2>3 DEF Init, OutcomeInv
<1>2. TypeOK /\ QueueInv /\ OutcomeInv /\ [Next]_vars => QueueInv' /\ OutcomeInv'
  BY QueueInvKept, OutcomeKept
<1>3. TypeOK /\ QueueInv /\ OutcomeInv /\ [Next]_vars =>
        \A r \in Runs : outcome[r] \notin {"none", outcome'[r]} => publishing' # publishing
  BY OutcomeStands
<1>4. QED
  BY <1>1, <1>2, <1>3, TypeCorrect, PTL DEF Spec, OutcomeIsFinal

-----------------------------------------------------------------------------
(* The plan of the run under review *)

\* What is on its way to the sandbox, at work in it, or on its way back.
InFlight ==
    {work} \cup {toSandbox[i] : i \in 1 .. Len(toSandbox)}
           \cup {fromSandbox[i] : i \in 1 .. Len(fromSandbox)}

\* Message m is, or its answer will be, the plan of run r for round n.
PlanWork == {"plan", "refine_plan", "plan_ready"}
Writes(m, r, n) == m.type \in PlanWork /\ m.run = r /\ m.n = n

\* Each plan is asked for and sent once.
WrittenOnce ==
    \A r \in PlanRuns, n \in Rounds :
        /\ \A i, j \in 1 .. Len(toSandbox) :
              Writes(toSandbox[i], r, n) /\ Writes(toSandbox[j], r, n) => i = j
        /\ \A i, j \in 1 .. Len(fromSandbox) :
              Writes(fromSandbox[i], r, n) /\ Writes(fromSandbox[j], r, n) => i = j
        /\ \A i \in 1 .. Len(toSandbox), j \in 1 .. Len(fromSandbox) :
              ~(Writes(toSandbox[i], r, n) /\ Writes(fromSandbox[j], r, n))
        /\ Writes(work, r, n) =>
              /\ \A i \in 1 .. Len(toSandbox) : ~Writes(toSandbox[i], r, n)
              /\ \A i \in 1 .. Len(fromSandbox) : ~Writes(fromSandbox[i], r, n)

\* Whatever is in flight concerns a run that was taken up, a plan of the active
\* run no later round, and a consolidation a revision that exists.
Consolidations == {"consolidate_annotations", "consolidation_complete", "consolidation_failed"}
Known ==
    \A m \in InFlight :
        /\ m.run # NoRun => m.run \in TakenUp
        /\ m.run = active /\ m.type \in PlanWork => m.n <= round
        /\ m.type \in Consolidations => revision[<<m.run, m.n>>] # NoPlan

\* A run that was not taken up has no revisions, and a revision has an author.
Fresh ==
    /\ \A r \in PlanRuns \ TakenUp, n \in Rounds : revision[<<r, n>>] = NoPlan
    /\ \A k \in PlanRuns \X Rounds : revision[k] = NoPlan \/ revision[k].run \in PlanRuns

\* The rounds of the active run whose revision is a plan of its own.
OwnRounds == {n \in Rounds : revision[<<active, n>>].run = active}

\* The active run has a revision of every round before this one and none of a
\* later one.  As long as no plan of another run was taken for one of its own,
\* each revision is the plan of its round, which is then no longer on its way,
\* and latest_plan is the last of them if it is a plan of this run at all.
Rows ==
    \A n \in Rounds : /\ n < round => revision[<<active, n>>] # NoPlan
                      /\ n > round => revision[<<active, n>>] = NoPlan
Written ==
    \A n \in 0 .. round :
        0 .. n \subseteq OwnRounds =>
            /\ revision[<<active, n>>] = [run |-> active, n |-> n]
            /\ \A m \in InFlight : ~Writes(m, active, n)
Latest ==
    0 .. round \subseteq OwnRounds /\ plan.run = active =>
        plan = [run |-> active, n |-> round]
ActivePlan == active \in PlanRuns => Rows /\ Written /\ Latest

ShipInv == WrittenOnce /\ Known /\ Fresh /\ ActivePlan

-----------------------------------------------------------------------------
(* The wire *)

FromShrinks ==
    \E k \in Nat : /\ Len(fromSandbox) = Len(fromSandbox') + k
                   /\ \A i \in 1 .. Len(fromSandbox') : fromSandbox'[i] = fromSandbox[i + k]
Loses ==
    /\ Len(toSandbox') <= Len(toSandbox)
    /\ \A i \in 1 .. Len(toSandbox') : toSandbox'[i] = toSandbox[i]
    /\ FromShrinks
    /\ work' \in {work, Idle}
Sends(m) ==
    /\ toSandbox' = Append(toSandbox, m)
    /\ FromShrinks
    /\ work' = work

WireTypes ==
    /\ toSandbox \in Seq(ToSandboxMessages) /\ Len(toSandbox) \in Nat
    /\ fromSandbox \in Seq(FromSandboxMessages) /\ Len(fromSandbox) \in Nat
    /\ work \in Works

LEMMA NewAtEnd ==
    ASSUME NEW S, NEW s \in Seq(S), NEW e
    PROVE  /\ Len(Append(s, e)) = Len(s) + 1
           /\ \A i \in 1 .. Len(s) + 1 :
                 IF i = Len(s) + 1 THEN Append(s, e)[i] = e ELSE Append(s, e)[i] = s[i]
<1>1. s \in Seq(S \cup {e})
  OBVIOUS
<1>2. QED
  BY <1>1, AppendProperties, LenProperties

LEMMA WireTyped ==
    ASSUME TypeInv, [Next]_vars
    PROVE  WireTypes /\ WireTypes'
<1>1. TypeInv'
  BY TypesKept
<1>2. QED
  BY <1>1, LenProperties DEF WireTypes, TypeInv, TypeOK, RunTypeOK, RestTypeOK

LEMMA SameShrinks ==
    ASSUME WireTypes, fromSandbox' = fromSandbox
    PROVE  FromShrinks
<1>1. /\ 0 \in Nat /\ Len(fromSandbox) = Len(fromSandbox') + 0
      /\ \A i \in 1 .. Len(fromSandbox') : fromSandbox'[i] = fromSandbox[i + 0]
  BY DEF WireTypes
<1>2. QED
  BY <1>1 DEF FromShrinks

LEMMA TailShrinks ==
    ASSUME WireTypes, fromSandbox # <<>>, fromSandbox' = Tail(fromSandbox)
    PROVE  FromShrinks
<1>1. /\ 1 \in Nat /\ Len(fromSandbox) = Len(fromSandbox') + 1
      /\ \A i \in 1 .. Len(fromSandbox') : fromSandbox'[i] = fromSandbox[i + 1]
  BY HeadTailProperties DEF WireTypes
<1>2. QED
  BY <1>1 DEF FromShrinks

LEMMA FlushShrinks ==
    ASSUME WireTypes, FlushOutbox
    PROVE  FromShrinks
<1>1. PICK k \in 1 .. Len(fromSandbox) + 1 :
           fromSandbox' = SubSeq(fromSandbox, k, Len(fromSandbox))
  BY DEF FlushOutbox
<1>2. /\ Len(fromSandbox') = Len(fromSandbox) - k + 1
      /\ \A i \in 1 .. Len(fromSandbox) - k + 1 : fromSandbox'[i] = fromSandbox[k + i - 1]
  BY <1>1, SubSeqProperties DEF WireTypes
<1>3. /\ k - 1 \in Nat /\ Len(fromSandbox) = Len(fromSandbox') + (k - 1)
      /\ \A i \in 1 .. Len(fromSandbox') : fromSandbox'[i] = fromSandbox[i + (k - 1)]
  <2>1. \A i \in 1 .. Len(fromSandbox') : k + i - 1 = i + (k - 1)
    BY <1>1, <1>2 DEF WireTypes
  <2>2. QED
    BY <1>1, <1>2, <2>1 DEF WireTypes
<1>4. QED
  BY <1>3 DEF FromShrinks

LEMMA KeptLoses ==
    ASSUME WireTypes, toSandbox' = toSandbox, FromShrinks, work' = work
    PROVE  Loses
BY DEF WireTypes, Loses

LEMMA SentOrLost ==
    ASSUME WireTypes, FromShrinks, work' = work, NEW m, NEW up, toSandbox' = Sent(m, up)
    PROVE  Loses \/ Sends(m)
BY KeptLoses DEF Sent, Sends

\* What is in flight after a step was in flight before it or is new.
LEMMA ShrunkFlight ==
    ASSUME WireTypes, WireTypes', FromShrinks
    PROVE  \A i \in 1 .. Len(fromSandbox') : fromSandbox'[i] \in InFlight
<1>1. PICK k \in Nat : /\ Len(fromSandbox) = Len(fromSandbox') + k
                       /\ \A i \in 1 .. Len(fromSandbox') : fromSandbox'[i] = fromSandbox[i + k]
  BY DEF FromShrinks
<1>2. TAKE i \in 1 .. Len(fromSandbox')
<1>3. i + k \in 1 .. Len(fromSandbox)
  BY <1>1, <1>2 DEF WireTypes
<1>4. QED
  BY <1>1, <1>2, <1>3 DEF InFlight

LEMMA LosesFlight ==
    ASSUME WireTypes, WireTypes', Loses
    PROVE  InFlight' \subseteq InFlight \cup {Idle}
<1>1. \A i \in 1 .. Len(fromSandbox') : fromSandbox'[i] \in InFlight
  BY ShrunkFlight DEF Loses
<1>2. \A i \in 1 .. Len(toSandbox') : toSandbox'[i] \in InFlight
  <2>1. TAKE i \in 1 .. Len(toSandbox')
  <2>2. i \in 1 .. Len(toSandbox) /\ toSandbox'[i] = toSandbox[i]
    BY <2>1 DEF Loses, WireTypes
  <2>3. QED
    BY <2>2 DEF InFlight
<1>3. work' \in InFlight \cup {Idle}
  BY DEF Loses, InFlight
<1>4. QED
  BY <1>1, <1>2, <1>3 DEF InFlight

LEMMA SendsFlight ==
    ASSUME WireTypes, WireTypes', NEW m, Sends(m)
    PROVE  InFlight' \subseteq InFlight \cup {m}
<1>1. \A i \in 1 .. Len(fromSandbox') : fromSandbox'[i] \in InFlight
  BY ShrunkFlight DEF Sends
<1>2. \A i \in 1 .. Len(toSandbox') : toSandbox'[i] \in InFlight \cup {m}
  <2>1. TAKE i \in 1 .. Len(toSandbox')
  <2>2. /\ i \in 1 .. Len(toSandbox) => toSandbox'[i] = toSandbox[i]
        /\ i \in 1 .. Len(toSandbox) \/ toSandbox'[i] = m
    BY <2>1, NewAtEnd DEF Sends, WireTypes
  <2>3. QED
    BY <2>2 DEF InFlight
<1>3. work' \in InFlight
  BY DEF Sends, InFlight
<1>4. QED
  BY <1>1, <1>2, <1>3 DEF InFlight

LEMMA TakeFlight ==
    ASSUME WireTypes, WireTypes', SandboxTake
    PROVE  InFlight' \subseteq InFlight
<1>1. /\ work' = toSandbox[1] /\ 1 \in 1 .. Len(toSandbox) /\ fromSandbox' = fromSandbox
      /\ Len(toSandbox') = Len(toSandbox) - 1
      /\ \A i \in 1 .. Len(toSandbox') : toSandbox'[i] = toSandbox[i + 1]
  BY HeadTailProperties, EmptySeq DEF SandboxTake, WireTypes
<1>2. \A i \in 1 .. Len(toSandbox') : i + 1 \in 1 .. Len(toSandbox)
  BY <1>1 DEF WireTypes
<1>3. QED
  BY <1>1, <1>2 DEF InFlight

LEMMA StepFlight ==
    ASSUME WireTypes, WireTypes', NEW res, fromSandbox' = Append(fromSandbox, res[1]),
           work' = res[2], toSandbox' = toSandbox
    PROVE  InFlight' \subseteq InFlight \cup {res[1], res[2]}
<1>1. \A i \in 1 .. Len(fromSandbox') :
          /\ i \in 1 .. Len(fromSandbox) => fromSandbox'[i] = fromSandbox[i]
          /\ i \in 1 .. Len(fromSandbox) \/ fromSandbox'[i] = res[1]
  BY NewAtEnd DEF WireTypes
<1>2. QED
  BY <1>1 DEF InFlight

\* A plan in flight is in one place, whatever is lost, sent, taken or answered.
LEMMA OnceLoses ==
    ASSUME WireTypes, WireTypes', WrittenOnce, Loses
    PROVE  WrittenOnce'
<1>1. PICK k \in Nat : /\ Len(fromSandbox) = Len(fromSandbox') + k
                       /\ \A i \in 1 .. Len(fromSandbox') : fromSandbox'[i] = fromSandbox[i + k]
  BY DEF Loses, FromShrinks
<1>2. \A i \in 1 .. Len(fromSandbox') : i + k \in 1 .. Len(fromSandbox)
  BY <1>1 DEF WireTypes
<1>3. \A i \in 1 .. Len(toSandbox') : i \in 1 .. Len(toSandbox) /\ toSandbox'[i] = toSandbox[i]
  BY DEF Loses, WireTypes
<1>4. \A r, n : ~Writes(Idle, r, n)
  BY DEF Writes, Idle, Msg, PlanWork
<1> SUFFICES ASSUME NEW r \in PlanRuns, NEW n \in Rounds
             PROVE
        /\ \A i, j \in 1 .. Len(toSandbox') :
              Writes(toSandbox'[i], r, n) /\ Writes(toSandbox'[j], r, n) => i = j
        /\ \A i, j \in 1 .. Len(fromSandbox') :
              Writes(fromSandbox'[i], r, n) /\ Writes(fromSandbox'[j], r, n) => i = j
        /\ \A i \in 1 .. Len(toSandbox'), j \in 1 .. Len(fromSandbox') :
              ~(Writes(toSandbox'[i], r, n) /\ Writes(fromSandbox'[j], r, n))
        /\ Writes(work', r, n) =>
              /\ \A i \in 1 .. Len(toSandbox') : ~Writes(toSandbox'[i], r, n)
              /\ \A i \in 1 .. Len(fromSandbox') : ~Writes(fromSandbox'[i], r, n)
  BY DEF WrittenOnce
<1>5. \A i, j \in 1 .. Len(toSandbox') :
         Writes(toSandbox'[i], r, n) /\ Writes(toSandbox'[j], r, n) => i = j
  BY <1>3 DEF WrittenOnce
<1>6. \A i, j \in 1 .. Len(fromSandbox') :
         Writes(fromSandbox'[i], r, n) /\ Writes(fromSandbox'[j], r, n) => i = j
  <2>1. SUFFICES ASSUME NEW i \in 1 .. Len(fromSandbox'), NEW j \in 1 .. Len(fromSandbox'),
                        Writes(fromSandbox'[i], r, n), Writes(fromSandbox'[j], r, n)
                 PROVE  i = j
    OBVIOUS
  <2>2. i + k = j + k
    BY <1>1, <1>2, <2>1 DEF WrittenOnce
  <2>3. QED
    BY <2>1, <2>2 DEF WireTypes
<1>7. \A i \in 1 .. Len(toSandbox'), j \in 1 .. Len(fromSandbox') :
         ~(Writes(toSandbox'[i], r, n) /\ Writes(fromSandbox'[j], r, n))
  BY <1>1, <1>2, <1>3 DEF WrittenOnce
<1>8. Writes(work', r, n) =>
         /\ \A i \in 1 .. Len(toSandbox') : ~Writes(toSandbox'[i], r, n)
         /\ \A i \in 1 .. Len(fromSandbox') : ~Writes(fromSandbox'[i], r, n)
  <2>1. HAVE Writes(work', r, n)
  <2>2. Writes(work, r, n)
    BY <1>4, <2>1 DEF Loses
  <2>3. QED
    BY <1>1, <1>2, <1>3, <2>2 DEF WrittenOnce
<1>9. QED
  BY <1>5, <1>6, <1>7, <1>8

\* What is left of the wire when a message is sent.
LEMMA OnceSends ==
    ASSUME WireTypes, WireTypes', WrittenOnce, NEW m, Sends(m),
           \A r \in PlanRuns, n \in Rounds : Writes(m, r, n) => \A x \in InFlight : ~Writes(x, r, n)
    PROVE  WrittenOnce'
<1>1. PICK k \in Nat : /\ Len(fromSandbox) = Len(fromSandbox') + k
                       /\ \A i \in 1 .. Len(fromSandbox') : fromSandbox'[i] = fromSandbox[i + k]
  BY DEF Sends, FromShrinks
<1>2. \A i \in 1 .. Len(fromSandbox') : i + k \in 1 .. Len(fromSandbox)
  BY <1>1 DEF WireTypes
<1>3. \A i \in 1 .. Len(toSandbox') :
         \/ i \in 1 .. Len(toSandbox) /\ toSandbox'[i] = toSandbox[i]
         \/ i = Len(toSandbox) + 1 /\ toSandbox'[i] = m
  BY NewAtEnd DEF Sends, WireTypes
<1>4. work' = work
  BY DEF Sends
<1> SUFFICES ASSUME NEW r \in PlanRuns, NEW n \in Rounds
             PROVE
        /\ \A i, j \in 1 .. Len(toSandbox') :
              Writes(toSandbox'[i], r, n) /\ Writes(toSandbox'[j], r, n) => i = j
        /\ \A i, j \in 1 .. Len(fromSandbox') :
              Writes(fromSandbox'[i], r, n) /\ Writes(fromSandbox'[j], r, n) => i = j
        /\ \A i \in 1 .. Len(toSandbox'), j \in 1 .. Len(fromSandbox') :
              ~(Writes(toSandbox'[i], r, n) /\ Writes(fromSandbox'[j], r, n))
        /\ Writes(work', r, n) =>
              /\ \A i \in 1 .. Len(toSandbox') : ~Writes(toSandbox'[i], r, n)
              /\ \A i \in 1 .. Len(fromSandbox') : ~Writes(fromSandbox'[i], r, n)
  BY DEF WrittenOnce
<1>5. Writes(m, r, n) => /\ \A i \in 1 .. Len(toSandbox) : ~Writes(toSandbox[i], r, n)
                         /\ \A i \in 1 .. Len(fromSandbox) : ~Writes(fromSandbox[i], r, n)
                         /\ ~Writes(work, r, n)
  BY DEF InFlight
<1>6. \A i, j \in 1 .. Len(toSandbox') :
         Writes(toSandbox'[i], r, n) /\ Writes(toSandbox'[j], r, n) => i = j
  BY <1>3, <1>5 DEF WrittenOnce
<1>7. \A i, j \in 1 .. Len(fromSandbox') :
         Writes(fromSandbox'[i], r, n) /\ Writes(fromSandbox'[j], r, n) => i = j
  <2>1. SUFFICES ASSUME NEW i \in 1 .. Len(fromSandbox'), NEW j \in 1 .. Len(fromSandbox'),
                        Writes(fromSandbox'[i], r, n), Writes(fromSandbox'[j], r, n)
                 PROVE  i = j
    OBVIOUS
  <2>2. i + k = j + k
    BY <1>1, <1>2, <2>1 DEF WrittenOnce
  <2>3. QED
    BY <2>1, <2>2 DEF WireTypes
<1>8. \A i \in 1 .. Len(toSandbox'), j \in 1 .. Len(fromSandbox') :
         ~(Writes(toSandbox'[i], r, n) /\ Writes(fromSandbox'[j], r, n))
  BY <1>1, <1>2, <1>3, <1>5 DEF WrittenOnce
<1>9. Writes(work', r, n) =>
         /\ \A i \in 1 .. Len(toSandbox') : ~Writes(toSandbox'[i], r, n)
         /\ \A i \in 1 .. Len(fromSandbox') : ~Writes(fromSandbox'[i], r, n)
  BY <1>1, <1>2, <1>3, <1>4, <1>5 DEF WrittenOnce
<1>10. QED
  BY <1>6, <1>7, <1>8, <1>9

LEMMA OnceTake ==
    ASSUME WireTypes, WireTypes', WrittenOnce, SandboxTake
    PROVE  WrittenOnce'
<1>1. /\ work' = toSandbox[1] /\ 1 \in 1 .. Len(toSandbox) /\ fromSandbox' = fromSandbox
      /\ Len(toSandbox') = Len(toSandbox) - 1
      /\ \A i \in 1 .. Len(toSandbox') : toSandbox'[i] = toSandbox[i + 1]
  BY HeadTailProperties, EmptySeq DEF SandboxTake, WireTypes
<1>2. \A i \in 1 .. Len(toSandbox') : i + 1 \in 1 .. Len(toSandbox) /\ i + 1 # 1
  BY <1>1 DEF WireTypes
<1>3. \A i, j \in 1 .. Len(toSandbox') : i + 1 = j + 1 => i = j
  BY DEF WireTypes
<1>4. QED
  BY SMTT(30), <1>1, <1>2, <1>3 DEF WrittenOnce

\* What the sandbox makes of its work: its message concerns the run at work, a
\* plan comes from the request for it, a consolidation's result from it, and
\* what is left to do is no plan.
LEMMA ResultsFollowWork ==
    ASSUME NEW w \in Works, w # Idle, NEW res \in Results(w)
    PROVE  /\ res[1].run \in {w.run, NoRun} /\ res[2].run \in {w.run, NoRun}
           /\ res[2].type \notin PlanWork \cup Consolidations
           /\ res[1].type \in PlanWork =>
                w.type \in PlanWork /\ res[1].run = w.run /\ res[1].n = w.n
           /\ res[1].type \in Consolidations =>
                w.type \in Consolidations /\ res[1].run = w.run /\ res[1].n = w.n
<1> USE DEF PlanWork, Consolidations, Done, Error, Idle, Msg
<1>1. CASE w.type \in {"plan", "refine_plan"}
  BY <1>1 DEF Results, PlanResults, RefineResults, StartThrows, Turn
<1>2. CASE w.type = "consolidate_annotations"
  BY <1>2 DEF Results, ConsolidateResults, Brief
<1>3. CASE w.type \notin {"plan", "refine_plan", "consolidate_annotations"}
  <2>1. w.type \in {"init", "clone", "agent_turn", "execute", "verify", "repair", "create_pr"}
    BY <1>3 DEF Works, ToSandboxMessages
  <2>2. CASE w.type \in {"init", "clone", "agent_turn", "create_pr"}
    BY <2>2 DEF Results, CloneResults, TurnResults, PushResults, GitThrows, StartThrows, Turn
  <2>3. CASE w.type \in {"execute", "verify", "repair"}
    BY <2>3 DEF Results, ExecuteResults, RepairResults, VerifyResults, VerificationResults,
                Verified, CommandEnds, SwitchThrows
  <2>4. QED
    BY <2>1, <2>2, <2>3
<1>4. QED
  BY <1>1, <1>2, <1>3

LEMMA OnceStep ==
    ASSUME WireTypes, WireTypes', WrittenOnce, SandboxStep
    PROVE  WrittenOnce'
<1>1. PICK res \in Results(work) : fromSandbox' = Append(fromSandbox, res[1]) /\ work' = res[2]
  BY DEF SandboxStep
<1>2. toSandbox' = toSandbox /\ work # Idle /\ work \in Works
  BY DEF SandboxStep, runVars, WireTypes
<1>3. \A i \in 1 .. Len(fromSandbox') :
         \/ i \in 1 .. Len(fromSandbox) /\ fromSandbox'[i] = fromSandbox[i]
         \/ i = Len(fromSandbox) + 1 /\ fromSandbox'[i] = res[1]
  BY <1>1, NewAtEnd DEF WireTypes
<1>4. \A r, n : /\ Writes(res[1], r, n) => Writes(work, r, n)
                /\ ~Writes(res[2], r, n)
  BY <1>1, <1>2, ResultsFollowWork DEF Writes
<1>5. QED
  BY <1>1, <1>2, <1>3, <1>4 DEF WrittenOnce

\* The plan that is received is nowhere any more.
LEMMA OnceReceived ==
    ASSUME WireTypes, WireTypes', WrittenOnce, fromSandbox # <<>>,
           fromSandbox' = Tail(fromSandbox), toSandbox' = toSandbox, work' = work,
           NEW r \in PlanRuns, NEW n \in Rounds, Writes(Message, r, n)
    PROVE  \A x \in InFlight' : ~Writes(x, r, n)
<1>1. /\ Message = fromSandbox[1] /\ 1 \in 1 .. Len(fromSandbox)
      /\ Len(fromSandbox') = Len(fromSandbox) - 1
      /\ \A i \in 1 .. Len(fromSandbox') : fromSandbox'[i] = fromSandbox[i + 1]
  BY HeadTailProperties, EmptySeq DEF WireTypes, Message
<1>2. \A i \in 1 .. Len(fromSandbox') : i + 1 \in 1 .. Len(fromSandbox) /\ i + 1 # 1
  BY <1>1 DEF WireTypes
<1>3. QED
  BY <1>1, <1>2 DEF WrittenOnce, InFlight

LEMMA MessageInFlight ==
    ASSUME WireTypes, fromSandbox # <<>>
    PROVE  Message \in InFlight
<1>1. Message = fromSandbox[1] /\ 1 \in 1 .. Len(fromSandbox)
  BY EmptySeq DEF WireTypes, Message
<1>2. QED
  BY <1>1 DEF InFlight

-----------------------------------------------------------------------------
(* What a step does to the plan under review *)

SameRound == UNCHANGED <<active, round, plan, revision>>
NewRun ==
    active' \in Runs \ TakenUp /\ round' = 0 /\ plan' = NoPlan /\ revision' = revision
NewRound ==
    /\ active \in PlanRuns /\ round + 1 \in Rounds /\ revision[<<active, round>>] # NoPlan
    /\ active' = active /\ round' = round + 1
    /\ UNCHANGED <<plan, revision>>

\* A message that starts the work on a run, and one that asks for no plan.
Opening(m, r) == m.type \in {"plan", "agent_turn"} /\ m.run = r /\ m.n = 0
Plain(m) == m.type \notin PlanWork \cup Consolidations

Stops == active' = NoRun /\ revision' = revision /\ Loses
Starts == NewRun /\ (Loses \/ \E m : Sends(m) /\ Opening(m, active'))
Briefs == NewRound /\ (Loses \/ Sends(Msg("refine_plan", active, round + 1)))
Continues ==
    /\ SameRound
    /\ \/ Loses \/ SandboxTake \/ SandboxStep
       \/ \E m : Sends(m) /\ m.run \in {active, NoRun} /\ Plain(m)
       \/ /\ active \in PlanRuns /\ revision[<<active, round>>] # NoPlan
          /\ Sends(Msg("consolidate_annotations", active, round))

LEMMA StartSteps ==
    ASSUME WireTypes, FromShrinks, work' = work, revision' = revision,
           NEW r \in Runs \ TakenUp, NEW up, StartAgentRun(r, up)
    PROVE  Starts
<1>1. PICK m : toSandbox' = Sent(m, up) /\ Opening(m, r)
  BY DEF StartAgentRun, Opening, Msg
<1>2. Loses \/ Sends(m)
  BY <1>1, SentOrLost
<1>3. NewRun /\ active' = r
  BY DEF StartAgentRun, ResetRun, NewRun
<1>4. QED
  BY <1>1, <1>2, <1>3 DEF Starts

LEMMA FinishPlanSteps ==
    ASSUME TypeOK, QueueInv, RequestedOnce, WireTypes, FromShrinks, work' = work,
           revision' = revision, NEW s, NEW o, FinishRun(s, o)
    PROVE  Starts \/ Stops
<1>1. CASE NoneWaiting(s) \/ AllWaitingFail(s)
  BY <1>1, KeptLoses DEF NoneWaiting, AllWaitingFail, Stops
<1>2. CASE NextStarts(s)
  <2>1. Head(queue) \in Runs \ TakenUp
    BY <1>2, HeadIsNew DEF NextStarts
  <2>2. StartAgentRun(Head(queue), attached)
    BY <1>2 DEF NextStarts
  <2>3. QED
    BY <2>1, <2>2, StartSteps
<1>3. QED
  BY <1>1, <1>2 DEF FinishRun

LEMMA SettlePlanSteps ==
    ASSUME TypeOK, QueueInv, RequestedOnce, WireTypes, FromShrinks, work' = work,
           revision' = revision, NEW o, SettleActiveRun(o)
    PROVE  Continues \/ Starts \/ Stops
BY FinishPlanSteps, KeptLoses DEF SettleActiveRun, runVars, Continues, SameRound

LEMMA DrainPlanSteps ==
    ASSUME TypeOK, QueueInv, RequestedOnce, WireTypes, FromShrinks, work' = work,
           revision' = revision, NEW s, NEW up, DrainQueuedWork(s, up)
    PROVE  Continues \/ Starts
BY HeadIsNew, StartSteps, KeptLoses DEF DrainQueuedWork, Continues, SameRound

LEMMA CommandPlanSteps ==
    ASSUME TypeInv, QueueInv, RequestedOnce, WireTypes, Command
    PROVE  Continues \/ Starts \/ Briefs
<1>1. ASSUME NEW r \in Runs, AgentRequest(r) PROVE Continues \/ Starts
  <2>1. FromShrinks /\ work' = work /\ revision' = revision
    BY <1>1, SameShrinks DEF AgentRequest, revisionVars
  <2>2. CASE state = "ready" /\ active = NoRun /\ attached
    BY <1>1, <2>1, <2>2, NewcomerIsNew, StartSteps DEF AgentRequest, TypeInv
  <2>3. CASE ~(state = "ready" /\ active = NoRun /\ attached)
    BY <1>1, <2>1, <2>3, KeptLoses DEF AgentRequest, Continues, SameRound
  <2>4. QED
    BY <2>2, <2>3
<1>2. CASE Approve
  <2>1. FromShrinks /\ work' = work /\ SameRound
    BY <1>2, SameShrinks DEF Approve, MoveRun, revisionVars, SameRound
  <2>2. Loses \/ Sends(Msg("execute", active, 0))
    BY <1>2, <2>1, SentOrLost DEF Approve
  <2>3. QED
    BY <2>1, <2>2 DEF Continues, Plain, Msg, PlanWork, Consolidations
<1>3. CASE Refine
  <2>1. FromShrinks /\ work' = work /\ active' = active /\ UNCHANGED <<plan, revision>>
    BY <1>3, SameShrinks DEF Refine, MoveRun
  <2>2. active \in PlanRuns /\ round \in Rounds /\ round + 1 \in Rounds
    BY <1>3, BoundsAssumption
       DEF Refine, MayRefine, TypeInv, TypeOK, RunTypeOK, ReviewIsForPlanRuns, Rounds
  <2>3. revision[<<active, round>>] # NoPlan
    BY <1>3, <2>2 DEF Refine
  <2>4. CASE DispatchProseBrief
    <3>1. NewRound
      BY <2>1, <2>2, <2>3, <2>4 DEF DispatchProseBrief, NewRound
    <3>2. Loses \/ Sends(Msg("refine_plan", active, round + 1))
      BY <2>1, <2>4, SentOrLost DEF DispatchProseBrief
    <3>3. QED
      BY <3>1, <3>2 DEF Briefs
  <2>5. CASE ~DispatchProseBrief
    <3>1. toSandbox' = Sent(Msg("consolidate_annotations", active, round), attached)
          /\ round' = round
      BY <1>3, <2>5 DEF Refine
    <3>2. Loses \/ Sends(Msg("consolidate_annotations", active, round))
      BY <2>1, <3>1, SentOrLost
    <3>3. QED
      BY <2>1, <2>2, <2>3, <3>1, <3>2 DEF Continues, SameRound
  <2>6. QED
    BY <2>4, <2>5
<1>4. QED
  BY <1>1, <1>2, <1>3 DEF Command

LEMMA OrchestratorPlanSteps ==
    ASSUME TypeInv, QueueInv, RequestedOnce, WireTypes, Known, Orchestrator
    PROVE  Continues \/ Starts \/ Briefs \/ Stops \/ PlanReady \/ IgnoreMessage
<1>1. fromSandbox # <<>> /\ FromShrinks /\ work' = work
  BY TailShrinks
     DEF Orchestrator, IgnoreMessage, CloneStarted, CloneComplete, PlanReady,
         ConsolidationComplete, ConsolidationFailed, AgentTurnEnded, VerificationStarted,
         VerificationRetrying, VerificationFailed, ExecutionComplete, BranchPushed,
         ErrorFailsRun, ErrorEndsSession, Receive
<1>2. CASE \/ CloneStarted \/ ConsolidationFailed \/ VerificationStarted \/ VerificationRetrying
           \/ BranchPushed \/ ErrorEndsSession
  <2>1. SameRound /\ toSandbox' = toSandbox
    BY <1>2
       DEF CloneStarted, ConsolidationFailed, VerificationStarted, VerificationRetrying,
           BranchPushed, ErrorEndsSession, EndSession, MoveSession, MoveRun, runVars,
           revisionVars, SameRound
  <2>2. Loses
    BY <1>1, <2>1, KeptLoses
  <2>3. QED
    BY <2>1, <2>2 DEF Continues
<1>3. CASE CloneComplete
  <2>1. revision' = revision /\ DrainQueuedWork("ready", attached)
    BY <1>3 DEF CloneComplete, revisionVars
  <2>2. QED
    BY <1>1, <2>1, DrainPlanSteps DEF TypeInv
<1>4. CASE ConsolidationComplete
  <2>1. Message \in FromSandboxMessages /\ Message.type = "consolidation_complete"
    BY <1>4, ReceiveTypes DEF ConsolidationComplete
  <2>2. active = Message.run /\ round = Message.n
    BY <1>4, <2>1 DEF ConsolidationComplete, Accepts, ConsolidationIsCurrent
  <2>3. active \in PlanRuns /\ round + 1 \in Rounds
    BY <2>1, <2>2, BoundsAssumption DEF FromSandboxMessages, Rounds
  <2>4. revision[<<active, round>>] # NoPlan
    BY <1>1, <2>1, <2>2, MessageInFlight DEF Known, Consolidations
  <2>5. NewRound
    BY <1>4, <2>3, <2>4 DEF ConsolidationComplete, DispatchProseBrief, NewRound, revisionVars
  <2>6. Loses \/ Sends(Msg("refine_plan", active, round + 1))
    <3>1. toSandbox' = Sent(Msg("refine_plan", active, round + 1), attached)
      BY <1>4 DEF ConsolidationComplete, DispatchProseBrief
    <3>2. QED
      BY <1>1, <3>1, SentOrLost
  <2>7. QED
    BY <2>5, <2>6 DEF Briefs
<1>5. CASE AgentTurnEnded \/ VerificationFailed \/ ErrorFailsRun
  BY <1>1, <1>5, SettlePlanSteps
     DEF AgentTurnEnded, VerificationFailed, ErrorFailsRun, revisionVars, TypeInv
<1>6. CASE ExecutionComplete
  <2>1. SameRound
    BY <1>6 DEF ExecutionComplete, MoveRun, revisionVars, SameRound
  <2>2. toSandbox' = Sent(Msg("create_pr", active, 0), attached)
    BY <1>6 DEF ExecutionComplete
  <2>3. Loses \/ Sends(Msg("create_pr", active, 0))
    BY <1>1, <2>2, SentOrLost
  <2>4. QED
    BY <2>1, <2>3 DEF Continues, Plain, Msg, PlanWork, Consolidations
<1>7. QED
  BY <1>2, <1>3, <1>4, <1>5, <1>6 DEF Orchestrator

LEMMA ConnectionPlanSteps ==
    ASSUME TypeInv, QueueInv, RequestedOnce, WireTypes, WireTypes',
           Connect \/ Disconnect \/ SandboxDestroyed
    PROVE  Continues \/ Starts
<1>1. CASE ConnectInitialize
  <2>1. SameRound /\ Sends(Msg("init", NoRun, 0))
    BY <1>1, FlushShrinks DEF ConnectInitialize, revisionVars, SameRound, Sends
  <2>2. QED
    BY <2>1 DEF Continues, Plain, Msg, PlanWork, Consolidations
<1>2. CASE ConnectResume
  BY <1>2, FlushShrinks, DrainPlanSteps DEF ConnectResume, revisionVars, TypeInv
<1>3. CASE Disconnect
  <2>1. SameRound /\ FromShrinks /\ work' = work
    BY <1>3, SameShrinks DEF Disconnect, revisionVars, SameRound
  <2>2. PICK k \in 0 .. Len(toSandbox) : toSandbox' = SubSeq(toSandbox, 1, k)
    BY <1>3 DEF Disconnect
  <2>3. Len(toSandbox') = k /\ \A i \in 1 .. k : toSandbox'[i] = toSandbox[i]
    BY <2>2, SubSeqProperties DEF WireTypes
  <2>4. QED
    BY <2>1, <2>2, <2>3 DEF Continues, Loses, WireTypes
<1>4. CASE SandboxDestroyed
  <2>1. SameRound /\ work' = Idle /\ toSandbox' = <<>> /\ fromSandbox' = <<>>
    BY <1>4 DEF SandboxDestroyed, revisionVars, SameRound
  <2>2. Len(fromSandbox') = 0 /\ Len(toSandbox') = 0
    BY <2>1, EmptySeq
  <2>3. FromShrinks
    <3>1. /\ Len(fromSandbox) \in Nat
          /\ Len(fromSandbox) = Len(fromSandbox') + Len(fromSandbox)
          /\ \A i \in 1 .. Len(fromSandbox') :
                fromSandbox'[i] = fromSandbox[i + Len(fromSandbox)]
      BY <2>2 DEF WireTypes
    <3>2. QED
      BY <3>1 DEF FromShrinks
  <2>4. QED
    BY <2>1, <2>2, <2>3 DEF Continues, Loses, WireTypes
<1>5. QED
  BY <1>1, <1>2, <1>3, <1>4 DEF Connect

LEMMA PlanSteps ==
    ASSUME TypeInv, QueueInv, RequestedOnce, WireTypes, WireTypes', Known, [Next]_vars
    PROVE  Continues \/ Starts \/ Briefs \/ Stops \/ PlanReady \/ IgnoreMessage
<1>1. CASE UNCHANGED vars
  BY <1>1, SameShrinks, KeptLoses DEF vars, runVars, revisionVars, Continues, SameRound
<1>2. CASE SessionEnds
  <2>1. SameRound /\ toSandbox' = toSandbox /\ fromSandbox' = fromSandbox /\ work' = work
    BY <1>2
       DEF SessionEnds, StopSession, MaxTimeExpired, ProvisioningTimedOut, ProvisioningFailed,
           ReconnectExpired, SandboxLost, ResumeFails, FailSession, EndSession, MoveSession,
           revisionVars, SameRound
  <2>2. Loses
    BY <2>1, SameShrinks, KeptLoses
  <2>3. QED
    BY <2>1, <2>2 DEF Continues
<1>3. CASE Sandbox
  <2>1. SameRound
    BY <1>3 DEF Sandbox, SandboxTake, SandboxStep, runVars, revisionVars, SameRound
  <2>2. QED
    BY <1>3, <2>1 DEF Sandbox, Continues
<1>4. CASE PullRequestSettled
  BY <1>4, SameShrinks, SettlePlanSteps
     DEF PullRequestSettled, SettlePullRequest, revisionVars, TypeInv
<1>5. CASE Abort
  <2>1. FinishRun("ready", "failed") /\ revision' = revision /\ work' = work
        /\ fromSandbox' = fromSandbox
    BY <1>5 DEF Abort, revisionVars
  <2>2. QED
    BY <2>1, SameShrinks, FinishPlanSteps DEF TypeInv
<1>6. QED
  BY <1>1, <1>2, <1>3, <1>4, <1>5, CommandPlanSteps, OrchestratorPlanSteps, ConnectionPlanSteps
     DEF Next, Uninterrupted

-----------------------------------------------------------------------------
(* The plan under review is preserved *)

\* The run at work either goes on, in this round or a later one, or was never
\* taken up before.
LEMMA RunGoesOn ==
    ASSUME TypeInv, RequestedOnce, QueueInv,
           Continues \/ Starts \/ Briefs \/ Stops \/ PlanReady \/ IgnoreMessage
    PROVE  \/ active' = active /\ round' \in Rounds /\ round <= round'
           \/ active' \notin TakenUp
<1>1. round \in Nat /\ round \in Rounds
  BY DEF TypeInv, TypeOK, RunTypeOK, Rounds
<1>2. NoRun \notin TakenUp
  <2>1. Taken <= Len(requests) /\ requests \in Seq(Runs)
    BY LenProperties DEF Taken, TypeInv, TypeOK, RunTypeOK, RestTypeOK
  <2>2. \A i \in 1 .. Taken : requests[i] \in Runs
    BY <2>1, ElementOfSeq, LenProperties DEF Taken, TypeInv, TypeOK, RunTypeOK
  <2>3. QED
    BY <2>2, RunsAssumption DEF TakenUp
<1>3. QED
  BY <1>1, <1>2
     DEF Continues, Starts, Briefs, Stops, SameRound, NewRun, NewRound, PlanReady, MoveRun,
         IgnoreMessage

\* What was known stays known.
LEMMA OldKnown ==
    ASSUME TypeInv, TypeInv', RequestedOnce, QueueInv, WireTypes, Known, [Next]_vars,
           Continues \/ Starts \/ Briefs \/ Stops \/ PlanReady \/ IgnoreMessage,
           NEW m \in InFlight
    PROVE  /\ m.run # NoRun => m.run \in TakenUp'
           /\ m.run = active' /\ m.type \in PlanWork => m.n <= round'
           /\ m.type \in Consolidations => revision'[<<m.run, m.n>>] # NoPlan
<1>1. m \in ToSandboxMessages \cup FromSandboxMessages \cup Works
  BY DEF InFlight, WireTypes
<1>2. m.type \in Consolidations => <<m.run, m.n>> \in PlanRuns \X Rounds
  BY <1>1 DEF ToSandboxMessages, FromSandboxMessages, Works, Idle, Msg, Consolidations
<1>3. m.type \in PlanWork => m.run \in PlanRuns /\ m.n \in Nat
  BY <1>1 DEF ToSandboxMessages, FromSandboxMessages, Works, Idle, Msg, PlanWork, Rounds
<1>4. m.run # NoRun => m.run \in TakenUp'
  BY TakenUpGrows DEF Known, TypeInv
<1>5. m.run = active' /\ m.type \in PlanWork => m.n <= round'
  <2>1. HAVE m.run = active' /\ m.type \in PlanWork
  <2>2. m.run \in TakenUp
    BY <1>3, <2>1, RunsAssumption DEF Known, Runs
  <2>3. active' = active /\ round' \in Rounds /\ round <= round'
    BY <2>1, <2>2, RunGoesOn
  <2>4. m.n <= round
    BY <2>1, <2>3 DEF Known
  <2>5. round \in Nat /\ round' \in Nat
    BY <2>3 DEF TypeInv, TypeOK, RunTypeOK, Rounds
  <2>6. QED
    BY <1>3, <2>1, <2>3, <2>4, <2>5
<1>6. m.type \in Consolidations => revision'[<<m.run, m.n>>] # NoPlan
  BY <1>2, RevisionsStay DEF Known
<1>7. QED
  BY <1>4, <1>5, <1>6

\* The ways in which what is in flight changes, and what each adds.
LEMMA FlightSteps ==
    ASSUME TypeInv, WireTypes, WireTypes', WrittenOnce, Known,
           Continues \/ Starts \/ Briefs \/ Stops \/ PlanReady \/ IgnoreMessage,
           NEW m \in InFlight', m \notin InFlight
    PROVE  \/ m.run \in {active, NoRun} /\ Plain(m)
           \/ m = Idle
           \/ Starts /\ Opening(m, active')
           \/ Briefs /\ m = Msg("refine_plan", active, round + 1)
           \/ /\ active \in PlanRuns /\ revision[<<active, round>>] # NoPlan
              /\ m = Msg("consolidate_annotations", active, round)
           \/ SandboxStep /\ m.run \in {work.run, NoRun}
              /\ (m.type \in PlanWork => /\ work.type \in PlanWork
                                         /\ m.run = work.run /\ m.n = work.n)
              /\ (m.type \in Consolidations => /\ work.type \in Consolidations
                                               /\ m.run = work.run /\ m.n = work.n)
<1>1. CASE Loses
  BY <1>1, LosesFlight
<1>2. CASE PlanReady \/ IgnoreMessage
  <2>1. toSandbox' = toSandbox /\ FromShrinks /\ work' = work
    BY <1>2, TailShrinks DEF PlanReady, IgnoreMessage, Receive
  <2>2. QED
    BY <1>1, <2>1, KeptLoses
<1>3. CASE SandboxTake
  BY <1>3, TakeFlight
<1>4. CASE SandboxStep
  <2>1. PICK res \in Results(work) : fromSandbox' = Append(fromSandbox, res[1]) /\ work' = res[2]
    BY <1>4 DEF SandboxStep
  <2>2. m \in {res[1], res[2]}
    BY <1>4, <2>1, StepFlight DEF SandboxStep, runVars
  <2>3. work \in Works /\ work # Idle
    BY <1>4 DEF SandboxStep, WireTypes
  <2>4. QED
    BY <1>4, <2>1, <2>2, <2>3, ResultsFollowWork
<1>5. CASE Starts /\ ~Loses
  BY <1>5, SendsFlight DEF Starts
<1>6. CASE Briefs /\ ~Loses
  BY <1>6, SendsFlight DEF Briefs
<1>7. CASE Continues /\ ~Loses /\ ~SandboxTake /\ ~SandboxStep
  BY <1>7, SendsFlight DEF Continues
<1>8. QED
  BY <1>1, <1>2, <1>3, <1>4, <1>5, <1>6, <1>7 DEF Stops

LEMMA KnownKept ==
    ASSUME TypeInv, TypeInv', RequestedOnce, QueueInv, QueueInv', WireTypes, WireTypes',
           WrittenOnce, Known, [Next]_vars
    PROVE  Known'
<1>1. Continues \/ Starts \/ Briefs \/ Stops \/ PlanReady \/ IgnoreMessage
  BY PlanSteps
<1>2. active # NoRun => active \in TakenUp'
  BY WaitingIsNew, TakenUpGrows DEF TypeInv
<1>3. active' # NoRun => active' \in TakenUp'
  BY DEF QueueInv, ActiveIs, TakenUp
<1> SUFFICES ASSUME NEW m \in InFlight'
             PROVE  /\ m.run # NoRun => m.run \in TakenUp'
                    /\ m.run = active' /\ m.type \in PlanWork => m.n <= round'
                    /\ m.type \in Consolidations => revision'[<<m.run, m.n>>] # NoPlan
  BY DEF Known
<1>4. CASE m \in InFlight
  BY <1>1, <1>4, OldKnown
<1>5. CASE m.run \in {active, NoRun} /\ Plain(m)
  BY <1>2, <1>5 DEF Plain
<1>6. CASE m = Idle
  BY <1>6 DEF Idle, Msg, PlanWork, Consolidations
<1>7. CASE Starts /\ Opening(m, active')
  BY <1>3, <1>7 DEF Starts, NewRun, Opening, PlanWork, Consolidations
<1>8. CASE Briefs /\ m = Msg("refine_plan", active, round + 1)
  <2>1. round' = round + 1 /\ round + 1 \in Nat
    BY <1>8 DEF Briefs, NewRound, Rounds
  <2>2. QED
    BY <1>2, <1>8, <2>1 DEF Msg, Consolidations
<1>9. CASE /\ active \in PlanRuns /\ revision[<<active, round>>] # NoPlan
           /\ m = Msg("consolidate_annotations", active, round)
  <2>1. <<active, round>> \in PlanRuns \X Rounds
    BY <1>9 DEF TypeInv, TypeOK, RunTypeOK
  <2>2. QED
    BY <1>2, <1>9, <2>1, RevisionsStay DEF Msg, PlanWork
<1>10. CASE SandboxStep /\ m.run \in {work.run, NoRun}
            /\ (m.type \in PlanWork => /\ work.type \in PlanWork
                                       /\ m.run = work.run /\ m.n = work.n)
            /\ (m.type \in Consolidations => /\ work.type \in Consolidations
                                             /\ m.run = work.run /\ m.n = work.n)
  <2>1. work \in InFlight
    BY DEF InFlight
  <2>2. QED
    BY <1>1, <1>10, <2>1, OldKnown
<1>11. QED
  BY <1>1, <1>4, <1>5, <1>6, <1>7, <1>8, <1>9, <1>10, FlightSteps

LEMMA WrittenOnceKept ==
    ASSUME TypeInv, QueueInv, RequestedOnce, WireTypes, WireTypes', WrittenOnce, Known, [Next]_vars
    PROVE  WrittenOnce'
<1>1. Continues \/ Starts \/ Briefs \/ Stops \/ PlanReady \/ IgnoreMessage
  BY PlanSteps
<1>2. CASE Loses
  BY <1>2, OnceLoses
<1>3. CASE PlanReady \/ IgnoreMessage
  <2>1. toSandbox' = toSandbox /\ FromShrinks /\ work' = work
    BY <1>3, TailShrinks DEF PlanReady, IgnoreMessage, Receive
  <2>2. QED
    BY <1>2, <2>1, KeptLoses
<1>4. CASE SandboxTake \/ SandboxStep
  BY <1>4, OnceTake, OnceStep
<1>5. CASE Starts /\ ~Loses
  <2>1. PICK m : Sends(m) /\ Opening(m, active')
    BY <1>5 DEF Starts
  <2>2. active' \in Runs \ TakenUp
    BY <1>5 DEF Starts, NewRun
  <2>3. \A r \in PlanRuns, n \in Rounds : Writes(m, r, n) => \A x \in InFlight : ~Writes(x, r, n)
    BY <2>1, <2>2, RunsAssumption DEF Writes, Opening, Known
  <2>4. QED
    BY <2>1, <2>3, OnceSends
<1>6. CASE Briefs /\ ~Loses
  <2>1. Sends(Msg("refine_plan", active, round + 1)) /\ round \in Nat
    BY <1>6 DEF Briefs, TypeInv, TypeOK, RunTypeOK, Rounds
  <2>2. \A x \in InFlight : ~Writes(x, active, round + 1)
    <3>1. ASSUME NEW x \in InFlight, Writes(x, active, round + 1) PROVE FALSE
      <4>1. x.n <= round
        BY <3>1 DEF Known, Writes
      <4>2. x.n = round + 1
        BY <3>1 DEF Writes
      <4>3. QED
        BY <2>1, <4>1, <4>2
    <3>2. QED
      BY <3>1
  <2>3. \A r \in PlanRuns, n \in Rounds :
            Writes(Msg("refine_plan", active, round + 1), r, n) =>
                \A x \in InFlight : ~Writes(x, r, n)
    BY <2>2 DEF Writes, Msg
  <2>4. QED
    BY <2>1, <2>3, OnceSends
<1>7. CASE Continues /\ ~Loses /\ ~SandboxTake /\ ~SandboxStep
  <2>1. PICK m : Sends(m) /\ m.type \notin PlanWork
    BY <1>7 DEF Continues, Plain, Msg, PlanWork
  <2>2. QED
    BY <2>1, OnceSends DEF Writes
<1>8. QED
  BY <1>1, <1>2, <1>3, <1>4, <1>5, <1>6, <1>7 DEF Stops

LEMMA FreshKept ==
    ASSUME TypeInv, QueueInv, RequestedOnce, Fresh, [Next]_vars,
           Continues \/ Starts \/ Briefs \/ Stops \/ PlanReady \/ IgnoreMessage
    PROVE  Fresh'
<1>1. TakenUp \subseteq TakenUp' /\ (active # NoRun => active \in TakenUp)
  BY TakenUpGrows, WaitingIsNew DEF TypeInv
<1>2. CASE revision' = revision
  BY <1>1, <1>2 DEF Fresh
<1>3. CASE PlanReady /\ active \in PlanRuns
  <2>1. Message \in FromSandboxMessages /\ Message.type = "plan_ready"
    BY <1>3, ReceiveTypes DEF PlanReady
  <2>2. Message.run \in PlanRuns
    BY <2>1 DEF FromSandboxMessages
  <2>3. active \in TakenUp
    BY <1>1, <1>3, RunsAssumption DEF Runs
  <2>4. revision' = [revision EXCEPT ![<<active, round>>] = [run |-> Message.run, n |-> Message.n]]
    BY <1>3 DEF PlanReady, FreezePlanRevision
  <2>5. revision \in [PlanRuns \X Rounds -> Plans]
    BY DEF TypeInv, TypeOK, RestTypeOK
  <2>6. \A r \in PlanRuns \ TakenUp', n \in Rounds : revision'[<<r, n>>] = NoPlan
    BY <1>1, <2>3, <2>4, <2>5 DEF Fresh
  <2>7. \A k \in PlanRuns \X Rounds : revision'[k] = NoPlan \/ revision'[k].run \in PlanRuns
    BY <2>2, <2>4, <2>5 DEF Fresh
  <2>8. QED
    BY <2>6, <2>7 DEF Fresh
<1>4. QED
  BY <1>2, <1>3
     DEF Continues, Starts, Briefs, Stops, SameRound, NewRun, NewRound, IgnoreMessage, PlanReady,
         FreezePlanRevision, revisionVars

\* Only a new request for a plan puts a plan on its way.
LEMMA NoNewPlans ==
    ASSUME TypeInv, WireTypes, WireTypes', WrittenOnce, Known,
           Continues \/ Briefs \/ PlanReady \/ IgnoreMessage, ~Starts,
           NEW r \in PlanRuns, NEW n, NEW m \in InFlight', Writes(m, r, n),
           Briefs => n # round + 1
    PROVE  \E x \in InFlight : Writes(x, r, n)
<1>1. m.run = r /\ m.n = n /\ m.type \in PlanWork /\ m # Idle
  BY DEF Writes, PlanWork, Idle, Msg
<1>2. CASE m \notin InFlight
  <2>1. ~Plain(m)
    BY <1>1 DEF Plain
  <2>2. ~(Briefs /\ m = Msg("refine_plan", active, round + 1))
    BY <1>1 DEF Msg
  <2>3. m # Msg("consolidate_annotations", active, round)
    BY <1>1 DEF Msg, PlanWork
  <2>4. work.type \in PlanWork /\ m.run = work.run /\ m.n = work.n
    BY <1>1, <1>2, <2>1, <2>2, <2>3, FlightSteps
  <2>5. QED
    BY <1>1, <2>4 DEF Writes, InFlight
<1>3. QED
  BY <1>2

\* The invariant of the active run when its rounds stay as they are.
LEMMA SameRoundKept ==
    ASSUME TypeInv, WireTypes, WireTypes', WrittenOnce, Known, ActivePlan,
           UNCHANGED <<active, round, revision>>, Continues \/ IgnoreMessage, ~Starts, ~Briefs,
           plan' = plan \/ IgnoreMessage
    PROVE  ActivePlan'
<1> SUFFICES ASSUME active \in PlanRuns
             PROVE  Rows' /\ Written' /\ Latest'
  BY DEF ActivePlan
<1>1. Rows /\ Written /\ Latest /\ OwnRounds' = OwnRounds
  BY DEF ActivePlan, OwnRounds
<1>2. Rows'
  BY <1>1 DEF Rows
<1>3. Written'
  BY <1>1, NoNewPlans DEF Written
<1>4. Latest'
  <2>1. CASE plan' = plan
    BY <1>1, <2>1 DEF Latest
  <2>2. CASE plan' # plan
    <3>1. /\ Message.type = "plan_ready" /\ plan' = [run |-> Message.run, n |-> Message.n]
          /\ fromSandbox # <<>>
      BY <2>2 DEF IgnoreMessage
    <3>2. SUFFICES ASSUME 0 .. round \subseteq OwnRounds, Message.run = active PROVE FALSE
      BY <1>1, <3>1 DEF Latest
    <3>3. Message \in InFlight /\ Message \in FromSandboxMessages
      BY <3>1, MessageInFlight, MessageTypes DEF TypeInv
    <3>4. Message.n \in 0 .. round
      <4>1. Message.n <= round
        BY <3>1, <3>2, <3>3 DEF Known, PlanWork
      <4>2. Message.n \in Nat /\ round \in Nat
        BY <3>1, <3>3 DEF FromSandboxMessages, Rounds, TypeInv, TypeOK, RunTypeOK
      <4>3. QED
        BY <4>1, <4>2
    <3>5. 0 .. Message.n \subseteq OwnRounds
      BY <3>2, <3>4 DEF TypeInv, TypeOK, RunTypeOK, Rounds
    <3>6. ~Writes(Message, active, Message.n)
      BY <1>1, <3>3, <3>4, <3>5 DEF Written
    <3>7. QED
      BY <3>1, <3>2, <3>6 DEF Writes, PlanWork
  <2>3. QED
    BY <2>1, <2>2
<1>5. QED
  BY <1>2, <1>3, <1>4

LEMMA StartKept ==
    ASSUME TypeInv, Fresh, Starts
    PROVE  ActivePlan'
<1> SUFFICES ASSUME active' \in PlanRuns
             PROVE  Rows' /\ Written' /\ Latest'
  BY DEF ActivePlan
<1>1. /\ round' = 0 /\ active' # NoRun
      /\ \A n \in Rounds : revision'[<<active', n>>] = NoPlan
  BY RunsAssumption DEF Starts, NewRun, Fresh, Runs
<1>2. 0 \notin OwnRounds'
  BY <1>1 DEF OwnRounds, NoPlan
<1>3. Rows'
  <2>1. \A n \in Rounds : ~(n < 0)
    BY BoundsAssumption DEF Rounds
  <2>2. QED
    BY <1>1, <2>1 DEF Rows
<1>4. \A n \in 0 .. round' : ~(0 .. n \subseteq OwnRounds')
  BY <1>1, <1>2
<1>5. QED
  BY <1>1, <1>3, <1>4 DEF Written, Latest

LEMMA BriefKept ==
    ASSUME TypeInv, WireTypes, WireTypes', WrittenOnce, Known, ActivePlan, Briefs, ~Starts
    PROVE  ActivePlan'
<1>1. /\ active' = active /\ round' = round + 1 /\ revision' = revision
      /\ active \in PlanRuns /\ active # NoRun /\ round \in Rounds /\ round + 1 \in Rounds
      /\ revision[<<active, round>>] # NoPlan
  BY RunsAssumption DEF Briefs, NewRound, TypeInv, TypeOK, RunTypeOK, Runs
<1>2. Rows /\ Written /\ OwnRounds' = OwnRounds
  BY <1>1 DEF ActivePlan, OwnRounds
<1>3. Rows'
  <2>1. \A n \in Rounds : /\ n < round + 1 => n < round \/ n = round
                          /\ n > round + 1 => n > round
    BY <1>1 DEF Rounds
  <2>2. QED
    BY <1>1, <1>2, <2>1 DEF Rows
<1>4. round + 1 \notin OwnRounds
  <2>1. round + 1 > round
    BY <1>1 DEF Rounds
  <2>2. revision[<<active, round + 1>>] = NoPlan
    BY <1>1, <1>2, <2>1 DEF Rows
  <2>3. QED
    BY <1>1, <2>2 DEF OwnRounds, NoPlan
<1>5. \A n \in 0 .. round + 1 : 0 .. n \subseteq OwnRounds => n \in 0 .. round /\ n # round + 1
  BY <1>1, <1>4 DEF Rounds
<1>6. Written'
  BY <1>1, <1>2, <1>5, NoNewPlans DEF Written
<1>7. Latest'
  <2>1. ~(0 .. round + 1 \subseteq OwnRounds)
    BY <1>1, <1>4 DEF Rounds
  <2>2. QED
    BY <1>1, <1>2, <2>1 DEF Latest
<1>8. QED
  BY <1>3, <1>6, <1>7 DEF ActivePlan

\* The plan that is taken: if all revisions stay those of the active run, it is
\* the one of this round, and it is on its way nowhere else.
LEMMA PlanReadyKept ==
    ASSUME TypeInv, WireTypes, WireTypes', WrittenOnce, Known, Fresh, ActivePlan, PlanReady,
           ~Starts, ~Briefs
    PROVE  ActivePlan'
<1>1. /\ fromSandbox # <<>> /\ fromSandbox' = Tail(fromSandbox)
      /\ toSandbox' = toSandbox /\ work' = work
      /\ active' = active /\ round' = round
      /\ plan' = [run |-> Message.run, n |-> Message.n]
  BY DEF PlanReady, Receive, MoveRun
<1>2. Message \in FromSandboxMessages /\ Message.type = "plan_ready"
  BY ReceiveTypes DEF PlanReady
<1>3. Message.run \in PlanRuns /\ Message.n \in Nat /\ Message.n \in Rounds
  BY <1>2 DEF FromSandboxMessages, Rounds
<1> SUFFICES ASSUME active \in PlanRuns
             PROVE  Rows' /\ Written' /\ Latest'
  BY <1>1 DEF ActivePlan
<1>4. Rows /\ Written
  BY DEF ActivePlan
<1>5. round \in Rounds /\ round \in Nat /\ 0 .. round \subseteq Rounds
  BY BoundsAssumption DEF TypeInv, TypeOK, RunTypeOK, Rounds
<1>6. \A n \in Rounds : revision'[<<active, n>>] =
          IF n = round THEN [run |-> Message.run, n |-> Message.n] ELSE revision[<<active, n>>]
  BY <1>5 DEF PlanReady, FreezePlanRevision, TypeInv, TypeOK, RestTypeOK
<1>7. \A n \in Rounds : n # round => (n \in OwnRounds' <=> n \in OwnRounds)
  BY <1>1, <1>6 DEF OwnRounds
<1>8. Rows'
  BY <1>1, <1>4, <1>5, <1>6 DEF Rows, Rounds
<1>9. ASSUME NEW n \in 0 .. round, n # round, 0 .. n \subseteq OwnRounds'
      PROVE  /\ 0 .. n \subseteq OwnRounds
             /\ revision[<<active, n>>] = [run |-> active, n |-> n]
             /\ \A m \in InFlight : ~Writes(m, active, n)
  <2>1. \A k \in 0 .. n : k \in Rounds /\ k # round
    BY <1>5, <1>9
  <2>2. 0 .. n \subseteq OwnRounds
    BY <1>7, <1>9, <2>1
  <2>3. QED
    BY <1>4, <2>2 DEF Written
<1>10. ASSUME 0 .. round \subseteq OwnRounds'
       PROVE  Message.run = active /\ Message.n = round
  <2>1. Message.run = active
    <3>1. round \in OwnRounds'
      BY <1>5, <1>10
    <3>2. revision'[<<active, round>>].run = active
      BY <1>1, <3>1 DEF OwnRounds
    <3>3. QED
      BY <1>5, <1>6, <3>2
  <2>2. Message \in InFlight
    BY <1>1, MessageInFlight
  <2>3. Message.n <= round
    BY <1>2, <2>1, <2>2 DEF Known, PlanWork
  <2>4. CASE Message.n # round
    <3>1. Message.n \in 0 .. round
      BY <1>3, <1>5, <2>3
    <3>2. 0 .. Message.n \subseteq OwnRounds'
      BY <1>3, <1>5, <1>10, <2>3
    <3>3. ~Writes(Message, active, Message.n)
      BY <1>9, <2>2, <2>4, <3>1, <3>2
    <3>4. QED
      BY <1>2, <2>1, <3>3 DEF Writes, PlanWork
  <2>5. QED
    BY <2>1, <2>4
<1>11. Written'
  <2>1. SUFFICES ASSUME NEW n \in 0 .. round, 0 .. n \subseteq OwnRounds'
                 PROVE  /\ revision'[<<active, n>>] = [run |-> active, n |-> n]
                        /\ \A m \in InFlight' : ~Writes(m, active, n)
    BY <1>1 DEF Written
  <2>2. CASE n # round
    BY <1>5, <1>6, <1>9, <2>1, <2>2, NoNewPlans
  <2>3. CASE n = round
    <3>1. Message.run = active /\ Message.n = round
      BY <1>10, <2>1, <2>3
    <3>2. revision'[<<active, n>>] = [run |-> active, n |-> n]
      BY <1>5, <1>6, <2>3, <3>1
    <3>3. Writes(Message, active, n)
      BY <1>2, <2>3, <3>1 DEF Writes, PlanWork
    <3>4. QED
      BY <1>1, <1>5, <2>3, <3>2, <3>3, OnceReceived
  <2>4. QED
    BY <2>2, <2>3
<1>12. Latest'
  BY <1>1, <1>10 DEF Latest
<1>13. QED
  BY <1>8, <1>11, <1>12

LEMMA ActivePlanKept ==
    ASSUME TypeInv, WireTypes, WireTypes', WrittenOnce, Known, Fresh, ActivePlan,
           Continues \/ Starts \/ Briefs \/ Stops \/ PlanReady \/ IgnoreMessage
    PROVE  ActivePlan'
<1>1. CASE Starts
  BY <1>1, StartKept
<1>2. CASE Briefs /\ ~Starts
  BY <1>2, BriefKept
<1>3. CASE Stops
  BY <1>3, RunsAssumption DEF Stops, ActivePlan, Runs
<1>4. CASE PlanReady /\ ~Starts /\ ~Briefs
  BY <1>4, PlanReadyKept
<1>5. CASE (Continues \/ IgnoreMessage) /\ ~Starts /\ ~Briefs
  <2>1. UNCHANGED <<active, round, revision>> /\ (plan' = plan \/ IgnoreMessage)
    BY <1>5 DEF Continues, SameRound, IgnoreMessage, revisionVars
  <2>2. QED
    BY <1>5, <2>1, SameRoundKept
<1>6. QED
  BY <1>1, <1>2, <1>3, <1>4, <1>5

LEMMA ShipKept ==
    ASSUME TypeInv, QueueInv, RequestedOnce, ShipInv, [Next]_vars
    PROVE  ShipInv'
<1>1. WireTypes /\ WireTypes'
  BY WireTyped
<1>2. TypeInv' /\ QueueInv'
  BY TypesKept, QueueInvKept DEF TypeInv
<1>3. Continues \/ Starts \/ Briefs \/ Stops \/ PlanReady \/ IgnoreMessage
  BY <1>1, PlanSteps DEF ShipInv
<1>4. QED
  BY <1>1, <1>2, <1>3, WrittenOnceKept, KnownKept, FreshKept, ActivePlanKept DEF ShipInv

LEMMA InitShip ==
    ASSUME Init
    PROVE  ShipInv
<1>1. Len(toSandbox) = 0 /\ Len(fromSandbox) = 0 /\ work = Idle
  BY EmptySeq DEF Init
<1>2. InFlight = {Idle}
  BY <1>1 DEF InFlight
<1>3. \A r, n : ~Writes(Idle, r, n)
  BY DEF Writes, Idle, Msg, PlanWork
<1>4. WrittenOnce
  BY <1>1, <1>3 DEF WrittenOnce
<1>5. Known
  BY <1>2 DEF Known, Idle, Msg, PlanWork, Consolidations
<1>6. Fresh
  BY DEF Init, Fresh
<1>7. ActivePlan
  BY RunsAssumption DEF Init, ActivePlan, Runs
<1>8. QED
  BY <1>4, <1>5, <1>6, <1>7 DEF ShipInv

\* Under review, with nothing of another run among its revisions, the latest
\* plan of the run is the one frozen for this round.
LEMMA ShipsFrozen ==
    ASSUME TypeInv, ReviewInv, ShipInv
    PROVE  ApproveShipsFrozenRevision
<1> SUFFICES ASSUME state = "awaiting_approval", ~TakenForAnother
             PROVE  plan = revision[<<active, round>>]
  BY DEF ApproveShipsFrozenRevision
<1>1. /\ active \in PlanRuns /\ revision[<<active, round>>] # NoPlan
      /\ plan.run = active
      /\ \A n \in Rounds : revision[<<active, n>>].run \in {active, NoRun}
  BY DEF ReviewInv, ReviewHasRevision, TakenForAnother
<1>2. round \in Rounds /\ round \in Nat /\ 0 .. round \subseteq Rounds
  BY BoundsAssumption DEF TypeInv, TypeOK, RunTypeOK, Rounds
<1>3. Rows /\ Written /\ Latest
  BY <1>1 DEF ShipInv, ActivePlan
<1>4. 0 .. round \subseteq OwnRounds
  <2>1. SUFFICES ASSUME NEW n \in 0 .. round PROVE n \in OwnRounds
    OBVIOUS
  <2>2. n \in Rounds /\ (n < round \/ n = round)
    BY <1>2
  <2>3. revision[<<active, n>>] # NoPlan
    BY <1>1, <1>3, <2>2 DEF Rows
  <2>4. revision[<<active, n>>].run \in PlanRuns
    BY <1>1, <2>2, <2>3 DEF ShipInv, Fresh
  <2>5. revision[<<active, n>>].run # NoRun
    BY <2>4, RunsAssumption DEF Runs
  <2>6. QED
    BY <1>1, <2>2, <2>5 DEF OwnRounds
<1>5. round \in 0 .. round
  BY <1>2
<1>6. QED
  BY <1>1, <1>3, <1>4, <1>5 DEF Written, Latest

\* What an approval ships is what its reviewers saw frozen: latest_plan and the
\* revision of this round are one plan, whatever was lost, sent late or asked
\* for before, as long as no plan of another run was taken for one of this run.
THEOREM ApprovalsShipTheFrozenPlan == Spec => []ApproveShipsFrozenRevision
<1>1. Init => QueueInv /\ RequestedOnce
  BY EmptySeq DEF Init, QueueInv, Taken, RequestedOnce
<1>2. Init => TypeInv /\ ReviewInv /\ ShipInv
  BY InitTypes, InitReview, InitShip
<1>3. TypeInv /\ QueueInv /\ RequestedOnce /\ ReviewInv /\ ShipInv /\ [Next]_vars
        => (TypeInv /\ QueueInv /\ RequestedOnce /\ ReviewInv /\ ShipInv)'
  BY TypesKept, QueueInvKept, TakenUpGrows, BackedKept, ReviewKept, ShipKept
     DEF TypeInv, ReviewInv
<1>4. TypeInv /\ ReviewInv /\ ShipInv => ApproveShipsFrozenRevision
  BY ShipsFrozen
<1>5. QED
  BY <1>1, <1>2, <1>3, <1>4, PTL DEF Spec
=============================================================================
