---------------------------- MODULE SessionRuns -----------------------------
(***************************************************************************)
(* One Session: the Orchestrator Durable Object, which owns the queue of   *)
(* Agent Runs and the Session state machine, and the sandbox agent, which  *)
(* works through the messages it is sent one at a time.  The two exchange  *)
(* messages over a WebSocket that may drop; whatever is on the wire then   *)
(* is lost, while the sandbox keeps what it wanted to send in an outbox.   *)
(*                                                                         *)
(* A handler of the Durable Object runs to its first `await` without       *)
(* interleaving, so each one is a single action; a handler that awaits is  *)
(* split there (BranchPushed / SettlePullRequest).                         *)
(*                                                                         *)
(* The `run` field of a message is the run on whose behalf it was sent.    *)
(* The code carries it only in the messages listed in RunTagged; for the   *)
(* others the handlers below never read it, and only properties do.        *)
(***************************************************************************)
EXTENDS SessionState, Naturals, Sequences, FiniteSets

CONSTANTS
    PlanRuns,                \* Agent Requests submitted with plan_first
    TurnRuns,                \* Agent Requests submitted without it
    NoRun,                   \* "no active run"
    MaxRefinementRounds,     \* MAX_REFINEMENT_ROUNDS
    MaxVerificationAttempts, \* MAX_VERIFICATION_ATTEMPTS
    MaxDrops                 \* bound: unexpected socket closes per behaviour

Runs == PlanRuns \cup TurnRuns
Rounds == 0 .. MaxRefinementRounds

ASSUME RunsAssumption ==
    /\ IsFiniteSet(PlanRuns) /\ IsFiniteSet(TurnRuns)
    /\ PlanRuns \cap TurnRuns = {}
    /\ NoRun \notin Runs

ASSUME BoundsAssumption ==
    /\ MaxRefinementRounds \in Nat
    /\ MaxVerificationAttempts \in Nat \ {0}
    /\ MaxDrops \in Nat

VARIABLES
    state,        \* meta.state
    active,       \* meta.active_run, or NoRun
    runState,     \* meta.active_run.state, or "none"
    queue,        \* meta.queued_runs
    round,        \* meta.refinement_round
    attempts,     \* meta.verification_attempts
    plan,         \* meta.latest_plan: the run and round it was written for
    revision,     \* table plan_revisions: the plan frozen for a run and round
    locked,       \* table plan_revisions: the rows with locked_at set
    publishing,   \* handleBranchPushed calls waiting for GitHub
    attached,     \* a live sandbox socket exists
    grace,        \* meta.sandbox_disconnected_at is set
    closing,      \* terminateSandbox has begun (meta.expected_close)
    toSandbox,    \* messages on the wire to, or in the main queue of, the sandbox
    fromSandbox,  \* messages on the wire from, or in the outbox of, the sandbox
    work,         \* the message the sandbox is working on
    drops,        \* sockets dropped so far
    requests,     \* event log: the agent_request events
    outcome       \* event log: the last agent_run_completed/_failed of each run

\* What a handler that decides about runs may change, and the rest.
runVars == <<state, active, runState, queue, round, attempts, plan, toSandbox, outcome>>
revisionVars == <<revision, locked>>
linkVars == <<attached, grace, closing, drops>>
vars == <<runVars, revisionVars, publishing, linkVars, fromSandbox, work, requests>>

-----------------------------------------------------------------------------
(* Messages and records *)

Msg(type, run, n) == [type |-> type, run |-> run, n |-> n]
Idle   == Msg("idle", NoRun, 0)
NoPlan == [run |-> NoRun, n |-> 0]

\* sendToSandbox: with no live socket the message is dropped.
Sent(m, up) == IF up THEN Append(toSandbox, m) ELSE toSandbox

Terminal == IsTerminalState(state)

-----------------------------------------------------------------------------
(* The run coordinator: agent-run-coordinator.ts *)

\* The fields startAgentRun clears.
ResetRun == plan' = NoPlan /\ attempts' = 0 /\ round' = 0

\* startAgentRun in a ready Session; `up` says whether a socket is live.
StartAgentRun(r, up) ==
    /\ active' = r
    /\ ResetRun
    /\ IF r \in PlanRuns
         THEN /\ state' = "planning" /\ runState' = "thinking"
              /\ toSandbox' = Sent(Msg("plan", r, 0), up)
         ELSE /\ state' = "executing" /\ runState' = "executing"
              /\ toSandbox' = Sent(Msg("agent_turn", r, 0), up)

NoneWaitingKeepingRun(s) ==
    /\ queue = <<>>
    /\ state' = s
    /\ UNCHANGED <<active, runState, queue, round, attempts, plan, toSandbox>>
NoneWaiting(s) ==
    /\ queue = <<>>
    /\ active' = NoRun /\ runState' = "none" /\ state' = s
    /\ UNCHANGED <<queue, round, attempts, plan, toSandbox>>

NextStartsUnqueued(s) ==
    /\ queue # <<>> /\ s = "ready"
    /\ UNCHANGED queue
    /\ StartAgentRun(Head(queue), attached)
NextStarts(s) ==
    /\ queue # <<>> /\ s = "ready"
    /\ queue' = Tail(queue)
    /\ StartAgentRun(Head(queue), attached)

\* startAgentRun outside "ready" fails the run and finishes it in turn, which
\* starts the next one: the whole queue fails.
AllWaitingFail(s) ==
    /\ queue # <<>> /\ s # "ready"
    /\ active' = NoRun /\ runState' = "none" /\ state' = s
    /\ queue' = <<>>
    /\ ResetRun
    /\ UNCHANGED toSandbox

\* finishRunAndDrainQueue after the event with the run's outcome, in state s.
FinishRun(s, o) ==
    /\ NoneWaiting(s) \/ NextStarts(s) \/ AllWaitingFail(s)
    /\ outcome' =
         [r \in Runs |->
            IF queue # <<>> /\ s # "ready" /\ r \in {queue[i] : i \in DOMAIN queue}
              THEN "failed"
              ELSE IF r = active THEN o ELSE outcome[r]]

\* completeActiveRun and failActiveRunAndReturnReady return to "ready" where
\* the transition table allows it and stay in the state they are in otherwise.
AfterRunUnmoved == state
AfterRun == IF IsValidTransition(state, "ready") THEN "ready" ELSE state

SettleActiveRun(o) ==
    IF active = NoRun THEN UNCHANGED runVars ELSE FinishRun(AfterRun, o)

\* transition(to) followed by setActiveRunState(rs).
MoveRunSilently(to, rs) ==
    /\ IsValidTransition(state, to)
    /\ state' = to
    /\ UNCHANGED <<active, runState, queue, outcome>>
MoveRun(to, rs) ==
    /\ IsValidTransition(state, to)
    /\ state' = to
    /\ runState' = IF active = NoRun THEN runState ELSE rs
    /\ UNCHANGED <<active, queue, outcome>>

\* transition(to) in a handler that concerns no run.
MoveSession(to) ==
    /\ IsValidTransition(state, to)
    /\ state' = to
    /\ UNCHANGED <<active, runState, queue, round, attempts, plan, toSandbox, outcome>>

\* drainQueuedAgentWorkIfReady, in state s and with the socket `up`.
DrainLater(s, up) ==
    /\ state' = s
    /\ UNCHANGED <<active, runState, queue, round, attempts, plan, toSandbox, outcome>>
DrainQueuedWork(s, up) ==
    IF s = "ready" /\ active = NoRun /\ queue # <<>> /\ up
      THEN /\ StartAgentRun(Head(queue), up)
           /\ queue' = Tail(queue)
           /\ UNCHANGED outcome
      ELSE /\ state' = s
           /\ UNCHANGED <<active, runState, queue, round, attempts, plan, toSandbox, outcome>>

-----------------------------------------------------------------------------
(* Commands of the Session's participants: cli-handlers.ts, orchestrator.ts *)

\* enqueueAgentRun puts a request behind those that wait.
EnqueuedFirst(r) == <<r>> \o queue
Enqueued(r) == Append(queue, r)

\* handleAgentRequest.  In a ready, idle, connected Session the oldest waiting
\* run starts, which is the new one when nothing waits.  There is no check of
\* a terminal state.
AgentRequest(r) ==
    /\ r \notin {requests[i] : i \in DOMAIN requests}
    /\ requests' = Append(requests, r)
    /\ LET waiting == Enqueued(r)
       IN  IF state = "ready" /\ active = NoRun /\ attached
             THEN /\ StartAgentRun(Head(waiting), attached)
                  /\ queue' = Tail(waiting)
             ELSE /\ queue' = waiting
                  /\ UNCHANGED <<state, active, runState, round, attempts, plan, toSandbox>>
    /\ UNCHANGED <<outcome, revisionVars, publishing, linkVars, fromSandbox, work>>

\* handleApprove: a decision names at most the run, never the round.
Approve ==
    /\ active # NoRun /\ state = "awaiting_approval"
    /\ MoveRun("executing", "executing")
    /\ toSandbox' = Sent(Msg("execute", active, 0), attached)
    /\ UNCHANGED <<round, attempts, plan, revisionVars, publishing, linkVars,
                   fromSandbox, work, requests>>

\* dispatchProseBrief.
DispatchProseBrief ==
    /\ round' = round + 1
    /\ toSandbox' = Sent(Msg("refine_plan", active, round + 1), attached)

\* The limit handleRefine checks when a participant asks for a refinement.
MayRefine == round < MaxRefinementRounds

\* handleRefine and startPlanFirstRefinement.  How many annotation threads are
\* open decides between a brief and a consolidation.  A plan-first run whose
\* revision is missing is put back to awaiting_approval: nothing changes.
Refine ==
    /\ active # NoRun /\ state = "awaiting_approval"
    /\ MayRefine
    /\ active \in PlanRuns => revision[<<active, round>>] # NoPlan
    /\ MoveRun("refining", "thinking")
    /\ locked' = IF active \in PlanRuns THEN locked \cup {<<active, round>>} ELSE locked
    /\ \/ DispatchProseBrief
       \/ /\ active \in PlanRuns
          /\ toSandbox' = Sent(Msg("consolidate_annotations", active, round), attached)
          /\ UNCHANGED round
    /\ UNCHANGED <<attempts, plan, revision, publishing, linkVars, fromSandbox, work, requests>>

\* handleAbort: nothing is sent to the sandbox, which goes on working.
Abort ==
    /\ active # NoRun
    /\ IsValidTransition(state, "ready")
    /\ FinishRun("ready", "failed")
    /\ UNCHANGED <<revisionVars, publishing, linkVars, fromSandbox, work, requests>>

\* The Session ends in state s and terminateSandbox begins.  Unlike failSession
\* these ends leave the active run and the queue as they are.
EndSession(s) ==
    /\ ~Terminal
    /\ MoveSession(s)
    /\ closing' = TRUE
    /\ UNCHANGED <<revisionVars, publishing, attached, grace, drops, work, requests>>

\* handleStopSession.
StopSession == EndSession("failed") /\ UNCHANGED fromSandbox

\* expireSessionAtMaxTime.
MaxTimeExpired == EndSession("timed_out") /\ UNCHANGED fromSandbox

\* The alarm, 60 seconds after creation.
ProvisioningTimedOut ==
    /\ state = "provisioning_sandbox"
    /\ EndSession("timed_out") /\ UNCHANGED fromSandbox

\* The catch block of provisionSessionSandbox.
ProvisioningFailed ==
    /\ state \in {"provisioning_sandbox", "cloning_repo"}
    /\ EndSession("failed") /\ UNCHANGED fromSandbox

-----------------------------------------------------------------------------
(* The sandbox agent: runtime.ts, verification.ts, entrypoint.ts *)

\* The main queue of the dispatcher runs one handler at a time.
SandboxTake ==
    /\ work = Idle /\ toSandbox # <<>>
    /\ work' = Head(toSandbox) /\ toSandbox' = Tail(toSandbox)
    /\ UNCHANGED <<state, active, runState, queue, round, attempts, plan, outcome,
                   revisionVars, publishing, linkVars, fromSandbox, requests>>

\* handleMessage: an exception anywhere becomes an `error` message.
Error(w) == <<Msg("error", w.run, 0), Idle>>
Done(w, type, n) == <<Msg(type, w.run, n), Idle>>

\* What PiAgentDriver does.  start throws without the model or a capability for
\* it, switchToExecution without the agent too; turn ends with a text, or throws
\* if the model stopped with an error or said nothing.
StartThrows(w) == {Error(w)}
SwitchThrows(w) == {Error(w)}
Turn(answer, failure) == {answer, failure}

\* consolidateAnnotations: an agent of its own, disposed of in the end, writes
\* the brief; it throws as start and turn do.
Brief(written, failure) == {written, failure}

\* runGitCommand rejects on an exit code, a timeout or when it cannot start.
GitThrows(w) == {Error(w)}

\* runShell: exit code 0, another one or a timeout, or no process.
CommandEnds(w, passed, failed) == {passed, failed, Error(w)}

\* RepositoryVerifier.verify: a repository without a command passes.
Verified(w, passed, failed) == {passed} \cup CommandEnds(w, passed, failed)

\* runVerificationLoop inside handleExecute: the message that ends attempt n.
VerificationResults(w) ==
    Verified(w, Done(w, "execution_complete", 0),
             IF w.n = MaxVerificationAttempts
               THEN Done(w, "verification_failed", w.n)
               ELSE <<Msg("verification_retrying", w.run, w.n), Msg("repair", w.run, w.n)>>)
VerifyResults(w, n) == {<<Msg("verification_started", w.run, n), Msg("verify", w.run, n)>>}

\* handleInit, handlePlan, handleRefine, handleConsolidateAnnotations,
\* handleAgentTurn, handleExecute and handleCreatePullRequest.
CloneResults(w) == {Done(w, "clone_complete", 0)} \cup GitThrows(w)
PlanResults(w) == StartThrows(w) \cup Turn(Done(w, "plan_ready", w.n), Error(w))
RefineResults(w) == Turn(Done(w, "plan_ready", w.n), Error(w))
ConsolidateResults(w) ==
    Brief(Done(w, "consolidation_complete", w.n), Done(w, "consolidation_failed", w.n))
TurnResults(w) ==
    StartThrows(w) \cup Turn(Done(w, "agent_turn_complete", 0), Done(w, "agent_turn_failed", 0))
ExecuteResults(w) == VerifyResults(w, 1) \cup SwitchThrows(w)
RepairResults(w) == VerifyResults(w, w.n + 1) \cup {Error(w)}
PushResults(w) == {Done(w, "branch_pushed", 0)} \cup GitThrows(w)

\* handleMessage: the next message the handler at work may send, with the work
\* left after it.
Results(w) ==
    CASE w.type = "init" ->
           {<<Msg("clone_started", NoRun, 0), Msg("clone", NoRun, 0)>>}
      [] w.type = "clone"                   -> CloneResults(w)
      [] w.type = "plan"                    -> PlanResults(w)
      [] w.type = "refine_plan"             -> RefineResults(w)
      [] w.type = "consolidate_annotations" -> ConsolidateResults(w)
      [] w.type = "agent_turn"              -> TurnResults(w)
      [] w.type = "execute"                 -> ExecuteResults(w)
      [] w.type = "verify"                  -> VerificationResults(w)
      [] w.type = "repair"                  -> RepairResults(w)
      [] w.type = "create_pr"               -> PushResults(w)

SandboxStep ==
    /\ work # Idle
    /\ \E res \in Results(work) :
          /\ fromSandbox' = Append(fromSandbox, res[1])
          /\ work' = res[2]
    /\ UNCHANGED <<runVars, revisionVars, publishing, linkVars, requests>>

-----------------------------------------------------------------------------
(* Messages from the sandbox: dispatchSandboxSocketMessage *)

Message == Head(fromSandbox)

Receive(types) ==
    /\ attached /\ fromSandbox # <<>>
    /\ Message.type \in types
    /\ fromSandbox' = Tail(fromSandbox)
    /\ UNCHANGED <<work, requests>>

\* The result of a turn counts for the active run only.
TurnIsCurrent(m) == state = "executing" /\ active = m.run

\* A consolidation counts for the run and round it was asked for.
NextRoundIsCurrent(m) == state = "refining" /\ active = m.run /\ round = m.n + 1
ConsolidationIsCurrent(m) == state = "refining" /\ active = m.run /\ round = m.n

\* The early returns of the handlers: what makes a message take effect.
Accepts(m) ==
    CASE m.type = "clone_started"          -> state = "provisioning_sandbox"
      [] m.type = "clone_complete"         -> state = "cloning_repo"
      [] m.type = "plan_ready"             -> state \in {"planning", "refining"}
      [] m.type \in {"agent_turn_complete", "agent_turn_failed"} -> TurnIsCurrent(m)
      [] m.type = "verification_started"   ->
           state \in {"executing", "retrying", "verifying"}
      [] m.type \in {"verification_retrying", "verification_failed",
                     "execution_complete"} -> state = "verifying"
      [] m.type \in {"consolidation_complete", "consolidation_failed"} -> ConsolidationIsCurrent(m)
      [] m.type = "branch_pushed"          -> state = "creating_pr"
      [] m.type = "error"                  -> ~Terminal

\* A message no handler acts on; plan_ready replaces latest_plan all the same.
IgnoreMessage ==
    /\ attached /\ fromSandbox # <<>> /\ ~Accepts(Message)
    /\ fromSandbox' = Tail(fromSandbox)
    /\ plan' = IF Message.type = "plan_ready"
                 THEN [run |-> Message.run, n |-> Message.n] ELSE plan
    /\ UNCHANGED <<state, active, runState, queue, round, attempts, toSandbox, outcome,
                   revisionVars, publishing, linkVars, work, requests>>

\* handleSandboxCloneStarted.
CloneStarted ==
    /\ Receive({"clone_started"}) /\ Accepts(Message)
    /\ MoveSession("cloning_repo")
    /\ UNCHANGED <<revisionVars, publishing, linkVars>>

\* handleSandboxCloneComplete.
CloneComplete ==
    /\ Receive({"clone_complete"}) /\ Accepts(Message)
    /\ DrainQueuedWork("ready", attached)
    /\ UNCHANGED <<revisionVars, publishing, linkVars>>

\* freezePlanRevision: the row of the active run and round is replaced, unlocked.
FreezeUnderRoundBefore(p) ==
    IF active \in PlanRuns
      THEN /\ revision' = [revision EXCEPT ![<<active, IF round = 0 THEN 0 ELSE round - 1>>] = p]
           /\ locked' = locked \ {<<active, round>>}
      ELSE UNCHANGED revisionVars
FreezePlanRevision(p) ==
    IF active \in PlanRuns
      THEN /\ revision' = [revision EXCEPT ![<<active, round>>] = p]
           /\ locked' = locked \ {<<active, round>>}
      ELSE UNCHANGED revisionVars

\* handleSandboxPlanReady: the plan is taken for the active run and frozen as
\* its revision of the current round.
PlanReady ==
    /\ Receive({"plan_ready"}) /\ Accepts(Message)
    /\ MoveRun("awaiting_approval", "awaiting_approval")
    /\ plan' = [run |-> Message.run, n |-> Message.n]
    /\ FreezePlanRevision([run |-> Message.run, n |-> Message.n])
    /\ UNCHANGED <<round, attempts, toSandbox, publishing, linkVars>>

\* handleConsolidationComplete.
ConsolidationComplete ==
    /\ Receive({"consolidation_complete"}) /\ Accepts(Message)
    /\ DispatchProseBrief
    /\ UNCHANGED <<state, active, runState, queue, attempts, plan, outcome,
                   revisionVars, publishing, linkVars>>

\* handleConsolidationFailed: the revision stays locked.
ConsolidationFailed ==
    /\ Receive({"consolidation_failed"}) /\ Accepts(Message)
    /\ MoveRun("awaiting_approval", "awaiting_approval")
    /\ UNCHANGED <<round, attempts, plan, toSandbox, revisionVars, publishing, linkVars>>

\* handleSandboxAgentTurnComplete, handleSandboxAgentTurnFailed.
AgentTurnEnded ==
    /\ Receive({"agent_turn_complete", "agent_turn_failed"}) /\ Accepts(Message)
    /\ SettleActiveRun(IF Message.type = "agent_turn_complete" THEN "completed" ELSE "failed")
    /\ UNCHANGED <<revisionVars, publishing, linkVars>>

\* handleSandboxVerificationStarted: in "verifying" only the count changes.
VerificationStarted ==
    /\ Receive({"verification_started"}) /\ Accepts(Message)
    /\ IF state = "verifying"
         THEN UNCHANGED <<state, active, runState, queue, outcome>>
         ELSE MoveRun("verifying", "verifying")
    /\ attempts' = Message.n
    /\ UNCHANGED <<round, plan, toSandbox, revisionVars, publishing, linkVars>>

\* handleSandboxVerificationRetrying.
VerificationRetrying ==
    /\ Receive({"verification_retrying"}) /\ Accepts(Message)
    /\ MoveRun("retrying", "executing")
    /\ attempts' = Message.n
    /\ UNCHANGED <<round, plan, toSandbox, revisionVars, publishing, linkVars>>

\* handleSandboxVerificationFailed.
VerificationFailed ==
    /\ Receive({"verification_failed"}) /\ Accepts(Message)
    /\ SettleActiveRun("failed")
    /\ UNCHANGED <<revisionVars, publishing, linkVars>>

\* handleSandboxExecutionComplete.
ExecutionComplete ==
    /\ Receive({"execution_complete"}) /\ Accepts(Message)
    /\ MoveRun("creating_pr", "publishing")
    /\ toSandbox' = Sent(Msg("create_pr", active, 0), attached)
    /\ UNCHANGED <<round, attempts, plan, revisionVars, publishing, linkVars>>

\* handleBranchPushed up to its await of GitHub.
BranchPushed ==
    /\ Receive({"branch_pushed"}) /\ Accepts(Message)
    /\ publishing' = publishing \cup {Message.run}
    /\ UNCHANGED <<runVars, revisionVars, linkVars>>

\* handleBranchPushed after it: whatever run is active now is settled, in
\* whatever state the Session is in now.
SettlePullRequest(r, o) ==
    /\ r \in publishing
    /\ publishing' = publishing \ {r}
    /\ SettleActiveRun(o)
    /\ UNCHANGED <<revisionVars, linkVars, fromSandbox, work, requests>>

\* An `error` while executing fails the run.
ErrorFailsRun ==
    /\ Receive({"error"}) /\ Accepts(Message)
    /\ active # NoRun /\ state = "executing"
    /\ SettleActiveRun("failed")
    /\ UNCHANGED <<revisionVars, publishing, linkVars>>

\* Any other `error` fails the Session.
ErrorEndsSession ==
    /\ Receive({"error"}) /\ Accepts(Message)
    /\ ~(active # NoRun /\ state = "executing")
    /\ EndSession("failed")

-----------------------------------------------------------------------------
(* The sandbox connection: orchestrator.ts, sandbox-connection.ts *)

\* What the sandbox sent before it noticed a drop is lost; its outbox is not.
FlushOutbox ==
    \E k \in 1 .. Len(fromSandbox) + 1 :
        fromSandbox' = SubSeq(fromSandbox, k, Len(fromSandbox))

\* acceptSandboxWebSocket in mode "initialize": no reconnect bookkeeping.
ConnectInitialize ==
    /\ ~attached /\ state = "provisioning_sandbox"
    /\ attached' = TRUE
    /\ FlushOutbox
    /\ toSandbox' = Append(toSandbox, Msg("init", NoRun, 0))
    /\ UNCHANGED <<state, active, runState, queue, round, attempts, plan, outcome,
                   revisionVars, publishing, grace, closing, drops, work, requests>>

\* acceptSandboxWebSocket in mode "resume".
ConnectResume ==
    /\ ~attached /\ ~Terminal /\ state # "provisioning_sandbox"
    /\ attached' = TRUE /\ grace' = FALSE
    /\ FlushOutbox
    /\ DrainQueuedWork(state, TRUE)
    /\ UNCHANGED <<revisionVars, publishing, closing, drops, work, requests>>

\* webSocketClose of the sandbox's socket.  Of the messages sent to the sandbox
\* those already delivered stay in its main queue.
Disconnect ==
    /\ attached /\ drops < MaxDrops
    /\ drops' = drops + 1
    /\ attached' = FALSE
    /\ grace' = (grace \/ ~(closing \/ Terminal))
    /\ \E k \in 0 .. Len(toSandbox) : toSandbox' = SubSeq(toSandbox, 1, k)
    /\ UNCHANGED <<state, active, runState, queue, round, attempts, plan, outcome,
                   revisionVars, publishing, closing, fromSandbox, work, requests>>

\* failExpiredSandboxReconnect.
ReconnectExpired ==
    /\ grace /\ ~Terminal
    /\ state' = "failed" /\ closing' = TRUE
    /\ runState' = IF active = NoRun THEN runState ELSE "failed"
    /\ outcome' = [r \in Runs |-> IF r = active THEN "failed" ELSE outcome[r]]
    /\ UNCHANGED <<active, queue, round, attempts, plan, toSandbox, revisionVars,
                   publishing, attached, grace, drops, fromSandbox, work, requests>>

\* failSession and failOutstandingRuns: every run the Session still owns fails,
\* the active one stays and the queue is emptied.
FailSession ==
    /\ ~Terminal
    /\ state' = "failed"
    /\ runState' = IF active = NoRun THEN runState ELSE "failed"
    /\ queue' = <<>>
    /\ outcome' =
         [r \in Runs |->
            IF r = active \/ r \in {queue[i] : i \in DOMAIN queue} THEN "failed" ELSE outcome[r]]
    /\ UNCHANGED <<active, round, attempts, plan, toSandbox, revisionVars, publishing,
                   attached, grace, drops, fromSandbox, work, requests>>

\* failLostSandbox: a lease renewal, a pause or a resume finds that the provider
\* has no sandbox any more.  No lease is due while one is being provisioned.
SandboxLost ==
    /\ state # "provisioning_sandbox"
    /\ FailSession
    /\ UNCHANGED closing

\* failSandboxResume: the last attempt to wake a paused sandbox failed.  An
\* earlier one may have woken it all the same, so that the agent is back and a
\* run has started.  Only a ready Session is paused.
ResumeFails ==
    /\ state \notin {"provisioning_sandbox", "cloning_repo"}
    /\ FailSession
    /\ closing' = TRUE

\* terminateSandbox after its await: sandbox and socket are gone.
SandboxDestroyed ==
    /\ closing
    /\ <<attached, toSandbox, fromSandbox, work>> # <<FALSE, <<>>, <<>>, Idle>>
    /\ attached' = FALSE
    /\ toSandbox' = <<>> /\ fromSandbox' = <<>> /\ work' = Idle
    /\ UNCHANGED <<state, active, runState, queue, round, attempts, plan, outcome,
                   revisionVars, publishing, grace, closing, drops, requests>>

-----------------------------------------------------------------------------
\* init() of the orchestrator and provisionSessionSandbox to its first await.
Init ==
    /\ state = "provisioning_sandbox"
    /\ active = NoRun /\ runState = "none" /\ queue = <<>>
    /\ round = 0 /\ attempts = 0 /\ plan = NoPlan
    /\ revision = [k \in PlanRuns \X Rounds |-> NoPlan] /\ locked = {}
    /\ publishing = {}
    /\ attached = FALSE /\ grace = FALSE /\ closing = FALSE /\ drops = 0
    /\ toSandbox = <<>> /\ fromSandbox = <<>> /\ work = Idle
    /\ requests = <<>> /\ outcome = [r \in Runs |-> "none"]

Command == (\E r \in Runs : AgentRequest(r)) \/ Approve \/ Refine

SessionEnds == StopSession \/ MaxTimeExpired \/ ProvisioningTimedOut
               \/ ProvisioningFailed \/ ReconnectExpired \/ SandboxLost \/ ResumeFails

Sandbox == SandboxTake \/ SandboxStep

Orchestrator ==
    \/ IgnoreMessage \/ CloneStarted \/ CloneComplete
    \/ PlanReady \/ ConsolidationComplete \/ ConsolidationFailed
    \/ AgentTurnEnded
    \/ VerificationStarted \/ VerificationRetrying \/ VerificationFailed
    \/ ExecutionComplete \/ BranchPushed
    \/ ErrorFailsRun \/ ErrorEndsSession

PullRequestSettled ==
    \E r \in publishing, o \in {"completed", "failed"} : SettlePullRequest(r, o)

Connect == ConnectInitialize \/ ConnectResume

Uninterrupted ==
    \/ Command \/ SessionEnds \/ Sandbox \/ Orchestrator \/ PullRequestSettled
    \/ Connect \/ Disconnect \/ SandboxDestroyed

Next == Uninterrupted \/ Abort

Spec == Init /\ [][Next]_vars

\* The sandbox keeps working, the runtime delivers socket messages, GitHub
\* answers or the call fails, and a running sandbox connects (or reconnects).
Fairness ==
    /\ WF_vars(Sandbox) /\ WF_vars(Orchestrator)
    /\ WF_vars(PullRequestSettled) /\ WF_vars(Connect)

FairSpec == Spec /\ Fairness

-----------------------------------------------------------------------------
(* Types *)

Owners == Runs \cup {NoRun}
Plans == [run : Owners, n : Rounds]
Attempts == 1 .. MaxVerificationAttempts

\* DOToSandboxMessage, the part the main queue handles.
ToSandboxMessages ==
    [type : {"init"}, run : {NoRun}, n : {0}] \cup
    [type : {"plan"}, run : PlanRuns, n : {0}] \cup
    [type : {"agent_turn"}, run : TurnRuns, n : {0}] \cup
    [type : {"refine_plan"}, run : PlanRuns, n : Rounds] \cup
    [type : {"consolidate_annotations"}, run : PlanRuns, n : Rounds \ {MaxRefinementRounds}] \cup
    [type : {"execute"}, run : PlanRuns, n : {0}] \cup
    [type : {"create_pr"}, run : Owners, n : {0}]

\* What the sandbox can be in the middle of.
Works ==
    ToSandboxMessages \cup {Idle} \cup
    [type : {"clone"}, run : {NoRun}, n : {0}] \cup
    [type : {"verify"}, run : PlanRuns, n : Attempts] \cup
    [type : {"repair"}, run : PlanRuns, n : Attempts \ {MaxVerificationAttempts}]

\* SandboxToDOMessage, the part that concerns runs and boot.
FromSandboxMessages ==
    [type : {"clone_started", "clone_complete"}, run : {NoRun}, n : {0}] \cup
    [type : {"plan_ready"}, run : PlanRuns, n : Rounds] \cup
    [type : {"agent_turn_complete", "agent_turn_failed"}, run : TurnRuns, n : {0}] \cup
    [type : {"verification_started", "verification_retrying", "verification_failed"},
     run : PlanRuns, n : Attempts] \cup
    [type : {"execution_complete"}, run : PlanRuns, n : {0}] \cup
    [type : {"consolidation_complete", "consolidation_failed"},
     run : PlanRuns, n : Rounds \ {MaxRefinementRounds}] \cup
    [type : {"branch_pushed", "error"}, run : Owners, n : {0}]

RunTypeOK ==
    /\ state \in SessionStates \ {"initializing", "completed"}
    /\ active \in Owners
    /\ runState \in {"none", "thinking", "awaiting_approval", "executing",
                     "verifying", "publishing", "failed"}
    /\ queue \in Seq(Runs)
    /\ round \in Rounds
    /\ attempts \in 0 .. MaxVerificationAttempts
    /\ plan \in Plans
    /\ toSandbox \in Seq(ToSandboxMessages)
    /\ outcome \in [Runs -> {"none", "completed", "failed"}]

RestTypeOK ==
    /\ revision \in [PlanRuns \X Rounds -> Plans]
    /\ locked \subseteq PlanRuns \X Rounds
    /\ publishing \subseteq Owners
    /\ attached \in BOOLEAN /\ grace \in BOOLEAN /\ closing \in BOOLEAN
    /\ drops \in 0 .. MaxDrops
    /\ fromSandbox \in Seq(FromSandboxMessages)
    /\ work \in Works
    /\ requests \in Seq(Runs)

\* Every variable has its type; in particular every message in flight has the
\* form its receiver expects, and the refinement round stays within the limit
\* although a consolidation increments it without looking (dispatchProseBrief).
TypeOK == RunTypeOK /\ RestTypeOK

-----------------------------------------------------------------------------
(* Safety of every behaviour *)

\* Runs start in the order they were requested, each at most once, and none is
\* skipped: what waits is the tail of the agent_request log, and the active run
\* is the request right before that tail (enqueueAgentRun, finishActiveAgentRun,
\* drainQueuedAgentWorkIfReady).  Only failSession gives up requests behind the
\* active run, which it keeps: those have failed, and the Session with them.
QueueIsTailOfRequests ==
    \E k \in 0 .. Len(requests) :
        /\ queue = SubSeq(requests, k + 1, Len(requests))
        /\ active # NoRun =>
              \E j \in 1 .. k :
                 /\ active = requests[j]
                 /\ \A i \in j + 1 .. k : Terminal /\ outcome[requests[i]] = "failed"

\* A ready Session is idle, and with a live socket nothing waits in it: every
\* path into "ready" and every path that attaches a socket drains the queue
\* (handleAgentRequest, handleSandboxCloneComplete, acceptSandboxWebSocket,
\* finishRunAndDrainQueue).
ReadySessionIsDrained ==
    state = "ready" => active = NoRun /\ (attached => queue = <<>>)

\* While a run is under review there is a plan-first run, and the revision its
\* participants annotate, refine or approve exists, so the "Plan revision not
\* found" branch of startPlanFirstRefinement is never taken.
ReviewHasRevision ==
    state = "awaiting_approval" =>
        active \in PlanRuns /\ revision[<<active, round>>] # NoPlan

\* The state of the active run that the directory and the clients show is the
\* one of the Session's phase (setActiveRunState beside every transition).
RunStateOf ==
    [planning |-> "thinking", awaiting_approval |-> "awaiting_approval",
     refining |-> "thinking", executing |-> "executing",
     verifying |-> "verifying", retrying |-> "executing", creating_pr |-> "publishing"]

RunStateFollowsSession ==
    active # NoRun /\ ~Terminal =>
        state \in DOMAIN RunStateOf /\ runState = RunStateOf[state]

\* Only the continuation of handleBranchPushed, which looks at no state after
\* its await, gives a run a second outcome.
OutcomeIsFinal ==
    [][\A r \in Runs : outcome[r] \notin {"none", outcome'[r]} => publishing' # publishing]_vars

\* The Session keeps the promise of RunLedger: runs are taken up one at a time
\* and in order, and none that waits is given up alone (handleAgentRequest,
\* finishRunAndDrainQueue, failOutstandingRuns).
Ledger == INSTANCE RunLedger
            WITH log <- requests, taken <- Len(requests) - Len(queue), current <- active,
                 open <- ~Terminal

KeepsRunLedger == Ledger!Spec

-----------------------------------------------------------------------------
(* What an approval ships *)

\* plan_ready carries no run id: after an abort the plan of one run may be taken
\* for another's.
TakenForAnother ==
    plan.run # active \/ \E n \in Rounds : revision[<<active, n>>].run \notin {active, NoRun}

\* Unless that has happened to the run under review, latest_plan, which an
\* approval ships, is the revision that was frozen for this round, whatever
\* plans, refinements and late messages came before (handleSandboxPlanReady,
\* freezePlanRevision, handleApprove).
ApproveShipsFrozenRevision ==
    state = "awaiting_approval" /\ ~TakenForAnother => plan = revision[<<active, round>>]

-----------------------------------------------------------------------------
(* Liveness, with a connection that does not drop (MaxDrops = 0) *)

\* A run never hangs: each active run is settled, comes up for review, or the
\* Session ends, even when other runs were aborted while the sandbox was still
\* working on them.
RunMakesProgress ==
    \A r \in Runs : active = r ~> active # r \/ state = "awaiting_approval" \/ Terminal

\* Every Agent Request, however many are before it, gets an outcome, unless a
\* review keeps the Session, the Session ends, or a pull request of an aborted
\* run has settled the active one in "retrying", which has no way back to
\* "ready" (handleBranchPushed): the phase then stays with no run to end it.
PhaseWithoutRun ==
    active = NoRun /\ state \in {"verifying", "retrying", "creating_pr"}

RequestIsAnswered ==
    \A r \in Runs :
        (\E i \in DOMAIN requests : requests[i] = r) ~>
            outcome[r] # "none" \/ state = "awaiting_approval" \/ Terminal \/ PhaseWithoutRun

=============================================================================
