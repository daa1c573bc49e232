-------------------------- MODULE SandboxLifecycle --------------------------
(***************************************************************************)
(* The life of a sandbox that can be paused (E2B) after its repository has *)
(* been cloned: idle pause, resume with retries, reconnect grace, preview  *)
(* commands kept for later, teardown, and the provider calls behind them,  *)
(* each of which is in flight while other events are handled.              *)
(*                                                                         *)
(* What a run does between its start and its end is SessionRuns: here a    *)
(* Session is ready, executing (any state with an active run) or failed    *)
(* (any terminal state).  The clock is left out: whatever is due may be    *)
(* due at any moment.                                                      *)
(***************************************************************************)
EXTENDS Naturals

CONSTANTS
    ResumeAttempts,  \* RESUME_ATTEMPTS
    MaxQueued,       \* bound: requests that wait
    MaxFaults        \* bound: provider errors and dropped sockets

ASSUME LifecycleAssumption ==
    ResumeAttempts \in Nat \ {0} /\ MaxQueued \in Nat /\ MaxFaults \in Nat

VARIABLES
    meta,      \* the persisted fields of session_meta, see Meta
    live,      \* a sandbox socket that is open and not closing
    alarm,     \* what the alarm handler awaits
    resuming,  \* the resume in flight, and what it awaits
    attempt,   \* its attempt
    ending,    \* terminateSandbox, and what it awaits
    vm,        \* the sandbox at the provider
    pauseCall, \* the provider's pause call
    wanted,    \* the last preview command of a participant
    agentHas,  \* the last preview command that reached the agent
    token,     \* the agent's WebSocket token, and one in its file not taken yet
    faults     \* faults so far

vars == <<meta, live, alarm, resuming, attempt, ending, vm, pauseCall,
          wanted, agentHas, token, faults>>

Commands == {"start", "stop"}
NoCommand == "none"

\* pausedAt, grace: whether sandbox_paused_at and sandbox_disconnected_at are
\* set; pending: pending_preview_action.
Meta == [ state : {"ready", "executing", "failed"}, queued : 0 .. MaxQueued,
          pausedAt : BOOLEAN, expectedClose : BOOLEAN, grace : BOOLEAN,
          pending : Commands \cup {NoCommand} ]

\* A capability that sandbox-ws-token.ts still accepts, or one past its TTL.
Tokens == {"fresh", "stale"}
NoToken == "none"

Terminal == meta.state = "failed"

\* The WeakMap `pausing`: from pauseIdleSandbox to the answer of the provider.
Pausing == alarm \in {"connecting", "pausing"}

\* sandboxSocketAttached.
AttachedWhilePausing == live
Attached == live /\ ~Pausing

-----------------------------------------------------------------------------
(* Steps that several handlers share, as functions of the meta record *)

\* drainQueuedAgentWorkIfReady.
Drained(m, attached) ==
    IF m.state = "ready" /\ m.queued > 0 /\ attached
      THEN [m EXCEPT !.state = "executing", !.queued = @ - 1]
      ELSE m

\* flushPendingPreviewAction.
Flushes(m, attached) ==
    m.pending # NoCommand /\ ~m.pausedAt /\ m.state # "failed" /\ attached
AgentGets(m, attached) == IF Flushes(m, attached) THEN m.pending ELSE agentHas
Flushed(m, attached) ==
    IF Flushes(m, attached) THEN [m EXCEPT !.pending = NoCommand] ELSE m

\* Both, in the order of recoverAfterFailedPause, completeResume and
\* acceptSandboxWebSocket.
Release(m, attached) ==
    /\ agentHas' = AgentGets(m, attached)
    /\ meta' = Flushed(Drained(m, attached), attached)

\* failSession: nothing if the Session has ended already.
SessionFailed(m) ==
    IF m.state = "failed" THEN m
    ELSE [m EXCEPT !.state = "failed", !.queued = 0, !.pausedAt = FALSE,
                   !.pending = NoCommand]

\* terminateSandbox up to destroySandbox, after a pause in flight: a paused
\* sandbox is killed by reference, another one by its handle.
TearsDown(m) ==
    [m EXCEPT !.expectedClose = TRUE, !.pausedAt = FALSE, !.pending = NoCommand]
HowToDestroy(paused) == IF paused THEN "byRef" ELSE "byHandle"
TerminateAtOnce(m) ==
    /\ ending' = HowToDestroy(m.pausedAt)
    /\ meta' = TearsDown(m)
Terminate(m) ==
    IF Pausing THEN ending' = "waiting" /\ meta' = m ELSE TerminateAtOnce(m)

\* resumeSandbox: callers share the resume in flight.
MayResume == resuming = "no" /\ (meta.pausedAt \/ Pausing)
RequestResume ==
    IF MayResume
      THEN resuming' = "waiting" /\ attempt' = 1
      ELSE UNCHANGED <<resuming, attempt>>

Fault == faults < MaxFaults /\ faults' = faults + 1

\* The provider's answers.  Whatever it is asked of a sandbox that is gone ends
\* in SandboxNotFoundError; connecting wakes one that is paused.
Lost == vm = "gone"
Connected == ~Lost /\ vm' = "running"
Killed == vm' = "gone"

\* createSandboxWsTokenSource: the token in the file, if the agent has not used
\* it before, takes the place of the one it holds.
Offered == IF token.file = NoToken THEN token.held ELSE token.file
TakesToken == token' = [held |-> Offered, file |-> NoToken]

\* The TTL exceeds the interval of the refresh and the grace together, so that
\* a token goes stale in a paused sandbox only.
Aged == [held |-> "stale", file |-> IF token.file = NoToken THEN NoToken ELSE "stale"]

\* webSocketClose: an expected close starts no grace.
Dropped(m) ==
    IF ~live \/ m.expectedClose \/ m.state = "failed" THEN m ELSE [m EXCEPT !.grace = TRUE]

-----------------------------------------------------------------------------
(* Participants *)

\* handleAgentRequest: it runs at once, starting what waited before it, or waits,
\* be it in a Session that has ended.
AgentRequest ==
    /\ IF meta.pausedAt THEN RequestResume ELSE UNCHANGED <<resuming, attempt>>
    /\ IF meta.state = "ready" /\ Attached
         THEN meta' = [meta EXCEPT !.state = "executing"]
         ELSE /\ meta.queued < MaxQueued
              /\ meta' = [meta EXCEPT !.queued = @ + 1]
    /\ UNCHANGED <<live, alarm, ending, vm, pauseCall, wanted, agentHas, faults, token>>

\* previewUnavailableReason is not null.
UnavailableBeforeTheGrace == ~Terminal /\ (meta.pausedAt \/ Pausing)
PreviewUnavailable ==
    ~Terminal /\ (meta.pausedAt \/ Pausing \/ (meta.grace /\ ~Attached))

\* handlePreviewStart, handlePreviewStop with deferPreviewCommandWhileUnavailable.
\* sendToSandbox drops what it cannot send.
PassOn(c) ==
    /\ meta' = [meta EXCEPT !.pending = NoCommand]
    /\ agentHas' = IF live THEN c ELSE agentHas
    /\ UNCHANGED <<resuming, attempt>>
PreviewCommand(c) ==
    /\ wanted' = c
    /\ IF PreviewUnavailable
         THEN /\ meta' = [meta EXCEPT !.pending = c]
              /\ RequestResume /\ UNCHANGED agentHas
         ELSE PassOn(c)
    /\ UNCHANGED <<live, alarm, ending, vm, pauseCall, faults, token>>

\* prepareAuthenticatedPreview: a browser opens the preview.
PreviewRequest ==
    /\ MayResume /\ RequestResume
    /\ UNCHANGED <<meta, live, alarm, ending, vm, pauseCall, wanted, agentHas, faults, token>>

\* handleStopSession.  It does not ask whether the Session has ended already,
\* so it also repeats a teardown that failed.
StopSession ==
    /\ ending \in {"no", "done", "gaveUp", "cut"}
    /\ Terminate([meta EXCEPT !.state = "failed"])
    /\ UNCHANGED <<live, alarm, resuming, attempt, vm, pauseCall, wanted, agentHas, faults, token>>

-----------------------------------------------------------------------------
(* The agent and its socket *)

\* The active run ends and the next one starts.
RunEnds ==
    /\ meta.state = "executing" /\ live /\ vm = "running"
    /\ meta' = IF meta.queued > 0 THEN [meta EXCEPT !.queued = @ - 1]
                                  ELSE [meta EXCEPT !.state = "ready"]
    /\ UNCHANGED <<live, alarm, resuming, attempt, ending, vm, pauseCall, wanted,
                   agentHas, faults, token>>

\* The agent's client, while its sandbox runs, dials until it is let in.
Dials == vm = "running" /\ ~live

\* watchSandboxWsToken: a token that turns up in the file replaces the socket,
\* which may be dead.
AgentAdopts ==
    /\ vm = "running" /\ token.file # NoToken
    /\ TakesToken
    /\ live' = FALSE /\ meta' = Dropped(meta)
    /\ UNCHANGED <<alarm, resuming, attempt, ending, vm, pauseCall, wanted, agentHas, faults>>

\* verifySandboxWebSocketToken.
Accepted == Offered = "fresh"

\* acceptSandboxWebSocket, mode resume: what waits is released, then the
\* reconnect grace ends.
AgentConnects ==
    /\ Dials /\ Accepted /\ ~Terminal
    /\ TakesToken
    /\ live' = TRUE
    /\ Release([meta EXCEPT !.grace = FALSE], ~Pausing)
    /\ UNCHANGED <<alarm, resuming, attempt, ending, vm, pauseCall, wanted, faults>>

\* The socket drops (or its sandbox is gone): webSocketClose.
Disconnect ==
    /\ live
    /\ IF Lost THEN UNCHANGED faults ELSE Fault
    /\ live' = FALSE /\ meta' = Dropped(meta)
    /\ UNCHANGED <<alarm, resuming, attempt, ending, vm, pauseCall, wanted, agentHas, token>>

\* The provider reclaims a running sandbox.  A paused one never expires.
SandboxLost ==
    /\ vm = "running" /\ Fault
    /\ vm' = "gone"
    /\ UNCHANGED <<meta, live, alarm, resuming, attempt, ending, pauseCall, wanted, agentHas, token>>

-----------------------------------------------------------------------------
(* The alarm: orchestrator.ts, alarm() *)

\* failExpiredSandboxReconnect, and its terminateSandbox.  The alarm waits for
\* nothing here that another alarm could change.
ReconnectExpired ==
    /\ alarm = "idle" /\ meta.grace /\ ~Terminal
    /\ Terminate([meta EXCEPT !.state = "failed"])
    /\ UNCHANGED <<live, alarm, resuming, attempt, vm, pauseCall, wanted, agentHas, faults, token>>

\* clearStalePausedMarker: a paused agent cannot hold a socket.
StaleMarker == meta.pausedAt /\ resuming = "no" /\ Attached
WithoutStaleMarker(m) ==
    IF StaleMarker THEN [m EXCEPT !.pausedAt = FALSE, !.expectedClose = FALSE] ELSE m

\* assumeSandboxPausedAfterEviction.
Unrecorded(m) ==
    /\ m.state = "ready" /\ m.expectedClose /\ ~m.pausedAt /\ ~m.grace
    /\ resuming = "no" /\ ~live
AssumedRunning(m) == m
AssumedPaused(m) == IF Unrecorded(m) THEN [m EXCEPT !.pausedAt = TRUE] ELSE m

\* shouldPauseSandbox but for the clock and open questions: the sandbox of an
\* idle Session with an attached agent.
ShouldPause(m) ==
    /\ m.state = "ready" /\ m.queued = 0
    /\ ~m.pausedAt /\ ~m.grace /\ live

\* The last steps: pauseIdleSandbox up to its first await if the Session has
\* been idle for long, else what waits is drained.
PauseOrDrain(m) ==
    \/ /\ ShouldPause(m)
       /\ alarm' = "connecting"
       /\ meta' = [m EXCEPT !.expectedClose = TRUE]
    \/ /\ alarm' = "idle"
       /\ meta' = Drained(m, live)

\* renewSandboxLeaseIfDue; sandboxAlarmDeadlines leaves a paused sandbox alone.
LeaseMayBeDue(m) == ~m.pausedAt

\* alarm() up to the renewal of the lease.
AlarmFires ==
    LET cleared == WithoutStaleMarker(meta)
        m == AssumedPaused(IF StaleMarker THEN Flushed(cleared, TRUE) ELSE cleared)
    IN  /\ alarm = "idle" /\ ~Terminal
        /\ agentHas' = IF StaleMarker THEN AgentGets(cleared, TRUE) ELSE agentHas
        /\ \/ LeaseMayBeDue(m) /\ alarm' = "renewing" /\ meta' = m
           \/ PauseOrDrain(m)
        /\ UNCHANGED <<live, resuming, attempt, ending, vm, pauseCall, wanted, faults, token>>

\* The renewal, over a handle that is connected first, is answered.  A lost
\* sandbox fails the Session, any other error is left to the next alarm.
LeaseAnswered ==
    /\ alarm = "renewing"
    /\ \/ Connected /\ UNCHANGED faults /\ PauseOrDrain(meta)
       \/ Lost /\ UNCHANGED <<vm, faults>> /\ PauseOrDrain(SessionFailed(meta))
       \/ Fault /\ UNCHANGED vm /\ PauseOrDrain(meta)
    /\ UNCHANGED <<live, resuming, attempt, ending, pauseCall, wanted, agentHas, token>>

\* doPause fails and recoverAfterFailedPause: a drop of the socket went
\* unnoticed while expected_close was set.
PauseFailsQuietly ==
    IF Terminal
      THEN UNCHANGED <<meta, agentHas>>
      ELSE Release([meta EXCEPT !.expectedClose = FALSE], live)
PauseFails ==
    IF Terminal
      THEN UNCHANGED <<meta, agentHas>>
      ELSE Release([meta EXCEPT !.expectedClose = FALSE, !.grace = @ \/ ~live], live)

\* doPause: sandboxHandle() answers and the pause is asked for, or it fails.
PauseConnects ==
    /\ alarm = "connecting"
    /\ \/ /\ Connected /\ UNCHANGED faults
          /\ alarm' = "pausing" /\ pauseCall' = "sent" /\ UNCHANGED <<meta, agentHas>>
       \/ /\ Lost /\ UNCHANGED <<vm, faults, pauseCall, agentHas>>
          /\ alarm' = "idle" /\ meta' = SessionFailed(meta)
       \/ /\ Fault /\ UNCHANGED <<vm, pauseCall>>
          /\ alarm' = "idle" /\ PauseFails
    /\ UNCHANGED <<live, resuming, attempt, ending, wanted, token>>

\* The provider carries out a pause, refuses it, or has no such sandbox.  A
\* pause that finds its sandbox destroyed meanwhile may still leave it paused.
ProviderPauses ==
    /\ pauseCall = "sent"
    /\ \/ vm' = "paused" /\ pauseCall' = "ok" /\ token' \in {token, Aged} /\ UNCHANGED faults
       \/ Fault /\ pauseCall' = "failed" /\ UNCHANGED <<vm, token>>
       \/ Lost /\ pauseCall' = "notFound" /\ UNCHANGED <<vm, token, faults>>
    /\ UNCHANGED <<meta, live, alarm, resuming, attempt, ending, wanted, agentHas>>

\* doPause after its provider call: the marker is set and the sockets are
\* closed, unless the Session has ended; a request that waits resumes at once.
PauseDoneForgettingQueue ==
    IF Terminal
      THEN UNCHANGED <<meta, live, resuming, attempt>>
      ELSE /\ meta' = [meta EXCEPT !.pausedAt = TRUE]
           /\ live' = FALSE
           /\ UNCHANGED <<resuming, attempt>>
PauseDone ==
    IF Terminal
      THEN UNCHANGED <<meta, live, resuming, attempt>>
      ELSE /\ meta' = [meta EXCEPT !.pausedAt = TRUE]
           /\ live' = FALSE
           /\ IF meta.queued > 0 THEN RequestResume ELSE UNCHANGED <<resuming, attempt>>
PauseAnswered ==
    /\ alarm = "pausing" /\ pauseCall \notin {"none", "sent"}
    /\ alarm' = "idle" /\ pauseCall' = "none"
    /\ \/ pauseCall = "ok" /\ PauseDone /\ UNCHANGED agentHas
       \/ pauseCall = "failed" /\ PauseFails /\ UNCHANGED <<live, resuming, attempt>>
       \/ /\ pauseCall = "notFound" /\ meta' = SessionFailed(meta)
          /\ UNCHANGED <<live, resuming, attempt, agentHas>>
    /\ UNCHANGED <<ending, vm, wanted, faults, token>>

-----------------------------------------------------------------------------
(* Resuming: doResume *)

\* The marker is gone or the Session has ended.
ResumeSettled == ~meta.pausedAt \/ Terminal

\* After a pause in flight, or the delay of a retry, it connects.
ResumeTries ==
    /\ resuming = "waiting" /\ ~Pausing
    /\ resuming' = IF ResumeSettled THEN "no" ELSE "connecting"
    /\ UNCHANGED <<meta, live, alarm, attempt, ending, vm, pauseCall, wanted, agentHas, faults, token>>

\* failSandboxResume: the last attempt failed.
ResumeFailsWithoutTeardown ==
    IF attempt < ResumeAttempts
      THEN /\ resuming' = "waiting" /\ attempt' = attempt + 1
           /\ UNCHANGED <<meta, ending>>
      ELSE resuming' = "no" /\ meta' = SessionFailed(meta) /\ UNCHANGED <<attempt, ending>>
ResumeFails ==
    IF attempt < ResumeAttempts
      THEN /\ resuming' = "waiting" /\ attempt' = attempt + 1
           /\ UNCHANGED <<meta, ending>>
      ELSE /\ resuming' = "no" /\ UNCHANGED attempt
           /\ IF Terminal
                THEN UNCHANGED <<meta, ending>>
                ELSE meta' = TearsDown(SessionFailed(meta)) /\ ending' = "byRef"

ResumeLost ==
    /\ Lost /\ resuming' = "no" /\ meta' = SessionFailed(meta)
    /\ UNCHANGED <<attempt, ending>>

\* provider.connect answers; the sandbox may be awake although the call failed.
ResumeConnects ==
    /\ resuming = "connecting"
    /\ \/ /\ Connected /\ UNCHANGED <<meta, attempt, ending, faults>>
          /\ resuming' = IF ResumeSettled THEN "no" ELSE "woken"
       \/ ResumeLost /\ UNCHANGED <<vm, faults>>
       \/ /\ Fault /\ ResumeFails
          /\ vm' \in {vm} \cup (IF vm = "paused" THEN {"running"} ELSE {})
    /\ UNCHANGED <<live, alarm, pauseCall, wanted, agentHas, token>>

\* completeResume: the grace starts unless the agent is back already.
Resumed == [meta EXCEPT !.pausedAt = FALSE, !.expectedClose = FALSE, !.grace = @ \/ ~live]
CompleteResume ==
    IF ResumeSettled THEN UNCHANGED <<meta, agentHas>> ELSE Release(Resumed, Attached)

\* writeFile: staged and renamed into place, so the agent sees a whole token or
\* none.  The resume completes, or the write fails.
Written == ~Lost /\ token' = [token EXCEPT !.file = "fresh"]
TokenWritten ==
    /\ resuming = "woken"
    /\ \/ /\ Written /\ CompleteResume
          /\ resuming' = "no" /\ UNCHANGED <<attempt, ending, faults>>
       \/ ResumeLost /\ UNCHANGED <<agentHas, token, faults>>
       \/ Fault /\ ResumeFails /\ (Written \/ UNCHANGED token) /\ UNCHANGED agentHas
    /\ UNCHANGED <<live, alarm, vm, pauseCall, wanted>>

-----------------------------------------------------------------------------
(* Teardown: terminateSandbox, destroySandbox *)

\* The pause it waited for is over.
TerminateProceeds ==
    /\ ending = "waiting" /\ ~Pausing
    /\ TerminateAtOnce(meta)
    /\ UNCHANGED <<live, alarm, resuming, attempt, vm, pauseCall, wanted, agentHas, faults, token>>

\* Killed, or gone already; the sockets are closed.  A failure is only logged;
\* the connection it took may have woken the sandbox.
Destroyed ==
    /\ ending \in {"byRef", "byHandle"}
    /\ live' = FALSE
    /\ \/ Killed /\ ending' = "done" /\ UNCHANGED faults
       \/ /\ Fault /\ ending' = "gaveUp"
          /\ IF ending = "byHandle" /\ vm = "paused" THEN vm' \in {vm, "running"} ELSE vm' = vm
    /\ UNCHANGED <<meta, alarm, resuming, attempt, pauseCall, wanted, agentHas, token>>

-----------------------------------------------------------------------------
(* The Durable Object leaves memory; sockets and provider calls live on *)
Evict ==
    /\ Fault
    /\ alarm' = "idle" /\ resuming' = "no"
    /\ pauseCall' = IF pauseCall = "sent" THEN "sent" ELSE "none"
    /\ ending' = IF ending \in {"waiting", "byRef", "byHandle"} THEN "cut" ELSE ending
    /\ UNCHANGED <<meta, live, attempt, vm, wanted, agentHas, token>>

-----------------------------------------------------------------------------
Init ==
    /\ meta = [ state |-> "ready", queued |-> 0, pausedAt |-> FALSE,
                expectedClose |-> FALSE, grace |-> FALSE, pending |-> NoCommand ]
    /\ live = TRUE /\ alarm = "idle" /\ resuming = "no" /\ attempt = 1
    /\ ending = "no" /\ vm = "running" /\ pauseCall = "none"
    /\ wanted = "stop" /\ agentHas = "stop" /\ faults = 0
    /\ token = [held |-> "fresh", file |-> NoToken]

Next ==
    \/ AgentRequest
    \/ \E c \in Commands : PreviewCommand(c)
    \/ PreviewRequest
    \/ StopSession
    \/ RunEnds
    \/ AgentAdopts
    \/ AgentConnects
    \/ Disconnect
    \/ SandboxLost
    \/ ReconnectExpired
    \/ AlarmFires
    \/ LeaseAnswered
    \/ PauseConnects
    \/ ProviderPauses
    \/ PauseAnswered
    \/ ResumeTries
    \/ ResumeConnects
    \/ TokenWritten
    \/ TerminateProceeds
    \/ Destroyed

Spec == Init /\ [][Next]_vars

\* Providers answer and the Durable Object goes on.
Continues ==
    /\ WF_vars(PauseConnects) /\ WF_vars(ProviderPauses) /\ WF_vars(PauseAnswered)
    /\ WF_vars(ResumeTries) /\ WF_vars(ResumeConnects) /\ WF_vars(TokenWritten)
    /\ WF_vars(TerminateProceeds) /\ WF_vars(Destroyed) /\ WF_vars(LeaseAnswered)

\* An agent that runs reconnects, a lost one drops its socket, and the grace
\* has a deadline.
Reconnects ==
    /\ WF_vars(AgentAdopts) /\ WF_vars(AgentConnects) /\ WF_vars(Lost /\ Disconnect)
    /\ WF_vars(ReconnectExpired)

-----------------------------------------------------------------------------
(* Properties *)

MetaOK == meta \in Meta
ModesOK ==
    /\ live \in BOOLEAN
    /\ alarm \in {"idle", "renewing", "connecting", "pausing"}
    /\ resuming \in {"no", "waiting", "connecting", "woken"}
    /\ ending \in {"no", "waiting", "byRef", "byHandle", "done", "gaveUp", "cut"}
    /\ vm \in {"running", "paused", "gone"}
    /\ pauseCall \in {"none", "sent", "ok", "failed", "notFound"}
    /\ wanted \in Commands /\ agentHas \in Commands
CountsOK == attempt \in 1 .. ResumeAttempts /\ faults \in 0 .. MaxFaults
TokenOK == token \in [held : Tokens, file : Tokens \cup {NoToken}]
TypeOK == MetaOK /\ ModesOK /\ CountsOK /\ TokenOK

\* No run is sent to a sandbox that is paused or about to be: the comment of
\* isSandboxPausing, "it must not receive work".
RunIsOnRunningSandbox ==
    meta.state = "executing" => vm # "paused" /\ pauseCall # "sent"

\* A socket that dropped is never overlooked, although drops are ignored while
\* expected_close is set: either the sandbox is known to be paused or to be
\* pausing, or the grace runs and can be kept, because the agent has a token
\* that will be accepted (recoverAfterFailedPause, doResume, completeResume).
LostSocketIsNoticed ==
    ~Terminal /\ ~live =>
        \/ meta.pausedAt \/ Pausing
        \/ meta.grace /\ (vm = "running" => Accepted)

\* The reconnect grace, which fails the Session, never runs against a sandbox
\* that is attached or was put to sleep on purpose.
GraceIsForTheAwake == meta.grace /\ ~Terminal => ~live /\ ~meta.pausedAt

\* Of the preview commands given while the agent could not be reached the
\* latest wins, and none is lost or replayed over a newer one
\* (deferPreviewCommandWhileUnavailable, flushPendingPreviewAction).
LatestPreviewCommandWins ==
    ~Terminal /\ meta.pending = NoCommand => agentHas = wanted

\* A teardown that reports success has left no sandbox, not even one that a
\* pause in flight put to sleep after the kill (terminateSandbox).
TornDownIsGone == ending = "done" => vm = "gone"

\* The sandbox of an idle Session that was put to sleep is not woken by the
\* renewal of its lease, also when an eviction cut off the record of the pause
\* (assumeSandboxPausedAfterEviction).
SleeperIsLeftAlone ==
    [][ alarm = "idle" /\ alarm' = "renewing" /\ meta.state = "ready"
        => vm # "paused" \/ live \/ meta.grace ]_vars
=============================================================================
