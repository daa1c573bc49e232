--------------------------- MODULE SandboxProofs ----------------------------
(***************************************************************************)
(* The sandbox of a Session: its life, the workspace it starts from, and   *)
(* the dev server of its preview. Each part below proves what its module   *)
(* promises, for any number of whatever its runs bound, and stands by      *)
(* itself.                                                                 *)
(***************************************************************************)
EXTENDS MCSandboxLifecycle, WorkspaceCache, Previews, FiniteSetTheorems, SequenceTheorems,
        TLAPS

-----------------------------------------------------------------------------
(***************************************************************************)
(* SandboxLifecycle. What the life of a pausable sandbox guarantees, most  *)
(* of it until an eviction, the peace of sleepers always.                  *)
(*                                                                         *)
(* No property is inductive. What they rest on is the order in which a     *)
(* pause, a resume and a teardown set and reset the markers in the         *)
(* metadata, stated below as Inv, which an eviction alone breaks, and as   *)
(* SleepInv, which it does not.                                            *)
(***************************************************************************)

\* The alarm waits for the provider exactly as long as a pause call is out.
CallIsTheAlarms == alarm = "pausing" <=> pauseCall # "none"

\* While a pause is in flight the Session is idle and its drops are expected.
PauseIsOfAnIdle ==
    Pausing /\ ~Terminal
      => meta.state = "ready" /\ meta.expectedClose /\ ~meta.pausedAt /\ ~meta.grace

\* A drop is expected during a pause and its aftermath only.
CloseIsExpected == ~Terminal => (meta.expectedClose <=> Pausing \/ meta.pausedAt)

\* A resume at work keeps the marker, and one that has connected woke the
\* sandbox.
ResumeHasMarker ==
    resuming \in {"connecting", "woken"} /\ ~Terminal => meta.pausedAt
WokenIsAwake == resuming = "woken" /\ ~Terminal => vm # "paused"

\* Put to sleep, or about to be noticed as such.
Asleep == alarm = "pausing" /\ pauseCall = "ok"
Slept == meta.pausedAt /\ ~live
SleeperIsKnown ==
    vm = "paused" /\ ~Terminal => Asleep \/ (Slept /\ meta.state = "ready")

\* A stale token is that of an agent that slept.
StaleTokenSlept == ~Accepted /\ ~Terminal => Asleep \/ Slept

\* What waits to be passed on is the last command.
PendingIsWanted == meta.pending # NoCommand /\ ~Terminal => meta.pending = wanted

TeardownIsOfAnEnded == ending # "no" => Terminal
TeardownAwaitsPause == ending \in {"byRef", "byHandle", "done", "gaveUp"} => ~Pausing

Inv ==
    /\ CallIsTheAlarms /\ PauseIsOfAnIdle /\ CloseIsExpected
    /\ ResumeHasMarker /\ WokenIsAwake
    /\ SleeperIsKnown /\ StaleTokenSlept /\ PendingIsWanted
    /\ TeardownIsOfAnEnded /\ TeardownAwaitsPause
    /\ GraceIsForTheAwake /\ LostSocketIsNoticed
    /\ LatestPreviewCommandWins /\ TornDownIsGone
    /\ RunIsOnRunningSandbox

IInv == TypeOK /\ evicted \in BOOLEAN /\ (~evicted => Inv)

-----------------------------------------------------------------------------
(* What the helpers do to the metadata *)

\* drainQueuedAgentWorkIfReady starts a run of a ready, attached Session or does
\* nothing; the markers stay.
LEMMA DrainedFacts ==
    ASSUME NEW m \in Meta, NEW b \in BOOLEAN
    PROVE  LET d == Drained(m, b) IN
           /\ d \in Meta
           /\ d.pausedAt = m.pausedAt /\ d.grace = m.grace
           /\ d.expectedClose = m.expectedClose /\ d.pending = m.pending
           /\ \/ d.state = m.state
              \/ b /\ m.state = "ready" /\ d.state = "executing"
<1>1. CASE m.state = "ready" /\ m.queued > 0 /\ b
  <2>1. m.queued - 1 \in 0 .. MaxQueued BY <1>1, LifecycleAssumption DEF Meta
  <2>2. Drained(m, b) = [m EXCEPT !.state = "executing", !.queued = @ - 1]
    BY <1>1 DEF Drained
  <2> QED BY <1>1, <2>1, <2>2 DEF Meta
<1>2. CASE ~(m.state = "ready" /\ m.queued > 0 /\ b)
  BY <1>2 DEF Drained
<1> QED BY <1>1, <1>2

\* flushPendingPreviewAction passes on what was pending or does nothing.
LEMMA FlushedFacts ==
    ASSUME NEW m \in Meta, NEW b \in BOOLEAN
    PROVE  LET f == Flushed(m, b) IN
           /\ f \in Meta
           /\ f.pausedAt = m.pausedAt /\ f.grace = m.grace
           /\ f.expectedClose = m.expectedClose /\ f.state = m.state
           /\ \/ f.pending = m.pending /\ AgentGets(m, b) = agentHas
              \/ /\ m.pending # NoCommand /\ f.pending = NoCommand
                 /\ AgentGets(m, b) = m.pending
<1>1. CASE Flushes(m, b)
  <2>1. Flushed(m, b) = [m EXCEPT !.pending = NoCommand]
    BY <1>1 DEF Flushed
  <2>2. AgentGets(m, b) = m.pending /\ m.pending # NoCommand
    BY <1>1 DEF AgentGets, Flushes
  <2> QED BY <2>1, <2>2 DEF Meta
<1>2. CASE ~Flushes(m, b)
  BY <1>2 DEF Flushed, AgentGets
<1> QED BY <1>1, <1>2

\* Both together.
LEMMA ReleaseFacts ==
    ASSUME NEW m \in Meta, NEW b \in BOOLEAN, Release(m, b)
    PROVE  /\ meta' \in Meta
           /\ meta'.pausedAt = m.pausedAt /\ meta'.grace = m.grace
           /\ meta'.expectedClose = m.expectedClose
           /\ \/ meta'.state = m.state
              \/ b /\ m.state = "ready" /\ meta'.state = "executing"
           /\ \/ meta'.pending = m.pending /\ agentHas' = agentHas
              \/ /\ m.pending # NoCommand /\ meta'.pending = NoCommand
                 /\ agentHas' = m.pending
<1> DEFINE d == Drained(m, b)
<1>1. d \in Meta /\ d.pending = m.pending /\ d.pausedAt = m.pausedAt
  BY DrainedFacts
<1>2. d.state = "failed" <=> m.state = "failed"
  BY DrainedFacts
<1>3. Flushes(d, b) <=> Flushes(m, b)
  BY <1>1, <1>2 DEF Flushes
<1>4. AgentGets(d, b) = agentHas'
  BY <1>1, <1>3 DEF AgentGets, Release
<1>5. meta' = Flushed(d, b)
  BY DEF Release
<1> HIDE DEF d
<1>6. /\ meta' \in Meta
      /\ meta'.pausedAt = d.pausedAt /\ meta'.grace = d.grace
      /\ meta'.expectedClose = d.expectedClose /\ meta'.state = d.state
      /\ \/ meta'.pending = d.pending /\ agentHas' = agentHas
         \/ /\ d.pending # NoCommand /\ meta'.pending = NoCommand
            /\ agentHas' = d.pending
  BY <1>1, <1>4, <1>5, FlushedFacts
<1> QED
  BY <1>6, DrainedFacts DEF d

\* failSession ends the Session.
LEMMA SessionFailedFacts ==
    ASSUME NEW m \in Meta
    PROVE  SessionFailed(m) \in Meta /\ SessionFailed(m).state = "failed"
<1>1. 0 \in 0 .. MaxQueued BY LifecycleAssumption
<1> QED BY <1>1 DEF Meta, SessionFailed, NoCommand

\* terminateSandbox leaves the state of the Session alone.
LEMMA TearsDownFacts ==
    ASSUME NEW m \in Meta
    PROVE  TearsDown(m) \in Meta /\ TearsDown(m).state = m.state
  BY DEF Meta, TearsDown, NoCommand

\* webSocketClose starts the grace at most.
LEMMA DroppedFacts ==
    ASSUME NEW m \in Meta
    PROVE  LET d == Dropped(m) IN
           /\ d \in Meta
           /\ d.state = m.state /\ d.pausedAt = m.pausedAt
           /\ d.expectedClose = m.expectedClose /\ d.pending = m.pending
           /\ d.grace = IF live /\ ~m.expectedClose /\ m.state # "failed" THEN TRUE ELSE m.grace
  BY DEF Meta, Dropped

\* The alarm ends with a pause of an idle, attached Session or with a drain.
LEMMA PauseOrDrainFacts ==
    ASSUME NEW m \in Meta, ModesOK, PauseOrDrain(m)
    PROVE  /\ meta' \in Meta
           /\ meta'.pausedAt = m.pausedAt /\ meta'.grace = m.grace
           /\ meta'.pending = m.pending
           /\ \/ /\ alarm' = "connecting" /\ live /\ ~m.pausedAt /\ ~m.grace
                 /\ m.state = "ready" /\ meta'.state = "ready" /\ meta'.expectedClose
              \/ /\ alarm' = "idle" /\ meta'.expectedClose = m.expectedClose
                 /\ \/ meta'.state = m.state
                    \/ live /\ m.state = "ready" /\ meta'.state = "executing"
<1>1. CASE ShouldPause(m) /\ alarm' = "connecting" /\ meta' = [m EXCEPT !.expectedClose = TRUE]
  BY <1>1 DEF ShouldPause, Meta
<1>2. CASE alarm' = "idle" /\ meta' = Drained(m, live)
  BY <1>2, DrainedFacts DEF ModesOK
<1> QED BY <1>1, <1>2 DEF PauseOrDrain

\* The metadata that the steps of the alarm before its renewal leave.
LEMMA AlarmFacts ==
    ASSUME TypeOK, AlarmFires
    PROVE  \E m \in Meta :
           /\ m.state = meta.state /\ m.grace = meta.grace
           /\ \/ /\ live /\ resuming = "no" /\ ~m.pausedAt /\ ~m.expectedClose
                 /\ \/ m.pending = meta.pending /\ agentHas' = agentHas
                    \/ /\ meta.pending # NoCommand /\ m.pending = NoCommand
                       /\ agentHas' = meta.pending
              \/ m = meta /\ agentHas' = agentHas
              \/ /\ Unrecorded(meta) /\ m.pausedAt /\ agentHas' = agentHas
                 /\ m.expectedClose = meta.expectedClose /\ m.pending = meta.pending
           /\ \/ alarm' = "renewing" /\ meta' = m /\ ~m.pausedAt
              \/ PauseOrDrain(m)
<1> DEFINE cleared == WithoutStaleMarker(meta)
           n == IF StaleMarker THEN Flushed(cleared, TRUE) ELSE cleared
           m == AssumedPaused(n)
<1>0. meta \in Meta /\ alarm = "idle"
  BY DEF TypeOK, MetaOK, AlarmFires
<1>1. \/ alarm' = "renewing" /\ meta' = m /\ ~m.pausedAt
      \/ PauseOrDrain(m)
  BY DEF AlarmFires, LeaseMayBeDue
<1>2. agentHas' = IF StaleMarker THEN AgentGets(cleared, TRUE) ELSE agentHas
  BY DEF AlarmFires
<1>3. CASE StaleMarker
  <2>1. cleared = [meta EXCEPT !.pausedAt = FALSE, !.expectedClose = FALSE]
    BY <1>3 DEF WithoutStaleMarker
  <2>2. /\ cleared \in Meta /\ ~cleared.pausedAt /\ ~cleared.expectedClose
        /\ cleared.state = meta.state /\ cleared.grace = meta.grace
        /\ cleared.pending = meta.pending
    BY <1>0, <2>1 DEF Meta
  <2> HIDE DEF cleared
  <2>3. /\ n \in Meta /\ ~n.pausedAt /\ ~n.expectedClose
        /\ n.state = meta.state /\ n.grace = meta.grace
        /\ \/ n.pending = meta.pending /\ agentHas' = agentHas
           \/ meta.pending # NoCommand /\ n.pending = NoCommand /\ agentHas' = meta.pending
    BY <1>2, <1>3, <2>2, FlushedFacts
  <2>4. m = n
    BY <2>3 DEF AssumedPaused, Unrecorded
  <2>5. live /\ resuming = "no"
    BY <1>3 DEF StaleMarker, Attached
  <2> HIDE DEF m, n
  <2> QED BY <1>1, <2>3, <2>4, <2>5
<1>4. CASE ~StaleMarker
  <2>1. n = meta /\ agentHas' = agentHas
    BY <1>2, <1>4 DEF WithoutStaleMarker
  <2>2. CASE Unrecorded(meta)
    <3>1. m = [meta EXCEPT !.pausedAt = TRUE]
      BY <2>1, <2>2 DEF AssumedPaused
    <3>2. /\ m \in Meta /\ m.pausedAt /\ m.state = meta.state /\ m.grace = meta.grace
          /\ m.expectedClose = meta.expectedClose /\ m.pending = meta.pending
      BY <1>0, <3>1 DEF Meta
    <3> HIDE DEF m
    <3> QED BY <1>1, <2>1, <2>2, <3>2
  <2>3. CASE ~Unrecorded(meta)
    <3>1. m = meta
      BY <2>1, <2>3 DEF AssumedPaused
    <3> HIDE DEF m
    <3> QED BY <1>0, <1>1, <2>1, <3>1
  <2> QED BY <2>2, <2>3
<1> QED BY <1>3, <1>4

\* recoverAfterFailedPause: nothing in an ended Session, else a drop that was
\* ignored starts the grace and what waits is released.
LEMMA PauseFailsFacts ==
    ASSUME TypeOK, PauseFails
    PROVE  \/ Terminal /\ meta' = meta /\ agentHas' = agentHas
           \/ /\ meta' \in Meta /\ ~Terminal
              /\ meta'.pausedAt = meta.pausedAt /\ ~meta'.expectedClose
              /\ meta'.grace = (meta.grace \/ ~live)
              /\ \/ meta'.state = meta.state
                 \/ live /\ meta.state = "ready" /\ meta'.state = "executing"
              /\ \/ meta'.pending = meta.pending /\ agentHas' = agentHas
                 \/ /\ meta.pending # NoCommand /\ meta'.pending = NoCommand
                    /\ agentHas' = meta.pending
<1> DEFINE m == [meta EXCEPT !.expectedClose = FALSE, !.grace = @ \/ ~live]
<1>1. /\ m \in Meta /\ m.pausedAt = meta.pausedAt /\ ~m.expectedClose
      /\ m.grace = (meta.grace \/ ~live) /\ m.state = meta.state /\ m.pending = meta.pending
  BY DEF TypeOK, MetaOK, ModesOK, Meta
<1>2. CASE Terminal
  BY <1>2 DEF PauseFails
<1>3. CASE ~Terminal
  <2>1. Release(m, live)
    BY <1>3 DEF PauseFails
  <2> HIDE DEF m
  <2> QED BY <1>1, <1>3, <2>1, ReleaseFacts DEF TypeOK, ModesOK
<1> QED BY <1>2, <1>3

\* completeResume: nothing if there is nothing to resume any more, else the
\* markers are reset, and the grace runs unless the agent is back.
LEMMA CompleteResumeFacts ==
    ASSUME TypeOK, CompleteResume
    PROVE  \/ ResumeSettled /\ meta' = meta /\ agentHas' = agentHas
           \/ /\ meta' \in Meta /\ ~ResumeSettled
              /\ ~meta'.pausedAt /\ ~meta'.expectedClose
              /\ meta'.grace = (meta.grace \/ ~live)
              /\ \/ meta'.state = meta.state
                 \/ Attached /\ meta.state = "ready" /\ meta'.state = "executing"
              /\ \/ meta'.pending = meta.pending /\ agentHas' = agentHas
                 \/ /\ meta.pending # NoCommand /\ meta'.pending = NoCommand
                    /\ agentHas' = meta.pending
<1>1. /\ Resumed \in Meta /\ ~Resumed.pausedAt /\ ~Resumed.expectedClose
      /\ Resumed.grace = (meta.grace \/ ~live)
      /\ Resumed.state = meta.state /\ Resumed.pending = meta.pending
  BY DEF TypeOK, MetaOK, ModesOK, Meta, Resumed
<1>2. CASE ResumeSettled
  BY <1>2 DEF CompleteResume
<1>3. CASE ~ResumeSettled
  <2>1. Release(Resumed, Attached)
    BY <1>3 DEF CompleteResume
  <2>2. Attached \in BOOLEAN
    BY DEF TypeOK, ModesOK, Attached, Pausing
  <2> QED BY <1>1, <1>3, <2>1, <2>2, ReleaseFacts
<1> QED BY <1>2, <1>3

\* acceptSandboxWebSocket ends the grace and releases what waits.
LEMMA ConnectsFacts ==
    ASSUME TypeOK, AgentConnects
    PROVE  /\ meta' \in Meta /\ ~Terminal
           /\ meta'.pausedAt = meta.pausedAt /\ ~meta'.grace
           /\ meta'.expectedClose = meta.expectedClose
           /\ \/ meta'.state = meta.state
              \/ ~Pausing /\ meta.state = "ready" /\ meta'.state = "executing"
           /\ \/ meta'.pending = meta.pending /\ agentHas' = agentHas
              \/ /\ meta.pending # NoCommand /\ meta'.pending = NoCommand
                 /\ agentHas' = meta.pending
<1> DEFINE m == [meta EXCEPT !.grace = FALSE]
<1>1. /\ m \in Meta /\ m.pausedAt = meta.pausedAt /\ ~m.grace
      /\ m.expectedClose = meta.expectedClose /\ m.state = meta.state
      /\ m.pending = meta.pending
  BY DEF TypeOK, MetaOK, Meta
<1>2. Release(m, ~Pausing) /\ ~Terminal
  BY DEF AgentConnects
<1>3. (~Pausing) \in BOOLEAN
  BY DEF Pausing
<1> HIDE DEF m
<1> QED BY <1>1, <1>2, <1>3, ReleaseFacts

-----------------------------------------------------------------------------
(* The invariant *)

\* Every action keeps the types.
LEMMA TypeStep ==
    ASSUME TypeOK, Next PROVE TypeOK'
<1> USE LifecycleAssumption
    DEF TypeOK, MetaOK, ModesOK, CountsOK, TokenOK, Meta, NoCommand
<1>1. CASE AgentRequest
  BY <1>1 DEF AgentRequest, RequestResume
<1>2. ASSUME NEW c \in Commands, PreviewCommand(c) PROVE TypeOK'
  BY <1>2 DEF PreviewCommand, PassOn, RequestResume, NoCommand
<1>3. CASE PreviewRequest
  BY <1>3 DEF PreviewRequest, RequestResume
<1>4. CASE StopSession
  BY <1>4, TearsDownFacts DEF StopSession, Terminate, TerminateAtOnce, HowToDestroy
<1>5. CASE RunEnds
  BY <1>5 DEF RunEnds
<1>6. CASE AgentAdopts
  BY <1>6, DroppedFacts DEF AgentAdopts, TakesToken, Offered
<1>7. CASE AgentConnects
  BY <1>7, ConnectsFacts
     DEF AgentConnects, Release, AgentGets, Flushes, TakesToken, Offered
<1>8. CASE Disconnect
  <2>1. MetaOK'
    BY <1>8, DroppedFacts DEF Disconnect
  <2>2. ModesOK'
    BY <1>8 DEF Disconnect
  <2>3. CountsOK'
    BY <1>8 DEF Disconnect, Fault
  <2>4. TokenOK'
    BY <1>8 DEF Disconnect
  <2> QED BY <2>1, <2>2, <2>3, <2>4
<1>9. CASE SandboxLost
  BY <1>9 DEF SandboxLost, Fault
<1>10. CASE ReconnectExpired
  BY <1>10, TearsDownFacts
     DEF ReconnectExpired, Terminate, TerminateAtOnce, HowToDestroy
<1>11. CASE AlarmFires
  <2>1. MetaOK'
    BY <1>11, AlarmFacts, PauseOrDrainFacts DEF AlarmFires
  <2>2. ModesOK'
    <3>1. agentHas' \in Commands
      BY <1>11, AlarmFacts
    <3>2. alarm' \in {"idle", "renewing", "connecting"}
      BY <1>11, AlarmFacts DEF PauseOrDrain
    <3>3. UNCHANGED <<live, resuming, ending, vm, pauseCall, wanted>>
      BY <1>11 DEF AlarmFires
    <3> QED BY <3>1, <3>2, <3>3
  <2>3. CountsOK'
    BY <1>11 DEF AlarmFires
  <2>4. TokenOK'
    BY <1>11 DEF AlarmFires
  <2> QED BY <2>1, <2>2, <2>3, <2>4
<1>12. CASE LeaseAnswered
  BY <1>12, SessionFailedFacts, PauseOrDrainFacts
     DEF LeaseAnswered, PauseOrDrain, Connected, Fault
<1>13. CASE PauseConnects
  BY <1>13, SessionFailedFacts, PauseFailsFacts
     DEF PauseConnects, Connected, PauseFails, Release, AgentGets, Flushes, Fault
<1>14. CASE ProviderPauses
  BY <1>14 DEF ProviderPauses, Fault, Aged, Tokens
<1>15. CASE PauseAnswered
  <2>0. meta' \in Meta /\ agentHas' \in Commands
    <3>0. /\ meta \in Meta /\ [meta EXCEPT !.pausedAt = TRUE] \in Meta
          /\ agentHas \in Commands /\ meta.pending \in Commands \cup {NoCommand}
      OBVIOUS
    <3> HIDE DEF TypeOK, MetaOK, ModesOK, Meta
    <3>1. CASE PauseDone /\ UNCHANGED agentHas
      BY <3>0, <3>1 DEF PauseDone
    <3>2. CASE PauseFails
      BY <3>0, <3>2, PauseFailsFacts
    <3>3. CASE meta' = SessionFailed(meta) /\ UNCHANGED agentHas
      BY <3>0, <3>3, SessionFailedFacts
    <3> QED BY <1>15, <3>1, <3>2, <3>3 DEF PauseAnswered
  <2>1. MetaOK'
    BY <2>0
  <2>2. ModesOK'
    BY <1>15, <2>0 DEF PauseAnswered, PauseDone, RequestResume
  <2>3. CountsOK'
    BY <1>15 DEF PauseAnswered, PauseDone, RequestResume
  <2>4. TokenOK'
    BY <1>15 DEF PauseAnswered
  <2> QED BY <2>1, <2>2, <2>3, <2>4
<1>16. CASE ResumeTries
  BY <1>16 DEF ResumeTries
<1>17. CASE ResumeConnects
  BY <1>17, SessionFailedFacts, TearsDownFacts
     DEF ResumeConnects, Connected, ResumeLost, ResumeFails, Fault
<1>18. CASE TokenWritten
  BY <1>18, SessionFailedFacts, TearsDownFacts, CompleteResumeFacts
     DEF TokenWritten, CompleteResume, ResumeLost, ResumeFails, Release, AgentGets,
         Flushes, Fault, Written, Tokens
<1>19. CASE TerminateProceeds
  BY <1>19, TearsDownFacts DEF TerminateProceeds, TerminateAtOnce, HowToDestroy
<1>20. CASE Destroyed
  <2>1. MetaOK'
    BY <1>20 DEF Destroyed
  <2>2. ModesOK'
    BY <1>20 DEF Destroyed, Killed
  <2>3. CountsOK'
    BY <1>20 DEF Destroyed, Fault
  <2>4. TokenOK'
    BY <1>20 DEF Destroyed
  <2> QED BY <2>1, <2>2, <2>3, <2>4
<1> QED
  BY <1>1, <1>2, <1>3, <1>4, <1>5, <1>6, <1>7, <1>8, <1>9, <1>10, <1>11,
     <1>12, <1>13, <1>14, <1>15, <1>16, <1>17, <1>18, <1>19, <1>20 DEF Next

\* Every action but an eviction keeps the invariant.
LEMMA InvStep ==
    ASSUME TypeOK, Inv, Next PROVE Inv'
<1> USE DEF Inv, CallIsTheAlarms, PauseIsOfAnIdle, CloseIsExpected, ResumeHasMarker,
            WokenIsAwake, SleeperIsKnown, StaleTokenSlept, PendingIsWanted,
            TeardownIsOfAnEnded, TeardownAwaitsPause, GraceIsForTheAwake,
            LostSocketIsNoticed, LatestPreviewCommandWins, TornDownIsGone,
            RunIsOnRunningSandbox, TypeOK, MetaOK, ModesOK, TokenOK, Meta, Terminal,
            Pausing, Asleep, Slept, Accepted, Offered, NoCommand, Commands, NoToken
<1>1. CASE AgentRequest
  BY <1>1 DEF AgentRequest, RequestResume, MayResume, Attached
<1>2. ASSUME NEW c \in Commands, PreviewCommand(c) PROVE Inv'
  BY <1>2
     DEF PreviewCommand, PreviewUnavailable, Attached, PassOn, RequestResume,
         MayResume
<1>3. CASE PreviewRequest
  BY <1>3 DEF PreviewRequest, RequestResume, MayResume
<1>4. CASE StopSession
  BY <1>4, TearsDownFacts DEF StopSession, Terminate, TerminateAtOnce, HowToDestroy
<1>5. CASE RunEnds
  BY <1>5 DEF RunEnds
<1>6. CASE AgentAdopts
  BY <1>6, DroppedFacts DEF AgentAdopts, TakesToken
<1>7. CASE AgentConnects
  BY <1>7, ConnectsFacts DEF AgentConnects, TakesToken, Dials
<1>8. CASE Disconnect
  <2>1. /\ live /\ ~live' /\ meta' \in Meta
        /\ meta'.state = meta.state /\ meta'.pausedAt = meta.pausedAt
        /\ meta'.expectedClose = meta.expectedClose /\ meta'.pending = meta.pending
        /\ meta'.grace = IF ~meta.expectedClose /\ meta.state # "failed" THEN TRUE ELSE meta.grace
        /\ UNCHANGED <<alarm, resuming, ending, vm, pauseCall, wanted, agentHas, token>>
    BY <1>8, DroppedFacts DEF Disconnect
  <2> HIDE <1>8
  <2>2. /\ CallIsTheAlarms' /\ PauseIsOfAnIdle' /\ CloseIsExpected'
        /\ ResumeHasMarker' /\ WokenIsAwake' /\ TeardownIsOfAnEnded'
        /\ TeardownAwaitsPause' /\ PendingIsWanted'
    BY <2>1
  <2>3. SleeperIsKnown' /\ StaleTokenSlept' /\ GraceIsForTheAwake'
    BY <2>1
  <2>4. LostSocketIsNoticed' /\ LatestPreviewCommandWins'
    BY <2>1
  <2>5. TornDownIsGone' /\ RunIsOnRunningSandbox'
    BY <2>1
  <2> QED BY <2>2, <2>3, <2>4, <2>5
<1>9. CASE SandboxLost
  BY <1>9 DEF SandboxLost
<1>10. CASE ReconnectExpired
  BY <1>10, TearsDownFacts
     DEF ReconnectExpired, Terminate, TerminateAtOnce, HowToDestroy
<1>11. CASE AlarmFires
  <2>1. PICK m \in Meta :
          /\ m.state = meta.state /\ m.grace = meta.grace
          /\ \/ /\ live /\ resuming = "no" /\ ~m.pausedAt /\ ~m.expectedClose
                /\ \/ m.pending = meta.pending /\ agentHas' = agentHas
                   \/ /\ meta.pending # NoCommand /\ m.pending = NoCommand
                      /\ agentHas' = meta.pending
             \/ m = meta /\ agentHas' = agentHas
             \/ /\ Unrecorded(meta) /\ m.pausedAt /\ agentHas' = agentHas
                /\ m.expectedClose = meta.expectedClose /\ m.pending = meta.pending
          /\ \/ alarm' = "renewing" /\ meta' = m /\ ~m.pausedAt
             \/ PauseOrDrain(m)
    BY <1>11, AlarmFacts
  <2>2. ~Unrecorded(meta)
    BY <1>11 DEF AlarmFires, Unrecorded
  <2>3. CASE alarm' = "renewing" /\ meta' = m
    BY <1>11, <2>1, <2>2, <2>3 DEF AlarmFires
  <2>4. CASE PauseOrDrain(m)
    <3>1. /\ meta' \in Meta
          /\ meta'.pausedAt = m.pausedAt /\ meta'.grace = m.grace /\ meta'.pending = m.pending
          /\ \/ /\ alarm' = "connecting" /\ live /\ ~m.pausedAt /\ ~m.grace
                /\ m.state = "ready" /\ meta'.state = "ready" /\ meta'.expectedClose
             \/ /\ alarm' = "idle" /\ meta'.expectedClose = m.expectedClose
                /\ \/ meta'.state = m.state
                   \/ live /\ m.state = "ready" /\ meta'.state = "executing"
      BY <2>1, <2>4, PauseOrDrainFacts
    <3>2. UNCHANGED <<live, resuming, ending, vm, pauseCall, wanted, token>> /\ alarm = "idle"
      BY <1>11 DEF AlarmFires
    <3> HIDE <1>11, <2>4
    <3>3. /\ CallIsTheAlarms' /\ PauseIsOfAnIdle' /\ CloseIsExpected'
          /\ ResumeHasMarker' /\ WokenIsAwake' /\ TeardownIsOfAnEnded'
          /\ TeardownAwaitsPause' /\ PendingIsWanted'
      BY <2>1, <2>2, <3>1, <3>2
    <3>4. SleeperIsKnown' /\ StaleTokenSlept' /\ GraceIsForTheAwake'
      BY <2>1, <2>2, <3>1, <3>2
    <3>5. LostSocketIsNoticed' /\ LatestPreviewCommandWins'
      BY <2>1, <2>2, <3>1, <3>2
    <3>6. TornDownIsGone' /\ RunIsOnRunningSandbox'
      BY <2>1, <2>2, <3>1, <3>2
    <3> QED BY <3>3, <3>4, <3>5, <3>6
  <2> QED BY <2>1, <2>3, <2>4
<1>12. CASE LeaseAnswered
  BY <1>12, SessionFailedFacts, PauseOrDrainFacts DEF LeaseAnswered, Connected, Lost
<1>13. CASE PauseConnects
  BY <1>13, SessionFailedFacts, PauseFailsFacts DEF PauseConnects, Connected, Lost
<1>14. CASE ProviderPauses
  BY <1>14 DEF ProviderPauses, Lost, Aged
<1>15. CASE PauseAnswered
  BY <1>15, SessionFailedFacts, PauseFailsFacts
     DEF PauseAnswered, PauseDone, RequestResume, MayResume
<1>16. CASE ResumeTries
  BY <1>16 DEF ResumeTries, ResumeSettled
<1>17. CASE ResumeConnects
  BY <1>17, SessionFailedFacts, TearsDownFacts
     DEF ResumeConnects, Connected, ResumeSettled, ResumeLost, ResumeFails, Lost
<1>18. CASE TokenWritten
  BY <1>18, SessionFailedFacts, TearsDownFacts, CompleteResumeFacts
     DEF TokenWritten, Written, ResumeSettled, ResumeLost, ResumeFails, Lost,
         Attached
<1>19. CASE TerminateProceeds
  BY <1>19, TearsDownFacts DEF TerminateProceeds, TerminateAtOnce, HowToDestroy
<1>20. CASE Destroyed
  BY <1>20 DEF Destroyed, Killed
<1> QED
  BY <1>1, <1>2, <1>3, <1>4, <1>5, <1>6, <1>7, <1>8, <1>9, <1>10, <1>11,
     <1>12, <1>13, <1>14, <1>15, <1>16, <1>17, <1>18, <1>19, <1>20 DEF Next

\* An eviction leaves the types as they are.
LEMMA EvictStep ==
    ASSUME TypeOK, Evict PROVE TypeOK'
<1> USE DEF Evict, TypeOK
<1>1. MetaOK'
  BY DEF MetaOK
<1>2. ModesOK'
  BY DEF ModesOK
<1>3. CountsOK'
  BY LifecycleAssumption DEF CountsOK, Fault
<1>4. TokenOK'
  BY DEF TokenOK
<1> QED BY <1>1, <1>2, <1>3, <1>4

LEMMA InitialTypes == MCInit => TypeOK
  BY LifecycleAssumption
     DEF MCInit, Init, TypeOK, MetaOK, ModesOK, CountsOK, TokenOK, Meta, Commands,
         NoCommand, Tokens, NoToken

\* The invariant that the theorems below rest on: TypeOK whatever happens, and
\* Inv up to the first eviction.
THEOREM LifecycleInvariant == MCSpec => []IInv
<1>1. MCInit => IInv
  <2> SUFFICES ASSUME MCInit PROVE IInv
    OBVIOUS
  <2>1. TypeOK
    BY InitialTypes
  <2>2. Inv
    BY DEF MCInit, Init, Inv, CallIsTheAlarms, PauseIsOfAnIdle, CloseIsExpected, ResumeHasMarker,
           WokenIsAwake, SleeperIsKnown, StaleTokenSlept, PendingIsWanted,
           TeardownIsOfAnEnded, TeardownAwaitsPause, GraceIsForTheAwake,
           LostSocketIsNoticed, LatestPreviewCommandWins, TornDownIsGone,
           RunIsOnRunningSandbox, Terminal, Pausing, Asleep, Slept, Accepted,
           Offered, NoCommand, NoToken
  <2> QED BY <2>1, <2>2 DEF IInv, MCInit
<1>2. IInv /\ [MCNext]_<<vars, evicted>> => IInv'
  <2> SUFFICES ASSUME IInv, [MCNext]_<<vars, evicted>> PROVE IInv'
    OBVIOUS
  <2>1. CASE Next /\ UNCHANGED evicted
    BY <2>1, TypeStep, InvStep DEF IInv
  <2>2. CASE Evict /\ evicted' = TRUE
    BY <2>2, EvictStep DEF IInv
  <2>3. CASE UNCHANGED <<vars, evicted>>
    <3>1. TypeOK'
      BY <2>3 DEF IInv, vars, TypeOK, MetaOK, ModesOK, CountsOK, TokenOK
    <3>2. Inv <=> Inv'
      BY <2>3 DEF vars, Inv, CallIsTheAlarms, PauseIsOfAnIdle, CloseIsExpected, ResumeHasMarker,
           WokenIsAwake, SleeperIsKnown, StaleTokenSlept, PendingIsWanted,
           TeardownIsOfAnEnded, TeardownAwaitsPause, GraceIsForTheAwake,
           LostSocketIsNoticed, LatestPreviewCommandWins, TornDownIsGone,
           RunIsOnRunningSandbox, Terminal, Pausing, Asleep, Slept, Accepted,
           Offered, NoCommand, NoToken
    <3> QED BY <2>3, <3>1, <3>2 DEF IInv
  <2> QED BY <2>1, <2>2, <2>3 DEF MCNext
<1> QED BY <1>1, <1>2, PTL DEF MCSpec

\* Every variable keeps its type: the markers of a Session, the phases of its
\* alarm, resume and teardown, evictions included.
THEOREM LifecycleTypeCorrect == MCSpec => []TypeOK
<1>1. IInv => TypeOK
  BY DEF IInv
<1> QED BY <1>1, LifecycleInvariant, PTL

\* No run is sent to a sandbox that sleeps or is being put to sleep
\* (isSandboxPausing, doPause), whatever requests, drops, failed resumes and
\* renewals come in between, as long as the object stays in memory.
THEOREM RunsMeetRunningSandboxes == MCSpec => []RunIsOnRunningSandboxUntilEviction
<1>1. IInv => RunIsOnRunningSandboxUntilEviction
  BY DEF IInv, Inv, RunIsOnRunningSandboxUntilEviction
<1> QED BY <1>1, LifecycleInvariant, PTL

\* A lost socket is noticed, and its agent can be let in again: the grace never
\* runs out on an agent whose token expired while it was paused (doResume,
\* recoverAfterFailedPause, createSandboxWsTokenSource).
THEOREM LostSocketsAreNoticed == MCSpec => []LostSocketIsNoticedUntilEviction
<1>1. IInv => LostSocketIsNoticedUntilEviction
  BY DEF IInv, Inv, LostSocketIsNoticedUntilEviction
<1> QED BY <1>1, LifecycleInvariant, PTL

\* The agent ends up with the last preview command that was given
\* (deferPreviewCommandWhileUnavailable, flushPendingPreviewAction).
THEOREM LatestPreviewCommandsWin == MCSpec => []LatestPreviewCommandWinsUntilEviction
<1>1. IInv => LatestPreviewCommandWinsUntilEviction
  BY DEF IInv, Inv, LatestPreviewCommandWinsUntilEviction
<1> QED BY <1>1, LifecycleInvariant, PTL

\* A teardown that reports success has left no sandbox, although a pause may
\* have been in flight when the Session ended (terminateSandbox), and the grace
\* never runs against a sandbox that is attached or sleeps.
THEOREM TeardownsAreComplete ==
    MCSpec => [](~evicted => TornDownIsGone /\ GraceIsForTheAwake)
<1>1. IInv => (~evicted => TornDownIsGone /\ GraceIsForTheAwake)
  BY DEF IInv, Inv
<1> QED BY <1>1, LifecycleInvariant, PTL

-----------------------------------------------------------------------------
(* Sleepers, evictions included.  An eviction may cut off the record of a   *)
(* pause, but not that its drop was expected.                               *)

\* A pause is of an idle Session that was not put to sleep before.
PauseIsAnnounced ==
    Pausing => /\ ~meta.pausedAt /\ meta.state # "executing"
               /\ meta.state = "ready" => meta.expectedClose

\* Nobody resumes a sandbox whose pause left no record.
UnrecordedIsLeft ==
    ~Terminal /\ meta.expectedClose /\ ~Pausing /\ ~meta.pausedAt => resuming = "no"

\* An idle Session without a socket is in its grace, or asleep as far as it
\* knows or has to assume.
AbsentIsExplained ==
    meta.state = "ready" /\ ~live /\ ~meta.grace /\ ~Pausing
      => meta.pausedAt \/ (meta.expectedClose /\ resuming = "no")

SleepInv == TeardownIsOfAnEnded /\ PauseIsAnnounced /\ UnrecordedIsLeft /\ AbsentIsExplained

\* A try to resume that fails ends the Session, or leaves the rest as it is.
LEMMA ResumeEndsQuietly ==
    ASSUME TypeOK, SleepInv, ResumeLost \/ ResumeFails, resuming \in {"connecting", "woken"},
           live' = live, alarm' = alarm
    PROVE  SleepInv'
<1>1. meta \in Meta
  BY DEF TypeOK, MetaOK
<1>2. /\ SessionFailed(meta).state = "failed"
      /\ TearsDown(SessionFailed(meta)).state = "failed"
      /\ ~TearsDown(SessionFailed(meta)).pausedAt
      /\ Terminal => SessionFailed(meta) = meta
      /\ ~Terminal => ~SessionFailed(meta).pausedAt
  BY <1>1, SessionFailedFacts, TearsDownFacts DEF TearsDown, SessionFailed, Meta, Terminal
<1>3. CASE meta' = meta /\ ending' = ending
  <2>1. resuming' \in {"no", "waiting"}
    BY DEF ResumeLost, ResumeFails
  <2> QED
    BY <1>3, <2>1 DEF SleepInv, TeardownIsOfAnEnded, PauseIsAnnounced, UnrecordedIsLeft,
                      AbsentIsExplained, Pausing, Terminal
<1>4. CASE meta' = SessionFailed(meta) \/ (meta' = TearsDown(SessionFailed(meta)))
  BY <1>2, <1>4 DEF SleepInv, TeardownIsOfAnEnded, PauseIsAnnounced, UnrecordedIsLeft,
                    AbsentIsExplained, Pausing, Terminal
<1> QED
  BY <1>3, <1>4 DEF ResumeLost, ResumeFails

LEMMA SleepStep ==
    ASSUME TypeOK, SleepInv, Next PROVE SleepInv'
<1> USE DEF SleepInv, TeardownIsOfAnEnded, PauseIsAnnounced, UnrecordedIsLeft, AbsentIsExplained,
            TypeOK, MetaOK, ModesOK, Meta, Terminal, Pausing
<1>1. CASE AgentRequest
  BY <1>1 DEF AgentRequest, RequestResume, MayResume, Attached
<1>2. ASSUME NEW c \in Commands, PreviewCommand(c) PROVE SleepInv'
  BY <1>2 DEF PreviewCommand, PassOn, RequestResume, MayResume
<1>3. CASE PreviewRequest
  BY <1>3 DEF PreviewRequest, RequestResume, MayResume
<1>4. CASE StopSession
  BY <1>4, TearsDownFacts DEF StopSession, Terminate, TerminateAtOnce, HowToDestroy
<1>5. CASE RunEnds
  BY <1>5 DEF RunEnds
<1>6. CASE AgentAdopts
  BY <1>6, DroppedFacts DEF AgentAdopts
<1>7. CASE AgentConnects
  BY <1>7, ConnectsFacts DEF AgentConnects
<1>8. CASE Disconnect
  BY <1>8, DroppedFacts DEF Disconnect
<1>9. CASE SandboxLost
  BY <1>9 DEF SandboxLost
<1>10. CASE ReconnectExpired
  BY <1>10, TearsDownFacts
     DEF ReconnectExpired, Terminate, TerminateAtOnce, HowToDestroy
<1>11. CASE AlarmFires
  <2>1. PICK m \in Meta :
          /\ m.state = meta.state /\ m.grace = meta.grace
          /\ \/ /\ live /\ resuming = "no" /\ ~m.pausedAt /\ ~m.expectedClose
                /\ \/ m.pending = meta.pending /\ agentHas' = agentHas
                   \/ /\ meta.pending # NoCommand /\ m.pending = NoCommand
                      /\ agentHas' = meta.pending
             \/ m = meta /\ agentHas' = agentHas
             \/ /\ Unrecorded(meta) /\ m.pausedAt /\ agentHas' = agentHas
                /\ m.expectedClose = meta.expectedClose /\ m.pending = meta.pending
          /\ \/ alarm' = "renewing" /\ meta' = m /\ ~m.pausedAt
             \/ PauseOrDrain(m)
    BY <1>11, AlarmFacts
  <2>2. CASE alarm' = "renewing" /\ meta' = m
    BY <1>11, <2>1, <2>2 DEF AlarmFires
  <2>3. CASE PauseOrDrain(m)
    BY <1>11, <2>1, <2>3, PauseOrDrainFacts DEF AlarmFires
  <2> QED BY <2>1, <2>2, <2>3
<1>12. CASE LeaseAnswered
  BY <1>12, SessionFailedFacts, PauseOrDrainFacts DEF LeaseAnswered
<1>13. CASE PauseConnects
  BY <1>13, SessionFailedFacts, PauseFailsFacts DEF PauseConnects
<1>14. CASE ProviderPauses
  BY <1>14 DEF ProviderPauses
<1>15. CASE PauseAnswered
  BY <1>15, SessionFailedFacts, PauseFailsFacts
     DEF PauseAnswered, PauseDone, RequestResume, MayResume
<1>16. CASE ResumeTries
  BY <1>16 DEF ResumeTries, ResumeSettled
<1>17. CASE ResumeConnects
  <2>1. resuming = "connecting" /\ live' = live /\ alarm' = alarm
    BY <1>17 DEF ResumeConnects
  <2>2. CASE meta' = meta /\ ending' = ending /\ resuming' = IF ResumeSettled THEN "no" ELSE "woken"
    BY <2>1, <2>2 DEF ResumeSettled
  <2>3. CASE ResumeLost \/ ResumeFails
    BY <2>1, <2>3, ResumeEndsQuietly
  <2> QED BY <1>17, <2>2, <2>3 DEF ResumeConnects
<1>18. CASE TokenWritten
  <2>1. resuming = "woken" /\ live' = live /\ alarm' = alarm
    BY <1>18 DEF TokenWritten
  <2>2. CASE CompleteResume /\ ending' = ending /\ resuming' = "no"
    BY <2>1, <2>2, CompleteResumeFacts DEF ResumeSettled, Attached
  <2>3. CASE ResumeLost \/ ResumeFails
    BY <2>1, <2>3, ResumeEndsQuietly
  <2> QED BY <1>18, <2>2, <2>3 DEF TokenWritten
<1>19. CASE TerminateProceeds
  BY <1>19, TearsDownFacts DEF TerminateProceeds, TerminateAtOnce, HowToDestroy
<1>20. CASE Destroyed
  BY <1>20 DEF Destroyed
<1> QED
  BY <1>1, <1>2, <1>3, <1>4, <1>5, <1>6, <1>7, <1>8, <1>9, <1>10, <1>11,
     <1>12, <1>13, <1>14, <1>15, <1>16, <1>17, <1>18, <1>19, <1>20 DEF Next

LEMMA SleepEvicted ==
    ASSUME TypeOK, SleepInv, Evict PROVE SleepInv'
  BY DEF Evict, SleepInv, TeardownIsOfAnEnded, PauseIsAnnounced, UnrecordedIsLeft,
         AbsentIsExplained, TypeOK, MetaOK, ModesOK, Meta, Terminal, Pausing

\* The renewal of a lease starts in an alarm that knows no sleeper.
LEMMA RenewalIsOfTheAwake ==
    ASSUME TypeOK, SleepInv, Next, alarm = "idle", alarm' = "renewing", meta.state = "ready"
    PROVE  live \/ meta.grace
<1>1. AlarmFires
  <2>1. \A m : PauseOrDrain(m) => alarm' # "renewing"
    BY DEF PauseOrDrain
  <2> QED
    BY <2>1
       DEF Next, AgentRequest, PreviewCommand, PreviewRequest, StopSession, RunEnds, AgentAdopts,
           AgentConnects, Disconnect, SandboxLost, ReconnectExpired, LeaseAnswered, PauseConnects,
           ProviderPauses, PauseAnswered, ResumeTries, ResumeConnects, TokenWritten,
           TerminateProceeds, Destroyed
<1> SUFFICES ASSUME ~live, ~meta.grace PROVE FALSE
  OBVIOUS
<1>2. ~StaleMarker /\ ~Pausing /\ meta \in Meta
  BY DEF StaleMarker, Attached, Pausing, TypeOK, MetaOK
<1>3. LeaseMayBeDue(AssumedPaused(meta))
  <2>1. \A m : PauseOrDrain(m) => alarm' # "renewing"
    BY DEF PauseOrDrain
  <2>2. WithoutStaleMarker(meta) = meta
    BY <1>2 DEF WithoutStaleMarker
  <2> QED
    BY <1>1, <1>2, <2>1, <2>2 DEF AlarmFires
<1>4. meta.pausedAt \/ Unrecorded(meta)
  BY <1>2 DEF SleepInv, AbsentIsExplained, Unrecorded
<1>5. AssumedPaused(meta).pausedAt
  BY <1>2, <1>4 DEF AssumedPaused, Meta
<1> QED
  BY <1>3, <1>5 DEF LeaseMayBeDue

\* The renewal of a lease wakes no sandbox that was put to sleep, not even when
\* an eviction cut off the record of its pause (renewSandboxLeaseIfDue,
\* assumeSandboxPausedAfterEviction).
THEOREM SleepersAreLeftAlone == MCSpec => SleeperIsLeftAlone
<1> DEFINE SInv == TypeOK /\ SleepInv
<1>1. MCInit => SInv
  <2> SUFFICES ASSUME MCInit PROVE TypeOK /\ SleepInv
    OBVIOUS
  <2>1. TypeOK
    BY InitialTypes
  <2>2. SleepInv
    BY DEF MCInit, Init, SleepInv, TeardownIsOfAnEnded, PauseIsAnnounced, UnrecordedIsLeft,
           AbsentIsExplained, Pausing
  <2> QED BY <2>1, <2>2
<1>2. SInv /\ [MCNext]_<<vars, evicted>> => SInv'
  <2> SUFFICES ASSUME TypeOK, SleepInv, [MCNext]_<<vars, evicted>> PROVE TypeOK' /\ SleepInv'
    OBVIOUS
  <2>1. CASE Next
    BY <2>1, TypeStep, SleepStep
  <2>2. CASE Evict
    BY <2>2, EvictStep, SleepEvicted
  <2>3. CASE UNCHANGED vars
    <3>1. TypeOK'
      BY <2>3 DEF vars, TypeOK, MetaOK, ModesOK, CountsOK, TokenOK
    <3>2. SleepInv'
      BY <2>3 DEF vars, SleepInv, TeardownIsOfAnEnded, PauseIsAnnounced, UnrecordedIsLeft,
                  AbsentIsExplained, Pausing, Terminal
    <3> QED BY <3>1, <3>2
  <2> QED BY <2>1, <2>2, <2>3 DEF MCNext
<1> DEFINE Left == alarm = "idle" /\ alarm' = "renewing" /\ meta.state = "ready"
                     => vm # "paused" \/ live \/ meta.grace
<1>3. SInv /\ [MCNext]_<<vars, evicted>> => [Left]_vars
  <2> SUFFICES ASSUME TypeOK, SleepInv, [MCNext]_<<vars, evicted>>, ~UNCHANGED vars PROVE Left
    OBVIOUS
  <2>1. CASE Next
    BY <2>1, RenewalIsOfTheAwake
  <2>2. CASE Evict
    BY <2>2 DEF Evict
  <2> QED BY <2>1, <2>2 DEF MCNext
<1> HIDE DEF SInv
<1> QED BY <1>1, <1>2, <1>3, PTL DEF MCSpec, SleeperIsLeftAlone

-----------------------------------------------------------------------------
(***************************************************************************)
(* WorkspaceCache. No Session is ready with the dependencies of another    *)
(* lock, and no job makes more rows than attempts.                         *)
(*                                                                         *)
(* A marker travels with its workspace, through backups and restores. So   *)
(* the first rests on what holds of every workspace there is, in a         *)
(* sandbox, on the way to a row or in one: a marker is that of the         *)
(* dependencies beside it, unless a run's agent replaced them or they are  *)
(* not there. The second rests on the attempt in flight, which has not     *)
(* made its row yet and is the one that the job counted last.              *)
(***************************************************************************)

Phases == {"new", "created", "restoring", "marking", "restored", "started", "fetched",
           "ready", "failed", "ended"}
Jobs == [status : {"missing"} \cup Unfinished \cup Finished, attempts : Nat,
         due : {"never", "now", "later"}]
Backups == [step : {"no", "backup", "persist"}, took : Workspace]
Snapshots == [files : Workspace, by : Sessions]

\* Workspaces, jobs, backups and rows have their types.
CacheTypes ==
    /\ upstream \in Heads /\ phase \in [Sessions -> Phases]
    /\ restored \in [Sessions -> BOOLEAN] /\ files \in [Sessions -> Workspace]
    /\ job \in [Sessions -> Jobs] /\ carrying \in [Sessions -> Backups]
    /\ rows \in Seq(Snapshots)

\* A marker is that of the dependencies beside it.
Trusted(w) == w.marker # NoLock => w.deps = w.marker \/ w.deps = NoLock \/ w.own
\* What holds no checkout holds nothing.
Whole(w) == w.head = NoHead => w = Empty
Sound(w) == Trusted(w) /\ Whole(w)

\* Every workspace there is can be trusted.
MarkerInv ==
    /\ \A s \in Sessions : Sound(files[s]) /\ Sound(carrying[s].took)
    /\ \A i \in DOMAIN rows : Sound(rows[i].files)

InstallInv ==
    /\ \A s \in Sessions : /\ phase[s] \in {"fetched", "ready"} => files[s].head \in Heads
                           /\ phase[s] = "restoring" => Len(rows) > 0
    /\ ReadyMeansInstalled

\* A Session that was not ready has no job; a backup is that of an attempt that
\* has made no row yet; and the rows are accounted for.
InFlight(s) == carrying[s].step # "no"
Accounted(s) ==
    /\ phase[s] \notin {"ready", "ended"} => job[s] = NoJob /\ ~InFlight(s)
    /\ InFlight(s) => job[s].status = "running" /\ Cardinality(RowsOf(s)) < job[s].attempts
    /\ Cardinality(RowsOf(s)) <= job[s].attempts
    /\ job[s].status = "ready" => RowsOf(s) # {}

CacheInv == CacheTypes /\ MarkerInv /\ InstallInv
RowInv == \A s \in Sessions : Accounted(s)

-----------------------------------------------------------------------------
(* Workspaces *)

LEMMA EmptyIsSound == Empty \in Workspace /\ Sound(Empty)
  BY DEF Empty, Workspace, Sound, Trusted, Whole

\* A refresh or a clone leaves dependencies only beside their marker.
LEMMA CheckoutIsSound ==
  ASSUME CacheTypes, NEW w \in Workspace, Sound(w), NEW marker \in {w.marker, NoLock}
  PROVE  /\ Refreshed(w, marker) \in Workspace /\ Refreshed(w, marker).head = upstream
         /\ Sound(Refreshed(w, marker))
         /\ Cloned(w) \in Workspace /\ Cloned(w).head = upstream
         /\ Sound(Cloned(w))
<1>1. upstream \in Heads /\ upstream # NoHead
  BY CacheAssumption DEF CacheTypes
<1>2. Spared(w, marker) \in {w.deps, NoLock} /\ (marker = NoLock => Spared(w, marker) = NoLock)
  BY DEF Spared
<1> DEFINE r == Refreshed(w, marker)
           c == Cloned(w)
<1>3. /\ r \in Workspace /\ r.head = upstream /\ r.deps = Spared(w, marker)
      /\ r.marker = w.marker /\ r.own = w.own
  BY <1>1, <1>2 DEF Workspace, Refreshed
<1>4. /\ c \in Workspace /\ c.head = upstream /\ c.deps = NoLock
  BY <1>1 DEF Workspace, Cloned
<1> HIDE DEF r, c
<1>5. Sound(r)
  BY <1>1, <1>2, <1>3 DEF Sound, Trusted, Whole
<1>6. Sound(c)
  BY <1>1, <1>4 DEF Sound, Trusted, Whole
<1> QED
  BY <1>3, <1>4, <1>5, <1>6 DEF r, c

\* Installing puts the dependencies of the checkout there, and the marker, if any,
\* is theirs.
LEMMA InstallIsSound ==
  ASSUME NEW w \in Workspace, Sound(w), w.head \in Heads
  PROVE  LET none == WithoutMarker(w)
             installed == Installed(none, w.head)
             marked == Marked(installed, w.head)
         IN  /\ none \in Workspace /\ none.head = w.head /\ Sound(none)
             /\ installed \in Workspace /\ installed.head = w.head /\ Sound(installed)
             /\ installed.deps = w.head.lock
             /\ marked \in Workspace /\ marked.head = w.head /\ Sound(marked)
             /\ marked.deps = w.head.lock
<1>1. w.head # NoHead /\ w.head.lock \in Locks
  BY CacheAssumption DEF Locks
<1> DEFINE none == WithoutMarker(w)
           installed == Installed(none, w.head)
           marked == Marked(installed, w.head)
<1>2. /\ none \in Workspace /\ none.head = w.head /\ none.marker = NoLock
  BY DEF WithoutMarker, Workspace
<1> HIDE DEF none
<1>3. /\ installed \in Workspace /\ installed.head = w.head /\ installed.marker = NoLock
      /\ installed.deps = w.head.lock
  BY <1>1, <1>2 DEF Installed, Workspace
<1> HIDE DEF installed
<1>4. /\ marked \in Workspace /\ marked.head = w.head /\ marked.marker = w.head.lock
      /\ marked.deps = w.head.lock
  BY <1>1, <1>3 DEF Marked, Fingerprint, Workspace
<1> HIDE DEF marked
<1>5. Sound(none) /\ Sound(installed) /\ Sound(marked)
  BY <1>1, <1>2, <1>3, <1>4 DEF Sound, Trusted, Whole
<1> QED
  BY <1>2, <1>3, <1>4, <1>5 DEF none, installed, marked

\* The dependencies of a workspace are those its checkout asks for, if it does.
HasItsOwn(w) ==
    w.head.how \in {"install", "hooks", "script"} => w.deps = w.head.lock \/ w.own

\* However the setup comes about, the workspace has what its checkout asks for.
LEMMA SetupInstalls ==
  ASSUME CacheTypes, NEW s \in Sessions, Sound(files[s]), files[s].head \in Heads, Setup(s)
  PROVE  \E w \in Workspace : /\ files' = [files EXCEPT ![s] = w]
                              /\ Sound(w) /\ w.head = files[s].head /\ HasItsOwn(w)
<1> DEFINE head == files[s].head
           none == WithoutMarker(files[s])
           installed == Installed(none, head)
           marked == Marked(installed, head)
<1>1. files[s] \in Workspace
  BY DEF CacheTypes
<1>2. /\ none \in Workspace /\ none.head = head /\ Sound(none)
      /\ installed \in Workspace /\ installed.head = head /\ Sound(installed)
      /\ installed.deps = head.lock
      /\ marked \in Workspace /\ marked.head = head /\ Sound(marked)
      /\ marked.deps = head.lock
  BY <1>1, InstallIsSound
<1>3. head.how \in Hows /\ head.lock # NoLock
  BY CacheAssumption
<1>4. \/ files' = [files EXCEPT ![s] = installed]
      \/ files' = [files EXCEPT ![s] = marked]
      \/ head.how = "none" /\ files' = [files EXCEPT ![s] = none]
      \/ Reusable(s, head) /\ files' = [files EXCEPT ![s] = files[s]]
  BY <1>3 DEF Setup, RunsScript, HasStrategy, HasHooks, Hows
<1> HIDE DEF none, installed, marked
<1>5. HasItsOwn(installed) /\ HasItsOwn(marked)
  BY <1>2 DEF HasItsOwn
<1>6. CASE head.how = "none" /\ files' = [files EXCEPT ![s] = none]
  <2>1. HasItsOwn(none)
    BY <1>2, <1>6 DEF HasItsOwn
  <2> QED
    BY <1>2, <1>6, <2>1
<1>7. CASE Reusable(s, head) /\ files' = [files EXCEPT ![s] = files[s]]
  <2>1. files[s].marker = head.lock /\ files[s].deps # NoLock
    BY <1>3, <1>7 DEF Reusable, MarkerMatches, RestoredMarker, Fingerprint, ArtifactsPresent
  <2>2. HasItsOwn(files[s])
    BY <1>3, <2>1 DEF HasItsOwn, Sound, Trusted
  <2> QED
    BY <1>1, <1>7, <2>2
<1> QED
  BY <1>2, <1>4, <1>5, <1>6, <1>7

-----------------------------------------------------------------------------
(* Steps and workspaces *)

\* A step that changes at most the workspace of one Session, or keeps it in a
\* backup or a row.
LEMMA SoundSteps ==
  ASSUME CacheInv, CacheTypes', NEW s \in Sessions,
         \A t \in Sessions \ {s} : files'[t] = files[t] /\ phase'[t] = phase[t],
         Sound(files'[s]),
         \A t \in Sessions : carrying'[t].took \in {Empty, files[t], carrying[t].took},
         \A i \in DOMAIN rows' : \/ i \in DOMAIN rows /\ rows'[i] = rows[i]
                                \/ rows'[i].files = carrying[s].took,
         Len(rows) > 0 => Len(rows') > 0, phase'[s] = "restoring" => Len(rows) > 0,
         phase'[s] \in {"fetched", "ready"} => files'[s].head \in Heads,
         phase'[s] = "ready" => HasItsOwn(files'[s])
  PROVE  CacheInv'
<1>1. \A t \in Sessions : Sound(files'[t]) /\ Sound(carrying'[t].took)
  BY EmptyIsSound DEF CacheInv, MarkerInv
<1>2. \A i \in DOMAIN rows' : Sound(rows'[i].files)
  BY DEF CacheInv, MarkerInv
<1>3. MarkerInv'
  BY <1>1, <1>2 DEF MarkerInv, Sound, Trusted, Whole
<1>4. \A t \in Sessions :
        /\ phase'[t] \in {"fetched", "ready"} => files'[t].head \in Heads
        /\ phase'[t] = "restoring" => Len(rows') > 0
        /\ phase'[t] = "ready" => HasItsOwn(files'[t])
  BY DEF CacheInv, InstallInv, ReadyMeansInstalled, HasItsOwn
<1>5. InstallInv'
  BY <1>4 DEF InstallInv, ReadyMeansInstalled, HasItsOwn
<1> QED
  BY <1>3, <1>5 DEF CacheInv

\* A step that leaves workspaces, backups and rows alone.
LEMMA QuietSteps ==
  ASSUME CacheInv, CacheTypes', NEW s \in Sessions, UNCHANGED <<files, rows>>,
         \A t \in Sessions \ {s} : phase'[t] = phase[t],
         phase'[s] = phase[s] \/ phase'[s] \notin {"fetched", "ready"},
         phase'[s] = "restoring" => Len(rows) > 0,
         \A t \in Sessions : carrying'[t].took \in {Empty, carrying[t].took}
  PROVE  CacheInv'
<1>1. Sound(files[s])
  BY DEF CacheInv, MarkerInv
<1>2. /\ phase'[s] \in {"fetched", "ready"} => files'[s].head \in Heads
      /\ phase'[s] = "ready" => HasItsOwn(files'[s])
  BY DEF CacheInv, InstallInv, ReadyMeansInstalled, HasItsOwn
<1> QED
  BY <1>1, <1>2, SoundSteps

LEMMA StepTypes ==
  ASSUME CacheTypes, NEW s \in Sessions, NEW from, NEW to \in Phases, Steps(s, from, to)
  PROVE  /\ phase' \in [Sessions -> Phases] /\ phase[s] = from /\ phase'[s] = to
         /\ \A t \in Sessions \ {s} : phase'[t] = phase[t]
  BY DEF CacheTypes, Steps

\* Provisioning up to the start of the agent, but for the restore.
LEMMA ProvisionSteps ==
  ASSUME CacheInv, NEW s \in Sessions, Creates(s) \/ LooksUp(s) \/ MarksUsed(s) \/ StartsAgent(s)
  PROVE  CacheInv'
<1>1. UNCHANGED <<upstream, files, job, carrying, rows>>
  BY DEF Creates, LooksUp, MarksUsed, StartsAgent, jobVars
<1>2. restored' \in [Sessions -> BOOLEAN]
  BY DEF Creates, LooksUp, MarksUsed, StartsAgent, CacheInv, CacheTypes
<1>3. PICK from, to : /\ to \in Phases \ {"fetched", "ready"} /\ Steps(s, from, to)
                      /\ to = "restoring" => Len(rows) > 0
  BY DEF Creates, LooksUp, MarksUsed, StartsAgent, Tries, Phases
<1>4. /\ phase' \in [Sessions -> Phases] /\ phase'[s] = to
      /\ \A t \in Sessions \ {s} : phase'[t] = phase[t]
  BY <1>3, StepTypes DEF CacheInv
<1>5. CacheTypes'
  BY <1>1, <1>2, <1>4 DEF CacheInv, CacheTypes
<1> QED
  BY <1>1, <1>3, <1>4, <1>5, QuietSteps

LEMMA RowTypes ==
  ASSUME CacheTypes, NEW i \in DOMAIN rows
  PROVE  rows[i] \in Snapshots /\ rows[i].files \in Workspace /\ rows[i].by \in Sessions
<1>1. rows \in Seq(Snapshots) /\ i \in 1 .. Len(rows)
  BY LenProperties DEF CacheTypes
<1>2. rows[i] \in Snapshots
  BY <1>1, ElementOfSeq
<1> QED
  BY <1>2 DEF Snapshots

LEMMA RestoreSteps ==
  ASSUME CacheInv, NEW s \in Sessions, Restores(s)
  PROVE  CacheInv'
<1>1. /\ UNCHANGED <<upstream, restored, job, carrying, rows>>
      /\ \/ Steps(s, "restoring", "marking") /\ files' = [files EXCEPT ![s] = Newest.files]
         \/ Steps(s, "restoring", "restored") /\ UNCHANGED files
  BY DEF Restores, jobVars
<1>2. PICK to \in {"marking", "restored"} : Steps(s, "restoring", to)
  BY <1>1
<1>3. /\ phase' \in [Sessions -> Phases] /\ phase'[s] = to
      /\ \A t \in Sessions \ {s} : phase'[t] = phase[t]
  BY <1>2, StepTypes DEF CacheInv, Phases
<1>4. Len(rows) \in DOMAIN rows
  <2>1. Len(rows) > 0
    BY <1>2, StepTypes DEF CacheInv, InstallInv, Phases
  <2> QED
    BY <2>1, LenProperties DEF CacheInv, CacheTypes
<1>5. Newest.files \in Workspace /\ Sound(Newest.files)
  BY <1>4, RowTypes DEF CacheInv, MarkerInv, Newest
<1>6. PICK w \in Workspace : Sound(w) /\ files' = [files EXCEPT ![s] = w]
  <2>1. files[s] \in Workspace /\ Sound(files[s]) /\ files = [files EXCEPT ![s] = files[s]]
    BY DEF CacheInv, CacheTypes, MarkerInv
  <2> QED
    BY <1>1, <1>5, <2>1
<1>7. files' \in [Sessions -> Workspace] /\ files'[s] = w
      /\ \A t \in Sessions \ {s} : files'[t] = files[t]
  BY <1>6 DEF CacheInv, CacheTypes
<1>8. CacheTypes'
  BY <1>1, <1>3, <1>7 DEF CacheInv, CacheTypes
<1> QED
  BY <1>1, <1>2, <1>3, <1>6, <1>7, <1>8, SoundSteps

LEMMA FetchSteps ==
  ASSUME CacheInv, NEW s \in Sessions, FetchesRepo(s)
  PROVE  CacheInv'
<1>1. /\ UNCHANGED <<upstream, restored, job, carrying, rows>>
      /\ \/ Steps(s, "started", "failed") /\ UNCHANGED files
         \/ Steps(s, "started", "fetched")
            /\ \/ files' = [files EXCEPT ![s] = Refreshed(files[s], RestoredMarker(s))]
               \/ files' = [files EXCEPT ![s] = Cloned(files[s])]
  BY DEF FetchesRepo, FailsSetup, jobVars
<1>2. files[s] \in Workspace /\ Sound(files[s]) /\ RestoredMarker(s) \in {files[s].marker, NoLock}
      /\ upstream \in Heads
  BY DEF CacheInv, CacheTypes, MarkerInv, RestoredMarker
<1>3. PICK to \in {"failed", "fetched"}, w \in Workspace :
        /\ Steps(s, "started", to) /\ Sound(w) /\ files' = [files EXCEPT ![s] = w]
        /\ to = "fetched" => w.head \in Heads
  <2>1. files = [files EXCEPT ![s] = files[s]]
    BY DEF CacheInv, CacheTypes
  <2>2. \A marker \in {files[s].marker, NoLock} :
          /\ Refreshed(files[s], marker) \in Workspace /\ Refreshed(files[s], marker).head = upstream
          /\ Sound(Refreshed(files[s], marker))
    BY <1>2, CheckoutIsSound DEF CacheInv
  <2>3. Cloned(files[s]) \in Workspace /\ Cloned(files[s]).head = upstream /\ Sound(Cloned(files[s]))
    BY <1>2, CheckoutIsSound DEF CacheInv
  <2>4. CASE Steps(s, "started", "failed") /\ UNCHANGED files
    BY <1>2, <2>1, <2>4
  <2>5. CASE Steps(s, "started", "fetched")
             /\ files' = [files EXCEPT ![s] = Refreshed(files[s], RestoredMarker(s))]
    BY <1>2, <2>2, <2>5
  <2>6. CASE Steps(s, "started", "fetched") /\ files' = [files EXCEPT ![s] = Cloned(files[s])]
    BY <1>2, <2>3, <2>6
  <2> QED
    BY <1>1, <2>4, <2>5, <2>6
<1>4. /\ phase' \in [Sessions -> Phases] /\ phase'[s] = to
      /\ \A t \in Sessions \ {s} : phase'[t] = phase[t]
  BY <1>3, StepTypes DEF CacheInv, Phases
<1>5. files' \in [Sessions -> Workspace] /\ files'[s] = w
      /\ \A t \in Sessions \ {s} : files'[t] = files[t]
  BY <1>3 DEF CacheInv, CacheTypes
<1>6. CacheTypes'
  BY <1>1, <1>4, <1>5 DEF CacheInv, CacheTypes
<1> QED
  BY <1>1, <1>3, <1>4, <1>5, <1>6, SoundSteps

LEMMA SetUpSteps ==
  ASSUME CacheInv, NEW s \in Sessions, SetsUp(s)
  PROVE  CacheInv'
<1>1. /\ UNCHANGED <<upstream, restored, carrying, rows>> /\ phase[s] = "fetched"
      /\ \/ Steps(s, "fetched", "failed") /\ UNCHANGED <<files, job>>
         \/ Steps(s, "fetched", "ready") /\ Setup(s) /\ Enqueued(s)
  BY DEF SetsUp, FailsSetup, Enqueued, jobVars
<1>2. files[s] \in Workspace /\ Sound(files[s]) /\ files[s].head \in Heads
  BY <1>1 DEF CacheInv, CacheTypes, MarkerInv, InstallInv
<1>3. job' \in [Sessions -> Jobs]
  <2>1. [status |-> "pending", attempts |-> 0, due |-> "now"] \in Jobs
    BY DEF Jobs, Unfinished
  <2> QED
    BY <1>1, <2>1 DEF Enqueued, CacheInv, CacheTypes
<1>4. PICK to \in {"failed", "ready"}, w \in Workspace :
        /\ Steps(s, "fetched", to) /\ Sound(w) /\ files' = [files EXCEPT ![s] = w]
        /\ to = "ready" => HasItsOwn(w) /\ w.head \in Heads
  <2>1. files = [files EXCEPT ![s] = files[s]]
    BY DEF CacheInv, CacheTypes
  <2> QED
    BY <1>1, <1>2, <2>1, SetupInstalls DEF CacheInv
<1>5. /\ phase' \in [Sessions -> Phases] /\ phase'[s] = to
      /\ \A t \in Sessions \ {s} : phase'[t] = phase[t]
  BY <1>4, StepTypes DEF CacheInv, Phases
<1>6. files' \in [Sessions -> Workspace] /\ files'[s] = w
      /\ \A t \in Sessions \ {s} : files'[t] = files[t]
  BY <1>4 DEF CacheInv, CacheTypes
<1>7. CacheTypes'
  BY <1>1, <1>3, <1>5, <1>6 DEF CacheInv, CacheTypes
<1> QED
  BY <1>1, <1>4, <1>5, <1>6, <1>7, SoundSteps

LEMMA AgentInstallSteps ==
  ASSUME CacheInv, NEW s \in Sessions, NEW lock \in Locks, AgentInstalls(s, lock)
  PROVE  CacheInv'
<1> DEFINE w == [files[s] EXCEPT !.deps = lock, !.own = TRUE]
<1>1. /\ UNCHANGED <<upstream, phase, restored, job, carrying, rows>> /\ phase[s] = "ready"
      /\ files' = [files EXCEPT ![s].deps = lock, ![s].own = TRUE]
  BY DEF AgentInstalls, jobVars
<1>2. files[s] \in Workspace /\ Sound(files[s]) /\ lock # NoLock
  BY CacheAssumption DEF CacheInv, CacheTypes, MarkerInv, Locks
<1>3. w \in Workspace /\ w.own = TRUE /\ w.head = files[s].head
  BY <1>2 DEF Workspace
<1>4. files' = [files EXCEPT ![s] = w]
  BY <1>1, <1>2 DEF CacheInv, CacheTypes
<1> HIDE DEF w
<1>5. w.head \in Heads /\ w.head # NoHead
  BY <1>1, <1>3, CacheAssumption DEF CacheInv, InstallInv
<1>6. files' \in [Sessions -> Workspace] /\ files'[s] = w
      /\ \A t \in Sessions \ {s} : files'[t] = files[t]
  BY <1>3, <1>4 DEF CacheInv, CacheTypes
<1>7. CacheTypes'
  BY <1>1, <1>6 DEF CacheInv, CacheTypes
<1>8. Sound(w) /\ HasItsOwn(w)
  BY <1>3, <1>5 DEF Sound, Trusted, Whole, HasItsOwn
<1> QED
  BY <1>1, <1>5, <1>6, <1>7, <1>8, SoundSteps

LEMMA EndSteps ==
  ASSUME CacheInv, NEW s \in Sessions, SessionEnds(s)
  PROVE  CacheInv'
<1>1. /\ UNCHANGED <<upstream, restored, job, carrying, rows>> /\ Steps(s, "ready", "ended")
      /\ files' = [files EXCEPT ![s] = Empty]
  BY DEF SessionEnds, jobVars
<1>2. /\ phase' \in [Sessions -> Phases] /\ phase'[s] = "ended"
      /\ \A t \in Sessions \ {s} : phase'[t] = phase[t]
  BY <1>1, StepTypes DEF CacheInv, Phases
<1>3. files' \in [Sessions -> Workspace] /\ files'[s] = Empty
      /\ \A t \in Sessions \ {s} : files'[t] = files[t]
  BY <1>1, EmptyIsSound DEF CacheInv, CacheTypes
<1>4. CacheTypes'
  BY <1>1, <1>2, <1>3 DEF CacheInv, CacheTypes
<1> QED
  BY <1>1, <1>2, <1>3, <1>4, EmptyIsSound, SoundSteps

-----------------------------------------------------------------------------
(* Steps of the job *)

LEMMA JobTypes ==
  ASSUME NEW j \in Jobs
  PROVE  /\ Claimed(j) \in Jobs /\ Claimed(j).status = "running"
         /\ Claimed(j).attempts = j.attempts + 1
         /\ ReadyJob(j) \in Jobs /\ ReadyJob(j).attempts = j.attempts
         /\ [j EXCEPT !.due = "now"] \in Jobs /\ [j EXCEPT !.due = "now"].status = j.status
         /\ [j EXCEPT !.due = "now"].attempts = j.attempts
         /\ Requeued(j) \in Jobs /\ Requeued(j).attempts = j.attempts
         /\ (j = NoJob => Requeued(j) = NoJob)
         /\ (Requeued(j).status = "ready" => j.status = "ready")
         /\ \A b \in BOOLEAN : /\ GaveUp(j, b) \in Jobs /\ GaveUp(j, b).attempts = j.attempts
                              /\ GaveUp(j, b).status # "ready"
<1>1. Claimed(j) \in Jobs /\ Claimed(j).status = "running" /\ Claimed(j).attempts = j.attempts + 1
  BY DEF Claimed, Jobs, Unfinished
<1>2. ReadyJob(j) \in Jobs /\ ReadyJob(j).attempts = j.attempts
  BY DEF ReadyJob, Jobs, Finished
<1>3. /\ [j EXCEPT !.due = "now"] \in Jobs /\ [j EXCEPT !.due = "now"].status = j.status
      /\ [j EXCEPT !.due = "now"].attempts = j.attempts
  BY DEF Jobs
<1>4. /\ Requeued(j) \in Jobs /\ Requeued(j).attempts = j.attempts
      /\ (j = NoJob => Requeued(j) = NoJob)
      /\ (Requeued(j).status = "ready" => j.status = "ready")
  <2>1. CASE j.status = "running"
    <3>1. Requeued(j) = [j EXCEPT !.status = "pending", !.due = "now"]
      BY <2>1 DEF Requeued
    <3>2. j # NoJob
      BY <2>1 DEF NoJob
    <3> DEFINE k == [j EXCEPT !.status = "pending", !.due = "now"]
    <3>3. k \in Jobs /\ k.attempts = j.attempts /\ k.status = "pending"
      BY DEF Jobs, Unfinished
    <3> QED
      BY <3>1, <3>2, <3>3
  <2>2. CASE j.status # "running"
    BY <2>2 DEF Requeued
  <2> QED
    BY <2>1, <2>2
<1>5. ASSUME NEW b \in BOOLEAN
      PROVE  /\ GaveUp(j, b) \in Jobs /\ GaveUp(j, b).attempts = j.attempts
             /\ GaveUp(j, b).status # "ready"
  <2>1. CASE b /\ MayRetry(j)
    BY <2>1 DEF GaveUp, Jobs, Unfinished
  <2>2. CASE ~(b /\ MayRetry(j))
    <3> DEFINE status == IF b THEN "exhausted" ELSE "failed"
    <3>1. GaveUp(j, b) = [j EXCEPT !.status = status, !.due = "never"] /\ status \in Finished \ {"ready"}
      BY <2>2 DEF GaveUp, Finished
    <3> HIDE DEF status
    <3> QED
      BY <3>1 DEF Jobs
  <2> QED
    BY <2>1, <2>2
<1> QED
  BY <1>1, <1>2, <1>3, <1>4, <1>5

\* A Session whose job, backup and rows stay is accounted for as before.
LEMMA StaysAccounted ==
  ASSUME NEW t, Accounted(t), job'[t] = job[t], carrying'[t] = carrying[t],
         RowsOf(t)' = RowsOf(t),
         phase'[t] = phase[t] \/ phase'[t] \in {"ready", "ended"} \/ phase[t] \notin {"ready", "ended"}
  PROVE  Accounted(t)'
  BY DEF Accounted, InFlight

\* The rows of a Session are finitely many.
LEMMA RowsAreFinite ==
  ASSUME CacheTypes, NEW t
  PROVE  IsFiniteSet(RowsOf(t)) /\ Cardinality(RowsOf(t)) \in Nat
<1>1. IsFiniteSet(1 .. Len(rows))
  BY FS_Interval, LenProperties DEF CacheTypes
<1>2. IsFiniteSet(RowsOf(t))
  BY <1>1, FS_Subset DEF RowsOf
<1> QED
  BY <1>2, FS_CardinalityType

\* A backup adds one row, to those of its Session.
LEMMA RowIsAdded ==
  ASSUME CacheTypes, NEW s \in Sessions, rows' = Persisted(s)
  PROVE  /\ rows' \in Seq(Snapshots) /\ Len(rows') > 0
         /\ \A i \in DOMAIN rows' : \/ i \in DOMAIN rows /\ rows'[i] = rows[i]
                                   \/ rows'[i].files = carrying[s].took
         /\ \A t \in Sessions \ {s} : RowsOf(t)' = RowsOf(t)
         /\ Cardinality(RowsOf(s)') = Cardinality(RowsOf(s)) + 1
         /\ RowsOf(s)' # {}
<1> DEFINE r == [files |-> carrying[s].took, by |-> s]
           n == Len(rows) + 1
<1>1. r \in Snapshots /\ r.files = carrying[s].took /\ r.by = s /\ rows' = Append(rows, r)
  BY DEF CacheTypes, Backups, Snapshots, Persisted
<1> HIDE DEF r
<1>2. /\ rows' \in Seq(Snapshots) /\ Len(rows') = n /\ Len(rows) \in Nat /\ rows'[n] = r
      /\ \A i \in 1 .. Len(rows) : rows'[i] = rows[i]
  BY <1>1, AppendProperties, LenProperties DEF CacheTypes
<1>3. 1 .. Len(rows') = (1 .. Len(rows)) \cup {n} /\ n \notin 1 .. Len(rows)
  BY <1>2
<1>4. DOMAIN rows = 1 .. Len(rows) /\ DOMAIN rows' = 1 .. Len(rows')
  BY <1>2, LenProperties DEF CacheTypes
<1>5. \A i \in DOMAIN rows' : \/ i \in DOMAIN rows /\ rows'[i] = rows[i]
                            \/ rows'[i].files = carrying[s].took
  BY <1>1, <1>2, <1>3, <1>4
<1>6. \A t \in Sessions \ {s} : RowsOf(t)' = RowsOf(t)
  BY <1>1, <1>2, <1>3 DEF RowsOf
<1>7. RowsOf(s)' = RowsOf(s) \cup {n} /\ n \notin RowsOf(s)
  BY <1>1, <1>2, <1>3 DEF RowsOf
<1>8. Cardinality(RowsOf(s) \cup {n}) = Cardinality(RowsOf(s)) + 1
  BY <1>7, RowsAreFinite, FS_AddElement
<1>9. Cardinality(RowsOf(s)') = Cardinality(RowsOf(s)) + 1
  BY <1>7, <1>8
<1>10. RowsOf(s)' # {}
  BY <1>7
<1> QED
  BY <1>2, <1>5, <1>6, <1>9, <1>10

\* Steps of the provisioning, which no job follows yet.
LEMMA NoJobYet ==
  ASSUME CacheTypes, RowInv, NEW s \in Sessions, UNCHANGED <<job, carrying, rows>>,
         \A t \in Sessions \ {s} : phase'[t] = phase[t],
         phase[s] \notin {"ready", "ended"} \/ phase'[s] \in {"ready", "ended"}
  PROVE  RowInv'
<1>1. \A t \in Sessions : RowsOf(t)' = RowsOf(t)
  BY DEF RowsOf
<1> QED
  BY <1>1, StaysAccounted DEF RowInv

LEMMA SetUpAccounted ==
  ASSUME CacheTypes, RowInv, NEW s \in Sessions, SetsUp(s)
  PROVE  RowInv'
<1>1. /\ UNCHANGED <<carrying, rows>> /\ phase[s] = "fetched"
      /\ \/ Steps(s, "fetched", "failed") /\ UNCHANGED job
         \/ /\ Steps(s, "fetched", "ready")
            /\ job' = [job EXCEPT ![s] = [status |-> "pending", attempts |-> 0, due |-> "now"]]
  BY DEF SetsUp, FailsSetup, Enqueued, jobVars
<1>2. \A t \in Sessions : RowsOf(t)' = RowsOf(t)
  BY <1>1 DEF RowsOf
<1>3. CASE Steps(s, "fetched", "failed") /\ UNCHANGED job
  BY <1>1, <1>3, StepTypes, NoJobYet DEF Phases
<1>4. CASE /\ Steps(s, "fetched", "ready")
           /\ job' = [job EXCEPT ![s] = [status |-> "pending", attempts |-> 0, due |-> "now"]]
  <2>1. phase'[s] = "ready" /\ \A t \in Sessions \ {s} : phase'[t] = phase[t]
    BY <1>4, StepTypes DEF Phases
  <2>2. job'[s].status = "pending" /\ job'[s].attempts = 0 /\ \A t \in Sessions \ {s} : job'[t] = job[t]
    BY <1>4 DEF CacheTypes
  <2>3. job[s] = NoJob /\ ~InFlight(s) /\ Cardinality(RowsOf(s)) <= job[s].attempts
    BY <1>1 DEF RowInv, Accounted
  <2>4. Cardinality(RowsOf(s)) <= 0
    BY <2>3 DEF NoJob
  <2>5. Accounted(s)'
    BY <1>1, <1>2, <2>1, <2>2, <2>3, <2>4 DEF Accounted, InFlight
  <2>6. \A t \in Sessions \ {s} : Accounted(t)'
    BY <1>1, <1>2, <2>1, <2>2, StaysAccounted DEF RowInv
  <2> QED
    BY <2>5, <2>6 DEF RowInv
<1> QED
  BY <1>1, <1>3, <1>4

\* A step that leaves a Session where it is, and its rows.
LEMMA JobSteps ==
  ASSUME CacheInv, RowInv, NEW s \in Sessions, UNCHANGED <<upstream, restored, files, rows>>,
         \A t \in Sessions \ {s} : phase'[t] = phase[t],
         phase' \in [Sessions -> Phases],
         phase'[s] = phase[s] \/ (phase[s] \notin {"ready", "ended"} /\
                                  phase'[s] \notin {"restoring", "fetched", "ready", "ended"}),
         job' \in [Sessions -> Jobs], \A t \in Sessions \ {s} : job'[t] = job[t],
         job[s] = NoJob => job'[s] = NoJob, job'[s].attempts >= job[s].attempts,
         job'[s].status = "ready" => job[s].status = "ready",
         carrying' \in [Sessions -> Backups],
         \A t \in Sessions \ {s} : carrying'[t] = carrying[t],
         carrying'[s].took \in {Empty, files[s], carrying[s].took},
         carrying'[s].step # "no" =>
            /\ job'[s].status = "running" /\ job[s] # NoJob
            /\ InFlight(s) \/ job'[s].attempts > job[s].attempts
  PROVE  CacheInv' /\ RowInv'
<1>3. CacheTypes'
  BY DEF CacheInv, CacheTypes
<1>4. Sound(files[s]) /\ \A t \in Sessions : carrying'[t].took \in {Empty, files[t], carrying[t].took}
  BY DEF CacheInv, MarkerInv
<1>5. CacheInv'
  <2>1. /\ phase'[s] \in {"fetched", "ready"} => files'[s].head \in Heads
        /\ phase'[s] = "ready" => HasItsOwn(files'[s])
        /\ phase'[s] = "restoring" => Len(rows) > 0
    BY DEF CacheInv, InstallInv, ReadyMeansInstalled, HasItsOwn
  <2> QED
    BY <1>3, <1>4, <2>1, SoundSteps
<1>6. \A t \in Sessions : RowsOf(t)' = RowsOf(t)
  BY DEF RowsOf
<1>7. Cardinality(RowsOf(s)) \in Nat /\ job[s].attempts \in Nat /\ job'[s].attempts \in Nat
  BY RowsAreFinite DEF CacheInv, CacheTypes, Jobs
<1>8. Accounted(s)
  BY DEF RowInv
<1>9. Accounted(s)'
  BY <1>6, <1>7, <1>8 DEF Accounted, InFlight
<1>10. \A t \in Sessions \ {s} : Accounted(t)'
  BY <1>6, StaysAccounted DEF RowInv
<1> QED
  BY <1>5, <1>9, <1>10 DEF RowInv

\* What a step puts for one Session.
LEMMA PutsOne ==
  ASSUME CacheTypes, NEW s \in Sessions, NEW j \in Jobs, NEW b \in Backups,
         job' = [job EXCEPT ![s] = j], carrying' = [carrying EXCEPT ![s] = b]
  PROVE  /\ job' \in [Sessions -> Jobs] /\ job'[s] = j
         /\ \A t \in Sessions \ {s} : job'[t] = job[t]
         /\ carrying' \in [Sessions -> Backups] /\ carrying'[s] = b
         /\ \A t \in Sessions \ {s} : carrying'[t] = carrying[t]
  BY DEF CacheTypes

LEMMA JobOf ==
  ASSUME CacheTypes, NEW s \in Sessions
  PROVE  /\ job[s] \in Jobs /\ carrying[s] \in Backups /\ phase[s] \in Phases
         /\ job = [job EXCEPT ![s] = job[s]] /\ carrying = [carrying EXCEPT ![s] = carrying[s]]
         /\ phase = [phase EXCEPT ![s] = phase[s]]
         /\ NoBackup \in Backups /\ NoBackup.took = Empty /\ NoBackup.step = "no"
         /\ NoJob.status = "missing"
         /\ job[s].attempts \in Nat
  BY EmptyIsSound DEF CacheTypes, NoBackup, NoJob, Backups, Jobs

\* An attempt that failed is counted, whether it is the last one or not.
LEMMA GivesUp ==
  ASSUME NEW s \in Sessions, job[s] \in Jobs, AttemptFails(s)
  PROVE  \E j \in Jobs : /\ job' = [job EXCEPT ![s] = j] /\ j.attempts = job[s].attempts
                         /\ j.status # "ready"
<1>1. \/ job' = [job EXCEPT ![s] = GaveUp(job[s], TRUE)]
      \/ job' = [job EXCEPT ![s] = GaveUp(job[s], FALSE)]
  BY DEF AttemptFails, Puts
<1>2. /\ GaveUp(job[s], TRUE) \in Jobs /\ GaveUp(job[s], TRUE).attempts = job[s].attempts
      /\ GaveUp(job[s], TRUE).status # "ready"
      /\ GaveUp(job[s], FALSE) \in Jobs /\ GaveUp(job[s], FALSE).attempts = job[s].attempts
      /\ GaveUp(job[s], FALSE).status # "ready"
  BY JobTypes, Zenon
<1> QED
  BY <1>1, <1>2

LEMMA ClaimSteps ==
  ASSUME CacheInv, RowInv, NEW s \in Sessions, Claims(s)
  PROVE  CacheInv' /\ RowInv'
<1> DEFINE b == [carrying[s] EXCEPT !.step = "backup"]
<1>1. /\ UNCHANGED <<upstream, phase, restored, files, rows>> /\ job[s].status = "pending"
      /\ job' = [job EXCEPT ![s] = Claimed(job[s])]
      /\ carrying' = [carrying EXCEPT ![s].step = "backup"]
  BY DEF Claims, IsDue, Puts, sandboxVars
<1>2. /\ job[s] \in Jobs /\ carrying[s] \in Backups /\ job[s] # NoJob
      /\ phase \in [Sessions -> Phases] /\ job[s].attempts \in Nat
  BY <1>1, JobOf DEF CacheInv, CacheTypes
<1>3. carrying' = [carrying EXCEPT ![s] = b] /\ b \in Backups /\ b.took = carrying[s].took
  BY <1>1, <1>2 DEF Backups, CacheInv, CacheTypes
<1> HIDE DEF b
<1>4. /\ Claimed(job[s]) \in Jobs /\ Claimed(job[s]).status = "running"
      /\ Claimed(job[s]).attempts = job[s].attempts + 1
  BY <1>2, JobTypes
<1>5. /\ job' \in [Sessions -> Jobs] /\ job'[s] = Claimed(job[s])
      /\ \A t \in Sessions \ {s} : job'[t] = job[t]
      /\ carrying' \in [Sessions -> Backups] /\ carrying'[s] = b
      /\ \A t \in Sessions \ {s} : carrying'[t] = carrying[t]
  BY <1>1, <1>3, <1>4, PutsOne DEF CacheInv
<1> QED
  BY <1>1, <1>2, <1>3, <1>4, <1>5, JobSteps

LEMMA JobIsDueSteps ==
  ASSUME CacheInv, RowInv, NEW s \in Sessions, JobIsDue(s)
  PROVE  CacheInv' /\ RowInv'
<1> DEFINE j == [job[s] EXCEPT !.due = "now"]
<1>1. /\ UNCHANGED <<upstream, phase, restored, files, rows, carrying>> /\ job[s].due = "later"
      /\ job' = [job EXCEPT ![s].due = "now"]
  BY DEF JobIsDue, sandboxVars
<1>2. /\ job[s] \in Jobs /\ carrying[s] \in Backups /\ carrying' = [carrying EXCEPT ![s] = carrying[s]]
      /\ phase \in [Sessions -> Phases] /\ job[s].attempts \in Nat
  BY <1>1, JobOf DEF CacheInv, CacheTypes
<1>3. job[s] # NoJob
  BY <1>1 DEF NoJob
<1>4. job' = [job EXCEPT ![s] = j] /\ j \in Jobs /\ j.attempts = job[s].attempts /\ j.status = job[s].status
  BY <1>1, <1>2, JobTypes DEF CacheInv, CacheTypes
<1> HIDE DEF j
<1>5. carrying[s].step # "no" => job[s].status = "running" /\ InFlight(s)
  BY DEF RowInv, Accounted, InFlight
<1>6. /\ job' \in [Sessions -> Jobs] /\ job'[s] = j
      /\ \A t \in Sessions \ {s} : job'[t] = job[t]
      /\ carrying' \in [Sessions -> Backups] /\ carrying'[s] = carrying[s]
      /\ \A t \in Sessions \ {s} : carrying'[t] = carrying[t]
  BY <1>2, <1>4, PutsOne DEF CacheInv
<1> QED
  BY <1>1, <1>2, <1>3, <1>4, <1>5, <1>6, JobSteps

LEMMA BackupSteps ==
  ASSUME CacheInv, RowInv, NEW s \in Sessions, BackupAnswered(s)
  PROVE  CacheInv' /\ RowInv'
<1>1. UNCHANGED <<upstream, phase, restored, files, rows>> /\ carrying[s].step = "backup"
  BY DEF BackupAnswered, Carries, sandboxVars
<1>2. /\ job[s] \in Jobs /\ phase \in [Sessions -> Phases] /\ files[s] \in Workspace
      /\ job[s].attempts \in Nat
      /\ NoBackup \in Backups /\ NoBackup.took = Empty /\ NoBackup.step = "no"
  BY JobOf DEF CacheInv, CacheTypes
<1>3. InFlight(s) /\ job[s].status = "running" /\ job[s] # NoJob
  BY <1>1, JobOf DEF RowInv, Accounted, InFlight, CacheInv
<1>4. CASE /\ carrying' = [carrying EXCEPT ![s] = [step |-> "persist", took |-> files[s]]]
           /\ UNCHANGED job
  <2> DEFINE b == [step |-> "persist", took |-> files[s]]
  <2>1. b \in Backups /\ b.took = files[s] /\ carrying' = [carrying EXCEPT ![s] = b]
    BY <1>2, <1>4 DEF Backups
  <2>2. job' = [job EXCEPT ![s] = job[s]] /\ job[s] \in Jobs
    BY <1>4, JobOf DEF CacheInv
  <2>3. b.step = "persist"
    OBVIOUS
  <2> HIDE DEF b
  <2>4. /\ job' \in [Sessions -> Jobs] /\ job'[s] = job[s]
        /\ \A t \in Sessions \ {s} : job'[t] = job[t]
        /\ carrying' \in [Sessions -> Backups] /\ carrying'[s] = b
        /\ \A t \in Sessions \ {s} : carrying'[t] = carrying[t]
    BY <2>1, <2>2, PutsOne DEF CacheInv
  <2> QED
    BY <1>1, <1>2, <1>3, <2>1, <2>4, JobSteps
<1>5. CASE AttemptFails(s)
  <2>1. PICK j \in Jobs : /\ job' = [job EXCEPT ![s] = j] /\ j.attempts = job[s].attempts
                          /\ j.status # "ready"
    BY <1>2, <1>5, GivesUp
  <2>2. carrying' = [carrying EXCEPT ![s] = NoBackup]
    BY <1>5 DEF AttemptFails
  <2>3. /\ job' \in [Sessions -> Jobs] /\ job'[s] = j
        /\ \A t \in Sessions \ {s} : job'[t] = job[t]
        /\ carrying' \in [Sessions -> Backups] /\ carrying'[s] = NoBackup
        /\ \A t \in Sessions \ {s} : carrying'[t] = carrying[t]
    BY <1>2, <2>1, <2>2, PutsOne DEF CacheInv
  <2> QED
    BY <1>1, <1>2, <1>3, <2>1, <2>3, JobSteps
<1> QED
  BY <1>4, <1>5 DEF BackupAnswered

LEMMA RowSteps ==
  ASSUME CacheInv, RowInv, NEW s \in Sessions, RowAnswered(s)
  PROVE  CacheInv' /\ RowInv'
<1>1. UNCHANGED <<upstream, phase, restored, files>> /\ carrying[s].step = "persist"
      /\ carrying' = [carrying EXCEPT ![s] = NoBackup]
  BY DEF RowAnswered, Carries, AttemptFails, sandboxVars
<1>2. /\ job[s] \in Jobs /\ phase \in [Sessions -> Phases] /\ job[s].attempts \in Nat
      /\ NoBackup \in Backups /\ NoBackup.took = Empty /\ NoBackup.step = "no"
  BY JobOf DEF CacheInv, CacheTypes
<1>3. /\ InFlight(s) /\ job[s].status = "running" /\ job[s] # NoJob
      /\ Cardinality(RowsOf(s)) < job[s].attempts /\ phase[s] \in {"ready", "ended"}
  BY <1>1, JobOf DEF RowInv, Accounted, InFlight, CacheInv
<1>4. PICK j \in Jobs : /\ job' = [job EXCEPT ![s] = j] /\ j.attempts = job[s].attempts
                        /\ rows' \in {rows, Persisted(s)}
                        /\ j.status = "ready" => rows' = Persisted(s)
  <2>1. CASE rows' = Persisted(s) /\ Puts(s, ReadyJob(job[s]))
    BY <1>2, <2>1, JobTypes DEF Puts
  <2>2. CASE AttemptFails(s) /\ rows' \in {rows, Persisted(s)}
    BY <1>2, <2>2, GivesUp
  <2> QED
    BY <2>1, <2>2 DEF RowAnswered
<1>5. CASE rows' = rows
  <2>1. j.status # "ready"
    <3>1. Cardinality(RowsOf(s)) = Cardinality(RowsOf(s)')
      BY <1>5 DEF RowsOf
    <3>2. Cardinality(RowsOf(s)) \in Nat
      BY RowsAreFinite DEF CacheInv
    <3>3. rows' # Persisted(s)
      BY <3>1, <3>2, RowIsAdded DEF CacheInv
    <3> QED
      BY <1>4, <3>3
  <2>2. /\ job' \in [Sessions -> Jobs] /\ job'[s] = j
        /\ \A t \in Sessions \ {s} : job'[t] = job[t]
        /\ carrying' \in [Sessions -> Backups] /\ carrying'[s] = NoBackup
        /\ \A t \in Sessions \ {s} : carrying'[t] = carrying[t]
    BY <1>1, <1>2, <1>4, PutsOne DEF CacheInv
  <2> QED
    BY <1>1, <1>2, <1>3, <1>4, <1>5, <2>1, <2>2, JobSteps
<1>6. CASE rows' = Persisted(s)
  <2>1. /\ rows' \in Seq(Snapshots) /\ Len(rows') > 0
        /\ \A i \in DOMAIN rows' : \/ i \in DOMAIN rows /\ rows'[i] = rows[i]
                                  \/ rows'[i].files = carrying[s].took
        /\ \A t \in Sessions \ {s} : RowsOf(t)' = RowsOf(t)
        /\ Cardinality(RowsOf(s)') = Cardinality(RowsOf(s)) + 1
        /\ RowsOf(s)' # {}
    BY <1>6, RowIsAdded DEF CacheInv
  <2>2. job' \in [Sessions -> Jobs] /\ job'[s] = j /\ \A t \in Sessions \ {s} : job'[t] = job[t]
    BY <1>4 DEF CacheInv, CacheTypes
  <2>3. carrying' \in [Sessions -> Backups] /\ carrying'[s] = NoBackup
        /\ \A t \in Sessions \ {s} : carrying'[t] = carrying[t]
    BY <1>1, <1>2 DEF CacheInv, CacheTypes
  <2>4. CacheTypes'
    BY <1>1, <2>1, <2>2, <2>3 DEF CacheInv, CacheTypes
  <2>5. /\ Sound(files'[s]) /\ phase'[s] = phase[s] /\ files'[s] = files[s]
        /\ \A t \in Sessions : carrying'[t].took \in {Empty, files[t], carrying[t].took}
        /\ phase'[s] = "ready" => HasItsOwn(files'[s]) /\ files'[s].head \in Heads
    BY <1>1, <1>2, <2>3 DEF CacheInv, MarkerInv, InstallInv, ReadyMeansInstalled, HasItsOwn
  <2>6. CacheInv'
    BY <1>1, <1>3, <2>1, <2>4, <2>5, SoundSteps
  <2>7. Cardinality(RowsOf(s)) \in Nat
    BY RowsAreFinite DEF CacheInv
  <2>8. Accounted(s)'
    BY <1>1, <1>2, <1>3, <1>4, <2>1, <2>2, <2>3, <2>7 DEF Accounted, InFlight
  <2>9. \A t \in Sessions \ {s} : Accounted(t)'
    BY <1>1, <2>1, <2>2, <2>3, StaysAccounted DEF RowInv
  <2> QED
    BY <2>6, <2>8, <2>9 DEF RowInv
<1> QED
  BY <1>4, <1>5, <1>6

LEMMA RestartSteps ==
  ASSUME CacheInv, RowInv, NEW s \in Sessions, Restart(s)
  PROVE  CacheInv' /\ RowInv'
<1>1. /\ UNCHANGED <<upstream, restored, files, rows>>
      /\ carrying' = [carrying EXCEPT ![s] = NoBackup]
      /\ job' = [job EXCEPT ![s] = Requeued(job[s])]
  BY DEF Restart, Puts
<1>2. PICK p \in CutShort(s) : phase' = [phase EXCEPT ![s] = p]
  BY DEF Restart
<1>3. /\ p \in Phases
      /\ p = phase[s] \/ (phase[s] \in Provisioning /\ p \in {"failed", "started"})
  BY <1>2, JobOf DEF CutShort, Phases, CacheInv
<1>4. /\ phase' \in [Sessions -> Phases] /\ phase'[s] = p
      /\ \A t \in Sessions \ {s} : phase'[t] = phase[t]
  BY <1>2, <1>3 DEF CacheInv, CacheTypes
<1>5. /\ job[s] \in Jobs /\ job[s].attempts \in Nat
      /\ NoBackup \in Backups /\ NoBackup.took = Empty /\ NoBackup.step = "no"
  BY JobOf DEF CacheInv
<1>6. /\ Requeued(job[s]) \in Jobs /\ Requeued(job[s]).attempts = job[s].attempts
      /\ (job[s] = NoJob => Requeued(job[s]) = NoJob)
      /\ (Requeued(job[s]).status = "ready" => job[s].status = "ready")
  BY <1>5, JobTypes
<1>7. phase'[s] = phase[s] \/ (phase[s] \notin {"ready", "ended"} /\
                               phase'[s] \notin {"restoring", "fetched", "ready", "ended"})
  BY <1>3, <1>4 DEF Provisioning
<1>8. /\ job' \in [Sessions -> Jobs] /\ job'[s] = Requeued(job[s])
      /\ \A t \in Sessions \ {s} : job'[t] = job[t]
      /\ carrying' \in [Sessions -> Backups] /\ carrying'[s] = NoBackup
      /\ \A t \in Sessions \ {s} : carrying'[t] = carrying[t]
  BY <1>1, <1>5, <1>6, PutsOne DEF CacheInv
<1> QED
  BY <1>1, <1>4, <1>5, <1>6, <1>7, <1>8, JobSteps

\* Steps that change neither a workspace nor a job.
LEMMA OtherCacheSteps ==
  ASSUME CacheInv, RowInv, upstream' \in Heads,
         UNCHANGED <<phase, restored, files, job, carrying, rows>>
  PROVE  CacheInv' /\ RowInv'
<1>1. CacheTypes'
  BY DEF CacheInv, CacheTypes
<1>2. MarkerInv'
  BY DEF CacheInv, MarkerInv, Sound, Trusted, Whole
<1>3. InstallInv'
  BY DEF CacheInv, InstallInv, ReadyMeansInstalled
<1>4. \A t \in Sessions : RowsOf(t)' = RowsOf(t)
  BY DEF RowsOf
<1>5. \A t \in Sessions : Accounted(t)'
  BY <1>4 DEF RowInv, Accounted, InFlight
<1> QED
  BY <1>1, <1>2, <1>3, <1>5 DEF CacheInv, RowInv

\* Steps of a Session that leave its job alone.
LEMMA SessionSteps ==
  ASSUME CacheInv, RowInv, NEW s \in Sessions,
         \/ Creates(s) \/ LooksUp(s) \/ Restores(s) \/ MarksUsed(s) \/ StartsAgent(s)
         \/ FetchesRepo(s) \/ SessionEnds(s) \/ \E l \in Locks : AgentInstalls(s, l)
  PROVE  CacheInv' /\ RowInv'
<1>1. UNCHANGED <<job, carrying, rows>>
  BY DEF Creates, LooksUp, Restores, MarksUsed, StartsAgent, FetchesRepo, SessionEnds,
         AgentInstalls, jobVars
<1>2. /\ \A t \in Sessions \ {s} : phase'[t] = phase[t]
      /\ phase[s] \notin {"ready", "ended"} \/ phase'[s] \in {"ready", "ended"}
  <2>1. CASE SessionEnds(s) \/ \E l \in Locks : AgentInstalls(s, l)
    <3>1. (UNCHANGED phase /\ phase[s] = "ready") \/ Steps(s, "ready", "ended")
      BY <2>1 DEF SessionEnds, AgentInstalls
    <3> QED
      BY <3>1, StepTypes DEF CacheInv, Phases
  <2>2. CASE \/ Creates(s) \/ LooksUp(s) \/ Restores(s) \/ MarksUsed(s) \/ StartsAgent(s)
             \/ FetchesRepo(s)
    <3>1. PICK from \in Phases \ {"ready", "ended"}, to \in Phases : Steps(s, from, to)
      BY <2>2 DEF Creates, LooksUp, Restores, MarksUsed, StartsAgent, FetchesRepo, FailsSetup,
                  Tries, Phases
    <3> QED
      BY <3>1, StepTypes DEF CacheInv
  <2> QED
    BY <2>1, <2>2
<1>3. RowInv'
  BY <1>1, <1>2, NoJobYet DEF CacheInv
<1>4. CacheInv'
  BY ProvisionSteps, RestoreSteps, FetchSteps, EndSteps, AgentInstallSteps
<1> QED
  BY <1>3, <1>4

-----------------------------------------------------------------------------
LEMMA CacheStartsSound == CacheInit => CacheInv /\ RowInv
<1> SUFFICES ASSUME CacheInit PROVE CacheInv /\ RowInv
  OBVIOUS
<1>1. /\ upstream = FirstHead /\ rows = <<>>
      /\ \A s \in Sessions : /\ phase[s] = "new" /\ files[s] = Empty /\ job[s] = NoJob
                            /\ carrying[s] = NoBackup
  BY DEF CacheInit
<1>2. NoJob \in Jobs /\ NoBackup \in Backups /\ FirstHead \in Heads
  BY CacheAssumption, EmptyIsSound DEF NoJob, NoBackup, Jobs, Backups
<1>3. CacheTypes
  BY <1>2, EmptyIsSound DEF CacheInit, CacheTypes, Phases
<1>4. MarkerInv
  BY <1>1, EmptyIsSound DEF MarkerInv, NoBackup
<1>5. InstallInv
  BY <1>1 DEF InstallInv, ReadyMeansInstalled
<1>6. \A s \in Sessions : RowsOf(s) = {}
  BY <1>1 DEF RowsOf
<1>7. RowInv
  BY <1>1, <1>6, FS_EmptySet DEF RowInv, Accounted, InFlight, NoJob, NoBackup
<1> QED
  BY <1>3, <1>4, <1>5, <1>7 DEF CacheInv

\* A step keeps every workspace sound and every row accounted for.
LEMMA CacheStepsAreSound == CacheInv /\ RowInv /\ [CacheNext]_cacheVars => CacheInv' /\ RowInv'
<1> SUFFICES ASSUME CacheInv, RowInv, [CacheNext]_cacheVars PROVE CacheInv' /\ RowInv'
  OBVIOUS
<1>1. ASSUME NEW s \in Sessions, SetsUp(s) PROVE CacheInv' /\ RowInv'
  BY <1>1, SetUpSteps, SetUpAccounted DEF CacheInv
<1>2. ASSUME NEW s \in Sessions, AlarmPasses(s) \/ EventArms(s) \/ AlarmIsDue(s)
      PROVE  CacheInv' /\ RowInv'
  BY <1>2, OtherCacheSteps DEF AlarmPasses, EventArms, AlarmIsDue, sandboxVars, CacheInv, CacheTypes
<1>3. ASSUME NEW h \in Heads, Push(h) PROVE CacheInv' /\ RowInv'
  BY <1>3, OtherCacheSteps DEF Push, jobVars
<1>4. CASE UNCHANGED cacheVars
  BY <1>4, OtherCacheSteps DEF cacheVars, CacheInv, CacheTypes
<1>5. ASSUME NEW s \in Sessions, Goes(s) PROVE CacheInv' /\ RowInv'
  BY <1>1, <1>2, <1>5, SessionSteps, ClaimSteps, BackupSteps, RowSteps, JobIsDueSteps DEF Goes
<1>6. ASSUME NEW s \in Sessions, SessionEnds(s) \/ \E l \in Locks : AgentInstalls(s, l)
      PROVE  CacheInv' /\ RowInv'
  BY <1>6, SessionSteps
<1> QED
  BY <1>2, <1>3, <1>4, <1>5, <1>6, RestartSteps DEF CacheNext

LEMMA CacheIsSound == CacheSpec => [](CacheInv /\ RowInv)
<1>1. CacheInit => CacheInv /\ RowInv
  BY CacheStartsSound
<1>2. CacheInv /\ RowInv /\ [CacheNext]_cacheVars => (CacheInv /\ RowInv)'
  BY CacheStepsAreSound
<1> QED
  BY <1>1, <1>2, PTL DEF CacheSpec

\* Whatever was restored, refreshed, skipped or replaced, a ready Session has
\* the dependencies of its checkout (setupRepository).
THEOREM ReadyIsInstalled == CacheSpec => []ReadyMeansInstalled
<1>1. CacheInv => ReadyMeansInstalled
  BY DEF CacheInv, InstallInv
<1> QED
  BY <1>1, CacheIsSound, PTL

\* Whatever failed or was restarted, a job has at most as many rows as attempts,
\* and one once it is ready (claimWorkspaceCacheJob).
THEOREM RowsAddUp == CacheSpec => []RowsAreAccountedFor
<1>1. RowInv => RowsAreAccountedFor
  BY DEF RowInv, Accounted, RowsAreAccountedFor
<1> QED
  BY <1>1, CacheIsSound, PTL

-----------------------------------------------------------------------------
(***************************************************************************)
(* Previews. No dev server is left behind, and the URL comes to lead to    *)
(* the server that runs.                                                   *)
(*                                                                         *)
(* A server that was not told to end is the one the manager tracks,        *)
(* because a start waits for the child before it to go, and the manager    *)
(* has let go of that one by then. The URL is late: messages are under     *)
(* way, and hashes are awaited. So the second says of the app the URL will *)
(* come to, when all of them have arrived in order, that it runs, or that  *)
(* a command, a start or a failure at work has yet to say what became of   *)
(* it.                                                                     *)
(***************************************************************************)

Names == {"queue", "auto"}
Apps == Dirs \cup {None}
Messages == [is : {"starting", "ready", "error", "stopped"}, app : Apps]
Processes == [app : Apps, is : {"young", "serving", "dead"}, told : BOOLEAN]
Awaits == [at : {"reap", "ready", "stop"}, app : Apps, child : Nat]
Failures == [at : {"fail"}, app : Apps, child : Nat, gen : Nat]
Ops == {NoOp} \cup Awaits \cup Failures
Managers == [made : BOOLEAN, state : {"idle", "starting", "running"}, app : Apps,
             child : Nat, restarts : Nat, stopping : BOOLEAN, gen : Nat]

\* The manager, what it awaits, the processes and the messages have their types.
PreviewTypes ==
    /\ manager \in Managers /\ ops \in [Names -> Ops] /\ servers \in Seq(Processes)
    /\ toObject \in Seq(Messages) /\ hashing \in Seq(Apps) /\ active \in Apps
    /\ overtaken \in BOOLEAN

\* The queue waits for a child to go, and the manager has let go of it.
Reaping == ops.queue.at \in {"reap", "stop"}
Waits(o) == Doing(o, "ready") /\ ops[o].child = manager.child
\* A manager that is not idle tracks a server of its app that it has not told to
\* end; one that is starting has somebody waiting for its port.
ProcessInv ==
    /\ NoServerIsLeftBehind
    /\ manager.state # "idle" =>
         /\ manager.child \in DOMAIN servers /\ ~servers[manager.child].told
         /\ servers[manager.child].app = manager.app
         /\ ~Reaping
    /\ manager.state = "starting" => \E o \in Names : Waits(o)
    /\ \A o \in Names : Doing(o, "ready") =>
         /\ ops[o].child \in DOMAIN servers /\ servers[ops[o].child].app = ops[o].app

\* What the messages under way, the hashes and the URL come to when they have
\* all arrived: the app of the last of them that matters.
Effect(m) == IF m.is = "ready" THEN m.app ELSE None
Matters(m) == m.is # "starting"
IsLast(i) ==
    /\ i \in DOMAIN toObject /\ Matters(toObject[i])
    /\ \A j \in DOMAIN toObject : j > i => ~Matters(toObject[j])
NoneComes == \A i \in DOMAIN toObject : ~Matters(toObject[i])
WillBe(app) ==
    \/ \E i \in DOMAIN toObject : IsLast(i) /\ app = Effect(toObject[i])
    \/ NoneComes /\ hashing # <<>> /\ app = hashing[Len(hashing)]
    \/ NoneComes /\ hashing = <<>> /\ app = active

\* An app to be served runs, or the sandbox is about to say what became of it.
Pending ==
    \/ Reaping \/ manager.state = "starting"
    \/ \E o \in Names : Doing(o, "fail") /\ IsLatest(o)
Justified(app) == app = None \/ (manager.state = "running" /\ manager.app = app) \/ Pending
PromiseInv == ~overtaken => \A app \in Apps : WillBe(app) => Justified(app)

PreviewInv == PreviewTypes /\ ProcessInv /\ PromiseInv

-----------------------------------------------------------------------------
(* The manager and its processes *)

LEMMA ManagerTypes ==
  ASSUME NEW m \in Managers
  PROVE  /\ Forgotten(m) \in Managers /\ Forgotten(m).state = "idle"
         /\ Stopping(m) \in Managers /\ Stopping(m).state = m.state
         /\ Stopping(m).child = m.child /\ Stopping(m).gen = m.gen + 1
         /\ Discarded(m) \in Managers /\ Discarded(m).state = "idle" /\ Discarded(m).gen = m.gen
         /\ Forgotten(m).gen = m.gen /\ m.gen \in Nat /\ m.child \in Nat
<1>1. /\ Forgotten(m) \in Managers /\ Forgotten(m).state = "idle"
      /\ Forgotten(m).gen = m.gen /\ m.gen \in Nat /\ m.child \in Nat
  BY DEF Forgotten, Managers
<1>2. /\ Stopping(m) \in Managers /\ Stopping(m).state = m.state
      /\ Stopping(m).child = m.child /\ Stopping(m).gen = m.gen + 1
  <2> DEFINE a == [m EXCEPT !.stopping = TRUE]
             b == [a EXCEPT !.gen = m.gen + 1]
  <2>1. /\ a \in Managers /\ a.state = m.state /\ a.child = m.child /\ a.gen = m.gen
        /\ m.gen + 1 \in Nat
    <3>1. m.gen + 1 \in Nat
      BY DEF Managers
    <3>2. a \in Managers
      BY DEF Managers
    <3>3. a.state = m.state /\ a.child = m.child /\ a.gen = m.gen
      BY DEF Managers
    <3> QED
      BY <3>1, <3>2, <3>3
  <2>2. Stopping(m) = [b EXCEPT !.restarts = 0]
    BY <2>1 DEF Stopping, Managers
  <2> HIDE DEF a
  <2>3. /\ b \in Managers /\ b.state = m.state /\ b.child = m.child /\ b.gen = m.gen + 1
    BY <2>1 DEF Managers
  <2> HIDE DEF b
  <2> QED
    BY <2>2, <2>3 DEF Managers
<1>3. Discarded(m) \in Managers /\ Discarded(m).state = "idle" /\ Discarded(m).gen = m.gen
  BY DEF Discarded, NoManager, Managers, Apps
<1> QED
  BY <1>1, <1>2, <1>3

LEMMA OpTypes ==
  ASSUME PreviewTypes, NEW o \in Names
  PROVE  /\ NoOp \in Ops /\ NoOp.at = "idle" /\ DOMAIN ops = Names
         /\ ops[o] \in Ops
         /\ \A op \in Ops : [ops EXCEPT ![o] = op] \in [Names -> Ops]
         /\ \A app \in Apps, child \in Nat, gen \in Nat :
              /\ \A at \in {"reap", "ready", "stop"} :
                   [at |-> at, app |-> app, child |-> child] \in Ops
              /\ [at |-> "fail", app |-> app, child |-> child, gen |-> gen] \in Ops
         /\ Doing(o, "ready") \/ Doing(o, "reap") \/ Doing(o, "stop") \/ Doing(o, "fail") =>
              ops[o].app \in Apps /\ ops[o].child \in Nat
  BY DEF PreviewTypes, Ops, NoOp, Awaits, Failures, Doing

\* A process that is told to end, or is dead, is otherwise what it was.
LEMMA ProcessTypes ==
  ASSUME PreviewTypes, NEW c \in DOMAIN servers
  PROVE  /\ servers[c] \in Processes
         /\ DOMAIN servers = 1 .. Len(servers) /\ Len(servers) \in Nat
         /\ Dead(c) \in Seq(Processes) /\ DOMAIN Dead(c) = DOMAIN servers
         /\ Dead(c)[c].is = "dead" /\ Dead(c)[c].told = servers[c].told
         /\ Dead(c)[c].app = servers[c].app
         /\ \A d \in DOMAIN servers \ {c} : Dead(c)[d] = servers[d]
<1>1. /\ servers[c] \in Processes /\ servers \in Seq(Processes)
      /\ DOMAIN servers = 1 .. Len(servers) /\ Len(servers) \in Nat
  BY LenProperties, ElementOfSeq DEF PreviewTypes
<1>2. /\ [servers[c] EXCEPT !.is = "dead"] \in Processes
      /\ [servers[c] EXCEPT !.is = "dead"].is = "dead"
      /\ [servers[c] EXCEPT !.is = "dead"].told = servers[c].told
      /\ [servers[c] EXCEPT !.is = "dead"].app = servers[c].app
  BY <1>1 DEF Processes
<1>3. Dead(c) = [servers EXCEPT ![c] = [servers[c] EXCEPT !.is = "dead"]]
  BY <1>1 DEF Dead
<1>4. Dead(c) \in Seq(Processes)
  BY <1>1, <1>2, <1>3, ExceptSeq
<1>5. /\ DOMAIN Dead(c) = DOMAIN servers /\ Dead(c)[c] = [servers[c] EXCEPT !.is = "dead"]
      /\ \A d \in DOMAIN servers \ {c} : Dead(c)[d] = servers[d]
  BY <1>1, <1>3
<1> QED
  BY <1>1, <1>2, <1>4, <1>5

LEMMA EndingTypes ==
  ASSUME PreviewTypes, NEW m, m.child \in DOMAIN servers
  PROVE  /\ Ending(m) \in Seq(Processes) /\ DOMAIN Ending(m) = DOMAIN servers
         /\ Ending(m)[m.child].told /\ Ending(m)[m.child].app = servers[m.child].app
         /\ \A d \in DOMAIN servers \ {m.child} : Ending(m)[d] = servers[d]
<1> DEFINE c == m.child
           p == [servers[c] EXCEPT !.told = TRUE]
<1>1. /\ servers[c] \in Processes /\ servers \in Seq(Processes)
      /\ DOMAIN servers = 1 .. Len(servers) /\ Len(servers) \in Nat
  BY LenProperties, ElementOfSeq DEF PreviewTypes
<1>2. p \in Processes /\ p.told = TRUE /\ p.app = servers[c].app
  BY <1>1 DEF Processes
<1>3. Ending(m) = [servers EXCEPT ![c] = p]
  BY <1>1 DEF Ending
<1> HIDE DEF p
<1>4. Ending(m) \in Seq(Processes)
  BY <1>1, <1>2, <1>3, ExceptSeq
<1>5. /\ DOMAIN Ending(m) = DOMAIN servers /\ Ending(m)[c] = p
      /\ \A d \in DOMAIN servers \ {c} : Ending(m)[d] = servers[d]
  BY <1>1, <1>3
<1> QED
  BY <1>2, <1>4, <1>5

-----------------------------------------------------------------------------
(* What is said to the object *)

LEMMA Says ==
  ASSUME PreviewTypes, NEW ms \in Seq(Messages), Tells(ms)
  PROVE  /\ toObject' \in Seq(Messages) /\ DOMAIN toObject' = 1 .. Len(toObject')
         /\ Len(toObject') = Len(toObject) + Len(ms)
         /\ DOMAIN toObject = 1 .. Len(toObject) /\ Len(toObject) \in Nat /\ Len(ms) \in Nat
         /\ \A i \in 1 .. Len(toObject) : toObject'[i] = toObject[i]
         /\ \A i \in 1 .. Len(ms) : toObject'[Len(toObject) + i] = ms[i]
<1>1. toObject' = toObject \o ms /\ toObject \in Seq(Messages)
  BY DEF Tells, PreviewTypes
<1>2. Len(toObject) \in Nat /\ Len(ms) \in Nat /\ DOMAIN toObject = 1 .. Len(toObject)
  BY <1>1, LenProperties
<1>3. /\ toObject' \in Seq(Messages) /\ Len(toObject') = Len(toObject) + Len(ms)
      /\ \A i \in 1 .. Len(toObject) + Len(ms) :
           toObject'[i] = IF i <= Len(toObject) THEN toObject[i] ELSE ms[i - Len(toObject)]
  BY <1>1, ConcatProperties
<1>4. DOMAIN toObject' = 1 .. Len(toObject')
  BY <1>3, LenProperties
<1>5. \A i \in 1 .. Len(ms) : toObject'[Len(toObject) + i] = ms[i]
  BY <1>2, <1>3
<1> QED
  BY <1>2, <1>3, <1>4, <1>5

\* What ends with a message that matters comes to that message.
LEMMA SaysLast ==
  ASSUME PreviewTypes, NEW ms \in Seq(Messages), Tells(ms), ms # <<>>, Matters(ms[Len(ms)]),
         NEW app, WillBe(app)'
  PROVE  app = Effect(ms[Len(ms)])
<1>1. Len(ms) \in Nat \ {0}
  BY EmptySeq, LenProperties
<1> DEFINE n == Len(toObject')
<1>2. n \in DOMAIN toObject' /\ toObject'[n] = ms[Len(ms)] /\ DOMAIN toObject' = 1 .. n /\ n \in Nat
  BY <1>1, Says
<1> HIDE DEF n
<1>3. ~NoneComes' /\ \A i \in DOMAIN toObject' : IsLast(i)' => i = n
  BY <1>2 DEF NoneComes, IsLast
<1>4. PICK i \in DOMAIN toObject' : IsLast(i)' /\ app = Effect(toObject'[i])
  BY <1>3 DEF WillBe, Effect
<1> QED
  BY <1>2, <1>3, <1>4

\* What does not matter changes nothing.
LEMMA SaysNothing ==
  ASSUME PreviewTypes, UNCHANGED objectVars,
         Quietly \/ \E m \in Messages : ~Matters(m) /\ Tells(<<m>>),
         NEW app, WillBe(app)'
  PROVE  WillBe(app)
<1>1. UNCHANGED <<hashing, active>>
  BY DEF objectVars
<1>2. CASE Quietly
  BY <1>1, <1>2 DEF Quietly, WillBe, NoneComes, IsLast
<1>3. ASSUME NEW m \in Messages, ~Matters(m), Tells(<<m>>) PROVE WillBe(app)
  <2> DEFINE ms == <<m>>
  <2>1. ms \in Seq(Messages) /\ Len(ms) = 1 /\ ms[1] = m
    OBVIOUS
  <2>a. Tells(ms)
    BY <1>3
  <2> HIDE DEF ms
  <2>b. /\ DOMAIN toObject' = 1 .. Len(toObject') /\ Len(toObject') = Len(toObject) + Len(ms)
        /\ DOMAIN toObject = 1 .. Len(toObject) /\ Len(toObject) \in Nat
        /\ \A i \in 1 .. Len(toObject) : toObject'[i] = toObject[i]
        /\ \A i \in 1 .. Len(ms) : toObject'[Len(toObject) + i] = ms[i]
    BY <2>1, <2>a, Says
  <2>2. /\ DOMAIN toObject' = 1 .. Len(toObject') /\ Len(toObject') = Len(toObject) + 1
        /\ DOMAIN toObject = 1 .. Len(toObject) /\ Len(toObject) \in Nat
        /\ \A i \in 1 .. Len(toObject) : toObject'[i] = toObject[i]
        /\ toObject'[Len(toObject) + 1] = m
    BY <2>1, <2>b
  <2>3. \A i \in DOMAIN toObject' : IsLast(i)' =>
          i \in DOMAIN toObject /\ IsLast(i) /\ toObject'[i] = toObject[i]
    BY <1>3, <2>2 DEF IsLast
  <2>4. NoneComes' => NoneComes
    BY <2>2 DEF NoneComes
  <2> QED
    BY <1>1, <2>3, <2>4 DEF WillBe, Effect
<1> QED
  BY <1>2, <1>3

\* What keeps the promise of the URL: a last word on the matter, or one to come.
LEMMA Promises ==
  ASSUME PreviewTypes, PromiseInv, UNCHANGED objectVars,
         \/ \E ms \in Seq(Messages) :
              /\ Tells(ms) /\ ms # <<>> /\ Matters(ms[Len(ms)])
              /\ \/ Effect(ms[Len(ms)]) = None
                 \/ manager'.state = "running" /\ manager'.app = Effect(ms[Len(ms)])
         \/ /\ Quietly \/ \E m \in Messages : ~Matters(m) /\ Tells(<<m>>)
            /\ Pending' \/ \A app \in Apps : Justified(app) => Justified(app)'
  PROVE  PromiseInv'
<1> SUFFICES ASSUME ~overtaken', NEW app \in Apps, WillBe(app)' PROVE Justified(app)'
  BY DEF PromiseInv
<1>1. ~overtaken
  BY DEF objectVars
<1>2. ASSUME NEW ms \in Seq(Messages), Tells(ms), ms # <<>>, Matters(ms[Len(ms)]),
             Effect(ms[Len(ms)]) = None \/ (manager'.state = "running" /\ manager'.app = Effect(ms[Len(ms)]))
      PROVE  Justified(app)'
  BY <1>2, SaysLast DEF Justified
<1>3. CASE /\ Quietly \/ \E m \in Messages : ~Matters(m) /\ Tells(<<m>>)
           /\ Pending' \/ \A a \in Apps : Justified(a) => Justified(a)'
  <2>1. WillBe(app)
    BY <1>3, SaysNothing
  <2> QED
    BY <1>1, <1>3, <2>1 DEF PromiseInv, Justified
<1> QED
  BY <1>2, <1>3

LEMMA Words ==
  ASSUME NEW a \in Apps, NEW b \in Apps
  PROVE  /\ [is |-> "starting", app |-> a] \in Messages
         /\ ~Matters([is |-> "starting", app |-> a])
         /\ \A is \in {"ready", "error", "stopped"} :
              LET said == <<[is |-> is, app |-> a]>>
              IN  said \in Seq(Messages) /\ said # <<>> /\ Matters(said[Len(said)])
                  /\ Effect(said[Len(said)]) = IF is = "ready" THEN a ELSE None
         /\ \A is \in {"starting", "stopped"} :
              LET said == <<[is |-> is, app |-> a], [is |-> "error", app |-> b]>>
              IN  said \in Seq(Messages) /\ said # <<>> /\ Matters(said[Len(said)])
                  /\ Effect(said[Len(said)]) = None
<1>1. /\ [is |-> "starting", app |-> a] \in Messages
      /\ ~Matters([is |-> "starting", app |-> a])
  BY DEF Messages, Matters
<1>2. ASSUME NEW is \in {"ready", "error", "stopped"}
      PROVE  LET said == <<[is |-> is, app |-> a]>>
             IN  said \in Seq(Messages) /\ said # <<>> /\ Matters(said[Len(said)])
                 /\ Effect(said[Len(said)]) = IF is = "ready" THEN a ELSE None
  <2> DEFINE m == [is |-> is, app |-> a]
  <2>1. m \in Messages /\ Matters(m) /\ Effect(m) = IF is = "ready" THEN a ELSE None
    BY DEF Messages, Matters, Effect
  <2> HIDE DEF m
  <2>2. <<m>> \in Seq(Messages) /\ <<m>> # <<>> /\ <<m>>[Len(<<m>>)] = m
    BY <2>1
  <2>3. LET said == <<m>>
        IN  said \in Seq(Messages) /\ said # <<>> /\ Matters(said[Len(said)])
            /\ Effect(said[Len(said)]) = IF is = "ready" THEN a ELSE None
    BY <2>1, <2>2
  <2> QED
    BY <2>3 DEF m
<1>3. ASSUME NEW is \in {"starting", "stopped"}
      PROVE  LET said == <<[is |-> is, app |-> a], [is |-> "error", app |-> b]>>
             IN  said \in Seq(Messages) /\ said # <<>> /\ Matters(said[Len(said)])
                 /\ Effect(said[Len(said)]) = None
  <2> DEFINE m == [is |-> is, app |-> a]
             n == [is |-> "error", app |-> b]
  <2>1. m \in Messages /\ n \in Messages /\ Matters(n) /\ Effect(n) = None
    BY DEF Messages, Matters, Effect
  <2> HIDE DEF m, n
  <2>2. <<m, n>> \in Seq(Messages) /\ <<m, n>> # <<>> /\ <<m, n>>[Len(<<m, n>>)] = n
    BY <2>1
  <2>3. LET said == <<m, n>>
        IN  said \in Seq(Messages) /\ said # <<>> /\ Matters(said[Len(said)])
            /\ Effect(said[Len(said)]) = None
    BY <2>1, <2>2
  <2> QED
    BY <2>3 DEF m, n
<1> QED
  BY <1>1, <1>2, <1>3

\* The object's own state stays, and what is said is well formed.
LEMMA SaysTyped ==
  ASSUME PreviewTypes, UNCHANGED objectVars, Quietly \/ \E ms \in Seq(Messages) : Tells(ms),
         manager' \in Managers, ops' \in [Names -> Ops], servers' \in Seq(Processes)
  PROVE  PreviewTypes'
<1>1. toObject' \in Seq(Messages)
  BY Says DEF Quietly, PreviewTypes
<1> QED
  BY <1>1 DEF PreviewTypes, objectVars

-----------------------------------------------------------------------------
(* Steps of the sandbox *)

\* A start on the way to its child: nothing else runs that was not told to end.
LEMMA SpawnSteps ==
  ASSUME PreviewTypes, PromiseInv, UNCHANGED objectVars,
         NEW o \in Names, NEW app \in Apps, NEW m \in Managers, NEW running \in Seq(Processes),
         Spawns(o, app, m, running),
         o = "queue" \/ ~Reaping, m.state # "starting",
         \A c \in DOMAIN running : running[c].is = "dead" \/ running[c].told,
         m.state # "idle" => /\ m.child \in DOMAIN running /\ ~running[m.child].told
                             /\ running[m.child].app = m.app,
         \A q \in Names : Doing(q, "ready") =>
           /\ ops[q].child \in DOMAIN running /\ running[ops[q].child].app = ops[q].app
  PROVE  PreviewTypes' /\ ProcessInv' /\ PromiseInv'
<1>1. Len(running) \in Nat /\ DOMAIN running = 1 .. Len(running)
  BY LenProperties
<1>2. /\ NoOp \in Ops /\ NoOp.at = "idle" /\ ops \in [Names -> Ops] /\ "queue" \in Names
  BY OpTypes DEF PreviewTypes, Names
<1>3. CASE Rejected(app)
  <2> DEFINE said == <<[is |-> "starting", app |-> app], [is |-> "error", app |-> app]>>
  <2>1. /\ Tells(said) /\ manager' = m /\ servers' = running
        /\ ops' = [ops EXCEPT ![o] = NoOp]
    BY <1>3 DEF Spawns
  <2>2. said \in Seq(Messages) /\ said # <<>> /\ Matters(said[Len(said)]) /\ Effect(said[Len(said)]) = None
    BY Words
  <2> HIDE DEF said
  <2>3. ops' \in [Names -> Ops] /\ ops'[o] = NoOp /\ \A q \in Names \ {o} : ops'[q] = ops[q]
    BY <1>2, <2>1
  <2>4. PreviewTypes'
    BY <2>1, <2>2, <2>3, SaysTyped
  <2>5. ~Reaping'
    BY <1>2, <2>3 DEF Reaping
  <2>6. \A q \in Names : (Doing(q, "ready"))' => Doing(q, "ready") /\ ops'[q] = ops[q]
    BY <1>2, <2>3 DEF Doing
  <2>7. ProcessInv'
    BY <2>1, <2>5, <2>6 DEF ProcessInv, NoServerIsLeftBehind, Alive
  <2>8. PromiseInv'
    BY <2>1, <2>2, Promises
  <2> QED
    BY <2>4, <2>7, <2>8
<1>4. CASE ~Rejected(app)
  <2> DEFINE child == Len(running) + 1
             p == [app |-> app, is |-> "young", told |-> FALSE]
             op == [at |-> "ready", app |-> app, child |-> child]
             word == [is |-> "starting", app |-> app]
  <2>1. /\ Tells(<<word>>) /\ servers' = Append(running, p)
        /\ manager' = [m EXCEPT !.state = "starting", !.app = app, !.child = child]
        /\ ops' = [ops EXCEPT ![o] = op]
    BY <1>4 DEF Spawns
  <2>2. word \in Messages /\ ~Matters(word)
    BY Words
  <2>3. p \in Processes /\ ~p.told /\ p.app = app
    BY DEF Processes
  <2>4. op \in Ops /\ op.at = "ready" /\ op.app = app /\ op.child = child
    BY <1>1 DEF Ops, Awaits
  <2>5. /\ manager' \in Managers /\ manager'.state = "starting" /\ manager'.app = app
        /\ manager'.child = child
    <3> DEFINE n == [m EXCEPT !.state = "starting", !.app = app, !.child = child]
    <3>1. child \in Nat
      BY <1>1
    <3> HIDE DEF child
    <3>2. n \in Managers
      BY <3>1 DEF Managers
    <3>3. n.state = "starting" /\ n.app = app /\ n.child = child
      BY <3>1 DEF Managers
    <3> QED
      BY <2>1, <3>2, <3>3
  <2> HIDE DEF word, p, op
  <2>6. /\ servers' \in Seq(Processes) /\ servers'[child] = p
        /\ \A c \in DOMAIN running : servers'[c] = running[c]
        /\ DOMAIN servers' = DOMAIN running \cup {child}
    <3>1. servers' \in Seq(Processes) /\ Len(servers') = child /\ servers'[child] = p
      BY <2>1, <2>3, AppendProperties
    <3>2. \A c \in DOMAIN running : servers'[c] = running[c]
      BY <1>1, <2>1, <2>3, AppendProperties
    <3>3. DOMAIN servers' = 1 .. child
      BY <3>1, LenProperties
    <3> QED
      BY <1>1, <3>1, <3>2, <3>3
  <2>7. ops' \in [Names -> Ops] /\ ops'[o] = op /\ \A q \in Names \ {o} : ops'[q] = ops[q]
    BY <1>2, <2>1, <2>4
  <2>8. PreviewTypes'
    <3>1. <<word>> \in Seq(Messages)
      BY <2>2
    <3> QED
      BY <2>1, <2>5, <2>6, <2>7, <3>1, SaysTyped
  <2> HIDE DEF child
  <2>9. ~Reaping'
    BY <1>2, <2>4, <2>7 DEF Reaping
  <2>10. NoServerIsLeftBehind'
    BY <2>5, <2>6 DEF NoServerIsLeftBehind, Alive
  <2>11. \A q \in Names : (Doing(q, "ready"))' =>
           ops'[q].child \in DOMAIN servers' /\ servers'[ops'[q].child].app = ops'[q].app
    BY <2>3, <2>4, <2>6, <2>7 DEF Doing
  <2>12. Waits(o)'
    BY <2>4, <2>5, <2>7 DEF Waits, Doing
  <2>13. ProcessInv'
    BY <2>3, <2>5, <2>6, <2>9, <2>10, <2>11, <2>12 DEF ProcessInv
  <2>14. PromiseInv'
    BY <2>1, <2>2, <2>5, Promises DEF Pending
  <2> QED
    BY <2>8, <2>13, <2>14
<1> QED
  BY <1>3, <1>4

\* A manager that lets go of a child has told it to end.
LEMMA LetsGo ==
  ASSUME PreviewTypes, ProcessInv, manager.state # "idle",
         manager'.state = "idle", servers' = Ending(manager),
         \A q \in Names : (Doing(q, "ready"))' => Doing(q, "ready") /\ ops'[q] = ops[q]
  PROVE  ProcessInv' /\ servers' \in Seq(Processes)
<1>1. manager.child \in DOMAIN servers
  BY DEF ProcessInv
<1>2. /\ servers' \in Seq(Processes) /\ DOMAIN servers' = DOMAIN servers
      /\ servers'[manager.child].told /\ servers'[manager.child].app = servers[manager.child].app
      /\ \A d \in DOMAIN servers \ {manager.child} : servers'[d] = servers[d]
  BY <1>1, EndingTypes
<1>3. NoServerIsLeftBehind'
  BY <1>2 DEF ProcessInv, NoServerIsLeftBehind, Alive
<1>4. \A q \in Names : (Doing(q, "ready"))' =>
        ops'[q].child \in DOMAIN servers' /\ servers'[ops'[q].child].app = ops'[q].app
  BY <1>2 DEF ProcessInv
<1> QED
  BY <1>2, <1>3, <1>4 DEF ProcessInv

LEMMA ReapedSteps ==
  ASSUME PreviewInv, Reaped
  PROVE  PreviewTypes' /\ ProcessInv' /\ PromiseInv'
<1>1. /\ ops.queue.at = "reap" /\ Spawns("queue", ops.queue.app, manager, servers)
      /\ UNCHANGED objectVars
  BY DEF Reaped, Doing
<1>2. manager.state = "idle"
  BY <1>1 DEF PreviewInv, ProcessInv, Reaping
<1>3. /\ ops.queue.app \in Apps /\ "queue" \in Names
  BY <1>1, OpTypes DEF Names, Doing, PreviewInv
<1>4. \A c \in DOMAIN servers : servers[c].is = "dead" \/ servers[c].told
  BY <1>2 DEF PreviewInv, ProcessInv, NoServerIsLeftBehind, Alive
<1>5. manager \in Managers /\ servers \in Seq(Processes) /\ PreviewTypes /\ PromiseInv
  BY DEF PreviewInv, PreviewTypes
<1>6. \A q \in Names : Doing(q, "ready") =>
           /\ ops[q].child \in DOMAIN servers /\ servers[ops[q].child].app = ops[q].app
  BY DEF PreviewInv, ProcessInv
<1> DEFINE app == ops.queue.app
<1>7. app \in Apps /\ Spawns("queue", app, manager, servers)
  BY <1>1, <1>3
<1> HIDE DEF app
<1> QED
  BY <1>1, <1>2, <1>3, <1>4, <1>5, <1>6, <1>7, SpawnSteps

LEMMA StartSteps ==
  ASSUME PreviewInv, NEW app \in Apps, StartsApp(app), UNCHANGED objectVars, ops.queue = NoOp
  PROVE  PreviewTypes' /\ ProcessInv' /\ PromiseInv'
<1>1. /\ PreviewTypes /\ ProcessInv /\ PromiseInv /\ manager \in Managers /\ servers \in Seq(Processes)
      /\ ops \in [Names -> Ops] /\ "queue" \in Names /\ ~Reaping
  BY DEF PreviewInv, PreviewTypes, Names, Reaping, NoOp
<1> DEFINE m == [manager EXCEPT !.made = TRUE, !.stopping = FALSE, !.gen = @ + 1]
<1>2. /\ m \in Managers /\ m.state = manager.state /\ m.app = manager.app
      /\ m.child = manager.child
  <2>1. manager.gen + 1 \in Nat
    BY <1>1 DEF Managers
  <2>2. m \in Managers
    BY <1>1, <2>1 DEF Managers
  <2>3. /\ m.state = manager.state /\ m.app = manager.app /\ m.child = manager.child
    BY <1>1 DEF Managers
  <2> QED
    BY <2>2, <2>3
<1>3. \/ /\ m.state = "running" /\ m.app = app
         /\ manager' = m /\ Tells(<<[is |-> "ready", app |-> app]>>) /\ UNCHANGED <<ops, servers>>
      \/ /\ m.state # "idle" /\ manager' = Forgotten(m) /\ servers' = Ending(m)
         /\ ops' = [ops EXCEPT !.queue = [at |-> "reap", app |-> app, child |-> m.child]]
         /\ Quietly
      \/ m.state = "idle" /\ Spawns("queue", app, m, servers)
  BY DEF StartsApp, Replaces
<1> HIDE DEF m
<1>4. CASE /\ m.state = "running" /\ m.app = app
           /\ manager' = m /\ Tells(<<[is |-> "ready", app |-> app]>>) /\ UNCHANGED <<ops, servers>>
  <2> DEFINE said == <<[is |-> "ready", app |-> app]>>
  <2>1. /\ said \in Seq(Messages) /\ said # <<>> /\ Matters(said[Len(said)])
        /\ Effect(said[Len(said)]) = app /\ Tells(said)
    BY <1>4, Words
  <2> HIDE DEF said
  <2>2. PreviewTypes'
    BY <1>1, <1>2, <1>4, <2>1, SaysTyped
  <2>3. ProcessInv'
    BY <1>1, <1>2, <1>4 DEF ProcessInv, NoServerIsLeftBehind, Alive, Waits, Doing, Reaping
  <2>4. PromiseInv'
    BY <1>1, <1>4, <2>1, Promises
  <2> QED
    BY <2>2, <2>3, <2>4
<1>5. CASE /\ m.state # "idle" /\ manager' = Forgotten(m) /\ servers' = Ending(m)
           /\ ops' = [ops EXCEPT !.queue = [at |-> "reap", app |-> app, child |-> m.child]]
           /\ Quietly
  <2> DEFINE op == [at |-> "reap", app |-> app, child |-> m.child]
  <2>1. op \in Ops /\ op.at = "reap" /\ ops' = [ops EXCEPT !["queue"] = op]
    BY <1>1, <1>2, <1>5 DEF Ops, Awaits, Managers
  <2> HIDE DEF op
  <2>2. ops' \in [Names -> Ops] /\ ops'["queue"] = op /\ \A q \in Names \ {"queue"} : ops'[q] = ops[q]
    BY <1>1, <2>1
  <2>3. manager' \in Managers /\ manager'.state = "idle"
    BY <1>2, <1>5, ManagerTypes
  <2>4. servers' = Ending(manager)
    BY <1>2, <1>5 DEF Ending
  <2>5. \A q \in Names : (Doing(q, "ready"))' => Doing(q, "ready") /\ ops'[q] = ops[q]
    BY <2>1, <2>2 DEF Doing
  <2>6. ProcessInv' /\ servers' \in Seq(Processes)
    BY <1>1, <1>2, <1>5, <2>3, <2>4, <2>5, LetsGo
  <2>7. PreviewTypes'
    BY <1>1, <1>5, <2>2, <2>3, <2>6, SaysTyped
  <2>8. Reaping'
    BY <2>1, <2>2 DEF Reaping
  <2>9. PromiseInv'
    BY <1>1, <1>5, <2>8, Promises DEF Pending
  <2> QED
    BY <2>6, <2>7, <2>9
<1>6. CASE m.state = "idle" /\ Spawns("queue", app, m, servers)
  <2>1. \A c \in DOMAIN servers : servers[c].is = "dead" \/ servers[c].told
    BY <1>1, <1>2, <1>6 DEF ProcessInv, NoServerIsLeftBehind, Alive
  <2>2. \A q \in Names : Doing(q, "ready") =>
             /\ ops[q].child \in DOMAIN servers /\ servers[ops[q].child].app = ops[q].app
    BY <1>1 DEF ProcessInv
  <2> QED
    BY <1>1, <1>2, <1>6, <2>1, <2>2, SpawnSteps
<1> QED
  BY <1>3, <1>4, <1>5, <1>6

LEMMA StopSteps ==
  ASSUME PreviewInv, StopsApp, UNCHANGED objectVars, ops.queue = NoOp
  PROVE  PreviewTypes' /\ ProcessInv' /\ PromiseInv'
<1>1. /\ PreviewTypes /\ ProcessInv /\ PromiseInv /\ manager \in Managers /\ servers \in Seq(Processes)
      /\ ops \in [Names -> Ops] /\ "queue" \in Names /\ ~Reaping /\ None \in Apps
  BY DEF PreviewInv, PreviewTypes, Names, Reaping, NoOp, Apps
<1>2. CASE Quietly /\ UNCHANGED <<manager, ops, servers>>
  <2>1. PreviewTypes'
    BY <1>1, <1>2, SaysTyped
  <2>2. ProcessInv'
    BY <1>1, <1>2 DEF ProcessInv, NoServerIsLeftBehind, Alive, Waits, Doing, Reaping
  <2>3. PromiseInv'
    <3>1. \A app \in Apps : Justified(app) => Justified(app)'
      BY <1>2 DEF Justified, Pending, Reaping, Doing, IsLatest
    <3> QED
      BY <1>1, <1>2, <3>1, Promises
  <2> QED
    BY <2>1, <2>2, <2>3
<1>3. CASE /\ manager.state = "idle" /\ manager' = Discarded(Stopping(manager))
           /\ Tells(<<[is |-> "stopped", app |-> None]>>) /\ UNCHANGED <<ops, servers>>
  <2> DEFINE said == <<[is |-> "stopped", app |-> None]>>
  <2>1. /\ said \in Seq(Messages) /\ said # <<>> /\ Matters(said[Len(said)])
        /\ Effect(said[Len(said)]) = None /\ Tells(said)
    BY <1>1, <1>3, Words
  <2> HIDE DEF said
  <2>2. manager' \in Managers /\ manager'.state = "idle"
    BY <1>1, <1>3, ManagerTypes
  <2>3. PreviewTypes'
    BY <1>1, <1>3, <2>1, <2>2, SaysTyped
  <2>4. ProcessInv'
    BY <1>1, <1>3, <2>2 DEF ProcessInv, NoServerIsLeftBehind, Alive, Doing
  <2>5. PromiseInv'
    BY <1>1, <2>1, Promises
  <2> QED
    BY <2>3, <2>4, <2>5
<1>4. CASE /\ manager.state # "idle" /\ manager' = Forgotten(Stopping(manager))
           /\ servers' = Ending(manager) /\ Quietly
           /\ ops' = [ops EXCEPT !.queue = [at |-> "stop", app |-> None, child |-> manager.child]]
  <2> DEFINE op == [at |-> "stop", app |-> None, child |-> manager.child]
  <2>1. op \in Ops /\ op.at = "stop" /\ ops' = [ops EXCEPT !["queue"] = op]
    BY <1>1, <1>4 DEF Ops, Awaits, Managers
  <2> HIDE DEF op
  <2>2. ops' \in [Names -> Ops] /\ ops'["queue"] = op /\ \A q \in Names \ {"queue"} : ops'[q] = ops[q]
    BY <1>1, <2>1
  <2>3. manager' \in Managers /\ manager'.state = "idle"
    BY <1>1, <1>4, ManagerTypes
  <2>5. \A q \in Names : (Doing(q, "ready"))' => Doing(q, "ready") /\ ops'[q] = ops[q]
    BY <2>1, <2>2 DEF Doing
  <2>6. ProcessInv' /\ servers' \in Seq(Processes)
    BY <1>1, <1>4, <2>3, <2>5, LetsGo
  <2>7. PreviewTypes'
    BY <1>1, <1>4, <2>2, <2>3, <2>6, SaysTyped
  <2>8. Reaping'
    BY <2>1, <2>2 DEF Reaping
  <2>9. PromiseInv'
    BY <1>1, <1>4, <2>8, Promises DEF Pending
  <2> QED
    BY <2>6, <2>7, <2>9
<1> QED
  BY <1>2, <1>3, <1>4 DEF StopsApp

\* A queue that takes its next command.
LEMMA TakesSteps ==
  ASSUME PreviewInv, Takes
  PROVE  PreviewTypes' /\ ProcessInv' /\ PromiseInv'
<1>1. /\ PreviewTypes /\ ProcessInv /\ PromiseInv /\ manager \in Managers /\ servers \in Seq(Processes)
      /\ ops \in [Names -> Ops] /\ None \in Apps /\ Runnable \subseteq Apps
      /\ ops.queue = NoOp /\ UNCHANGED objectVars
  BY DEF PreviewInv, PreviewTypes, Apps, Takes, Runnable
<1>2. CASE /\ Tells(<<[is |-> "error", app |-> None]>>) /\ UNCHANGED <<manager, ops, servers>>
  <2> DEFINE said == <<[is |-> "error", app |-> None]>>
  <2>1. /\ said \in Seq(Messages) /\ said # <<>> /\ Matters(said[Len(said)])
        /\ Effect(said[Len(said)]) = None /\ Tells(said)
    BY <1>1, <1>2, Words
  <2> HIDE DEF said
  <2>2. PreviewTypes'
    BY <1>1, <1>2, <2>1, SaysTyped
  <2>3. ProcessInv'
    BY <1>1, <1>2 DEF ProcessInv, NoServerIsLeftBehind, Alive, Waits, Doing, Reaping
  <2>4. PromiseInv'
    BY <1>1, <2>1, Promises
  <2> QED
    BY <2>2, <2>3, <2>4
<1>3. CASE StopsApp
  BY <1>1, <1>3, StopSteps
<1>4. ASSUME NEW app \in Runnable, StartsApp(app) PROVE PreviewTypes' /\ ProcessInv' /\ PromiseInv'
  BY <1>1, <1>4, StartSteps
<1> QED
  BY <1>2, <1>3, <1>4 DEF Takes

LEMMA StoppedSteps ==
  ASSUME PreviewInv, Stopped
  PROVE  PreviewTypes' /\ ProcessInv' /\ PromiseInv'
<1>1. /\ PreviewTypes /\ ProcessInv /\ PromiseInv /\ manager \in Managers /\ servers \in Seq(Processes)
      /\ ops \in [Names -> Ops] /\ None \in Apps /\ Reaping /\ "queue" \in Names
      /\ manager' = Discarded(manager) /\ ops' = [ops EXCEPT !["queue"] = NoOp]
      /\ UNCHANGED <<servers, objectVars>>
  BY DEF PreviewInv, PreviewTypes, Apps, Stopped, Reaping, Doing, Names
<1> DEFINE said == <<[is |-> "stopped", app |-> None]>>
<1>2. /\ said \in Seq(Messages) /\ said # <<>> /\ Matters(said[Len(said)])
      /\ Effect(said[Len(said)]) = None /\ Tells(said)
  BY <1>1, Words DEF Stopped
<1> HIDE DEF said
<1>3. manager.state = "idle" /\ manager' \in Managers /\ manager'.state = "idle"
  BY <1>1, ManagerTypes DEF ProcessInv
<1>4. ops' \in [Names -> Ops] /\ \A q \in Names : ops'[q] \in {NoOp, ops[q]}
  BY <1>1, OpTypes
<1>5. PreviewTypes'
  BY <1>1, <1>2, <1>3, <1>4, SaysTyped
<1>6. \A q \in Names : (Doing(q, "ready"))' => Doing(q, "ready") /\ ops'[q] = ops[q]
  BY <1>4 DEF Doing, NoOp
<1>7. ProcessInv'
  BY <1>1, <1>3, <1>6 DEF ProcessInv, NoServerIsLeftBehind, Alive
<1>8. PromiseInv'
  BY <1>1, <1>2, Promises
<1> QED
  BY <1>5, <1>7, <1>8

LEMMA ReadySteps ==
  ASSUME PreviewInv, NEW o \in Names, IsReady(o)
  PROVE  PreviewTypes' /\ ProcessInv' /\ PromiseInv'
<1>1. /\ PreviewTypes /\ ProcessInv /\ PromiseInv /\ manager \in Managers /\ servers \in Seq(Processes)
      /\ ops \in [Names -> Ops] /\ Waits(o) /\ manager.state = "starting" /\ Doing(o, "ready")
      /\ manager' = [manager EXCEPT !.state = "running", !.restarts = 0]
      /\ ops' = [ops EXCEPT ![o] = NoOp] /\ UNCHANGED <<servers, objectVars>>
  BY DEF PreviewInv, PreviewTypes, IsReady, Waits, Doing
<1>2. /\ manager.app = ops[o].app /\ manager.child = ops[o].child /\ ops[o].app \in Apps
      /\ manager.child \in DOMAIN servers
  BY <1>1, OpTypes DEF ProcessInv, Waits
<1> DEFINE said == <<[is |-> "ready", app |-> ops[o].app]>>
<1>3. /\ said \in Seq(Messages) /\ said # <<>> /\ Matters(said[Len(said)])
      /\ Effect(said[Len(said)]) = ops[o].app /\ Tells(said)
  BY <1>2, Words DEF IsReady
<1> HIDE DEF said
<1>4. /\ manager' \in Managers /\ manager'.state = "running" /\ manager'.app = manager.app
      /\ manager'.child = manager.child
  <2> DEFINE m == [manager EXCEPT !.state = "running", !.restarts = 0]
  <2>1. m \in Managers
    BY <1>1 DEF Managers
  <2>2. m.state = "running" /\ m.app = manager.app /\ m.child = manager.child
    BY <1>1 DEF Managers
  <2> QED
    BY <1>1, <2>1, <2>2
<1>5. ops' \in [Names -> Ops] /\ \A q \in Names : ops'[q] \in {NoOp, ops[q]}
  BY <1>1, OpTypes
<1>6. PreviewTypes'
  BY <1>1, <1>3, <1>4, <1>5, SaysTyped
<1>7. \A q \in Names : (Doing(q, "ready"))' => Doing(q, "ready") /\ ops'[q] = ops[q]
  BY <1>5 DEF Doing, NoOp
<1>8. ~Reaping'
  BY <1>1, <1>5 DEF ProcessInv, Reaping, NoOp, Names
<1>9. ProcessInv'
  BY <1>1, <1>2, <1>4, <1>7, <1>8 DEF ProcessInv, NoServerIsLeftBehind, Alive
<1>10. PromiseInv'
  BY <1>1, <1>2, <1>3, <1>4, Promises
<1> QED
  BY <1>6, <1>9, <1>10

LEMMA TimeOutSteps ==
  ASSUME PreviewInv, NEW o \in Names, TimesOut(o)
  PROVE  PreviewTypes' /\ ProcessInv' /\ PromiseInv'
<1>1. /\ PreviewTypes /\ ProcessInv /\ PromiseInv /\ manager \in Managers /\ servers \in Seq(Processes)
      /\ ops \in [Names -> Ops] /\ Doing(o, "ready") /\ manager.state = "starting"
      /\ manager' = Forgotten(Stopping(manager)) /\ servers' = Ending(manager)
      /\ ops' = [ops EXCEPT ![o] = [at |-> "fail", app |-> ops[o].app, child |-> ops[o].child,
                                    gen |-> manager'.gen]]
      /\ UNCHANGED objectVars /\ Quietly
  BY DEF PreviewInv, PreviewTypes, TimesOut
<1>2. /\ manager' \in Managers /\ manager'.state = "idle" /\ manager'.gen \in Nat
      /\ ops[o].app \in Apps /\ ops[o].child \in Nat
  BY <1>1, ManagerTypes, OpTypes
<1> DEFINE op == [at |-> "fail", app |-> ops[o].app, child |-> ops[o].child, gen |-> manager'.gen]
<1>3. op \in Ops /\ op.at = "fail" /\ op.gen = manager'.gen /\ ops' = [ops EXCEPT ![o] = op]
  BY <1>1, <1>2, OpTypes
<1> HIDE DEF op
<1>4. ops' \in [Names -> Ops] /\ ops'[o] = op /\ \A q \in Names \ {o} : ops'[q] = ops[q]
  BY <1>1, <1>3
<1>5. \A q \in Names : (Doing(q, "ready"))' => Doing(q, "ready") /\ ops'[q] = ops[q]
  BY <1>3, <1>4 DEF Doing
<1>6. ProcessInv' /\ servers' \in Seq(Processes)
  BY <1>1, <1>2, <1>5, LetsGo
<1>7. PreviewTypes'
  BY <1>1, <1>2, <1>4, <1>6, SaysTyped
<1>8. Pending'
  BY <1>3, <1>4 DEF Pending, Doing, IsLatest
<1>9. PromiseInv'
  BY <1>1, <1>8, Promises
<1> QED
  BY <1>6, <1>7, <1>9

LEMMA FailedSteps ==
  ASSUME PreviewInv, NEW o \in Names, FailedIsGone(o)
  PROVE  PreviewTypes' /\ ProcessInv' /\ PromiseInv'
<1>1. /\ PreviewTypes /\ ProcessInv /\ PromiseInv /\ manager \in Managers /\ servers \in Seq(Processes)
      /\ ops \in [Names -> Ops] /\ Doing(o, "fail") /\ ops' = [ops EXCEPT ![o] = NoOp]
      /\ UNCHANGED <<manager, servers, objectVars>>
  BY DEF PreviewInv, PreviewTypes, FailedIsGone
<1>2. /\ ops' \in [Names -> Ops] /\ ops'[o] = NoOp /\ NoOp.at = "idle" /\ ops[o].app \in Apps
      /\ \A q \in Names \ {o} : ops'[q] = ops[q]
  BY <1>1, OpTypes
<1>3. ProcessInv'
  <2>1. \A q \in Names : (Doing(q, "ready"))' => Doing(q, "ready") /\ ops'[q] = ops[q]
    BY <1>2 DEF Doing
  <2>2. \A q \in Names : Waits(q) => Waits(q)'
    BY <1>1, <1>2 DEF Waits, Doing
  <2>3. ~Reaping => ~Reaping'
    BY <1>2 DEF Reaping, Names
  <2> QED
    BY <1>1, <2>1, <2>2, <2>3 DEF ProcessInv, NoServerIsLeftBehind, Alive
<1>4. CASE IsLatest(o)
  <2> DEFINE said == <<[is |-> "stopped", app |-> ops[o].app], [is |-> "error", app |-> ops[o].app]>>
  <2>1. /\ said \in Seq(Messages) /\ said # <<>> /\ Matters(said[Len(said)])
        /\ Effect(said[Len(said)]) = None /\ Tells(said)
    BY <1>2, <1>4, Words DEF FailedIsGone
  <2> HIDE DEF said
  <2>2. PreviewTypes'
    BY <1>1, <1>2, <2>1, SaysTyped
  <2>3. PromiseInv'
    BY <1>1, <2>1, Promises
  <2> QED
    BY <1>3, <2>2, <2>3
<1>5. CASE ~IsLatest(o)
  <2>1. Quietly
    BY <1>5, ConcatEmptySeq DEF FailedIsGone, Tells, Quietly, PreviewTypes, PreviewInv
  <2>2. PreviewTypes'
    BY <1>1, <1>2, <2>1, SaysTyped
  <2>3. Pending => Pending'
    BY <1>1, <1>2, <1>5 DEF Pending, Reaping, Doing, IsLatest, Names
  <2>4. \A app \in Apps : Justified(app) => Justified(app)'
    BY <1>1, <2>3 DEF Justified
  <2>5. PromiseInv'
    BY <1>1, <2>1, <2>4, Promises
  <2> QED
    BY <1>3, <2>2, <2>5
<1> QED
  BY <1>4, <1>5

-----------------------------------------------------------------------------
(* Steps of the processes *)

LEMMA BindSteps ==
  ASSUME PreviewInv, NEW c \in DOMAIN servers, Binds(c)
  PROVE  PreviewTypes' /\ ProcessInv' /\ PromiseInv'
<1>1. /\ PreviewTypes /\ ProcessInv /\ PromiseInv /\ manager \in Managers /\ servers \in Seq(Processes)
      /\ ops \in [Names -> Ops] /\ servers[c].is = "young"
      /\ servers' = [servers EXCEPT ![c].is = "serving"]
      /\ UNCHANGED <<manager, ops, objectVars>> /\ Quietly
  BY DEF PreviewInv, PreviewTypes, Binds, Quietly
<1> DEFINE p == [servers[c] EXCEPT !.is = "serving"]
<1>2. servers[c] \in Processes /\ DOMAIN servers = 1 .. Len(servers)
  BY <1>1, ProcessTypes
<1>3. p \in Processes /\ p.is = "serving" /\ p.told = servers[c].told /\ p.app = servers[c].app
  BY <1>2 DEF Processes
<1>4. servers' = [servers EXCEPT ![c] = p]
  BY <1>1
<1> HIDE DEF p
<1>5. servers' \in Seq(Processes)
  BY <1>1, <1>2, <1>3, <1>4, ExceptSeq
<1>6. /\ DOMAIN servers' = DOMAIN servers
      /\ \A d \in DOMAIN servers : /\ servers'[d].told = servers[d].told
                                   /\ servers'[d].app = servers[d].app
                                   /\ servers'[d].is # "dead" => servers[d].is # "dead"
  BY <1>1, <1>3, <1>4
<1>7. PreviewTypes'
  BY <1>1, <1>5, SaysTyped
<1>8. ProcessInv'
  BY <1>1, <1>6 DEF ProcessInv, NoServerIsLeftBehind, Alive, Waits, Doing, Reaping
<1>9. PromiseInv'
  <2>1. \A app \in Apps : Justified(app) => Justified(app)'
    BY <1>1 DEF Justified, Pending, Reaping, Doing, IsLatest
  <2> QED
    BY <1>1, <2>1, Promises
<1> QED
  BY <1>7, <1>8, <1>9

LEMMA EndsSteps ==
  ASSUME PreviewInv, NEW c \in DOMAIN servers, Ends(c)
  PROVE  PreviewTypes' /\ ProcessInv' /\ PromiseInv'
<1>1. /\ PreviewTypes /\ ProcessInv /\ PromiseInv /\ manager \in Managers /\ servers \in Seq(Processes)
      /\ ops \in [Names -> Ops] /\ servers[c].told /\ servers' = Dead(c)
      /\ UNCHANGED <<manager, objectVars>> /\ Quietly /\ DOMAIN ops = Names
  BY DEF PreviewInv, PreviewTypes, Ends, Quietly
<1>2. /\ \A q \in Names : ops'[q] = IF Doing(q, "ready") /\ ops[q].child = c THEN NoOp ELSE ops[q]
      /\ ops' \in [Names -> Ops] /\ NoOp.at = "idle"
  <2>1. ops' = [q \in Names |-> IF Doing(q, "ready") /\ ops[q].child = c THEN NoOp ELSE ops[q]]
    BY <1>1 DEF Ends
  <2>2. \A q \in Names : ops[q] \in Ops /\ NoOp \in Ops
    BY <1>1 DEF Ops
  <2>3. NoOp.at = "idle"
    BY DEF NoOp
  <2> QED
    BY <2>1, <2>2, <2>3
<1>3. /\ servers' \in Seq(Processes) /\ DOMAIN servers' = DOMAIN servers
      /\ servers'[c].is = "dead" /\ servers'[c].told = servers[c].told
      /\ servers'[c].app = servers[c].app
      /\ \A d \in DOMAIN servers \ {c} : servers'[d] = servers[d]
  BY <1>1, ProcessTypes
<1>4. manager.state # "idle" => manager.child # c
  BY <1>1 DEF ProcessInv
<1>5. \A q \in Names : /\ (Doing(q, "ready"))' => Doing(q, "ready") /\ ops'[q] = ops[q]
                      /\ ~Doing(q, "ready") => ops'[q] = ops[q]
  BY <1>2 DEF Doing
<1>6. Reaping' <=> Reaping
  BY <1>2, <1>5 DEF Reaping, Doing, Names
<1>7. \A q \in Names : Waits(q) /\ manager.state # "idle" => Waits(q)'
  BY <1>1, <1>2, <1>4 DEF Waits, Doing
<1>8. ProcessInv'
  <2>1. NoServerIsLeftBehind'
    BY <1>1, <1>3 DEF ProcessInv, NoServerIsLeftBehind, Alive
  <2>2. manager'.state # "idle" =>
         /\ manager'.child \in DOMAIN servers' /\ ~servers'[manager'.child].told
         /\ servers'[manager'.child].app = manager'.app
         /\ ~Reaping'
    BY <1>1, <1>3, <1>4, <1>6 DEF ProcessInv
  <2>3. manager'.state = "starting" => \E q \in Names : Waits(q)'
    BY <1>1, <1>7 DEF ProcessInv
  <2>4. \A q \in Names : (Doing(q, "ready"))' =>
          ops'[q].child \in DOMAIN servers' /\ servers'[ops'[q].child].app = ops'[q].app
    <3>1. \A d \in DOMAIN servers : servers'[d].app = servers[d].app
      BY <1>3
    <3> TAKE q \in Names
    <3> HAVE (Doing(q, "ready"))'
    <3>2. Doing(q, "ready") /\ ops'[q] = ops[q]
      BY <1>2 DEF Doing
    <3>3. ops[q].child \in DOMAIN servers /\ servers[ops[q].child].app = ops[q].app
      BY <1>1, <3>2 DEF ProcessInv
    <3> QED
      BY <1>3, <3>1, <3>2, <3>3
  <2> QED
    BY <2>1, <2>2, <2>3, <2>4 DEF ProcessInv
<1>9. PreviewTypes'
  BY <1>1, <1>2, <1>3, SaysTyped
<1>10. PromiseInv'
  <2>a. \A q \in Names : Doing(q, "fail") /\ IsLatest(q) => (Doing(q, "fail") /\ IsLatest(q))'
    <3> TAKE q \in Names
    <3> HAVE Doing(q, "fail") /\ IsLatest(q)
    <3>1. ops'[q] = ops[q]
      BY <1>2 DEF Doing
    <3> QED
      BY <1>1, <3>1 DEF Doing, IsLatest
  <2>1. Pending => Pending'
    BY <1>1, <1>6, <2>a DEF Pending
  <2>2. \A app \in Apps : Justified(app) => Justified(app)'
    BY <1>1, <2>1 DEF Justified
  <2> QED
    BY <1>1, <2>2, Promises
<1> QED
  BY <1>8, <1>9, <1>10

LEMMA CrashSteps ==
  ASSUME PreviewInv, NEW c \in DOMAIN servers, Crashes(c)
  PROVE  PreviewTypes' /\ ProcessInv' /\ PromiseInv'
<1>1. /\ PreviewTypes /\ ProcessInv /\ PromiseInv /\ manager \in Managers /\ servers \in Seq(Processes)
      /\ ops \in [Names -> Ops] /\ Alive(c) /\ ~servers[c].told /\ None \in Apps
      /\ UNCHANGED objectVars /\ DOMAIN ops = Names
  BY DEF PreviewInv, PreviewTypes, Crashes, Apps
<1>2. /\ manager.state # "idle" /\ manager.child = c /\ ~Reaping
      /\ servers[c].app = manager.app
  BY <1>1 DEF ProcessInv, NoServerIsLeftBehind
<1>3. /\ Dead(c) \in Seq(Processes) /\ DOMAIN Dead(c) = DOMAIN servers
      /\ Dead(c)[c].is = "dead" /\ Dead(c)[c].told = servers[c].told
      /\ Dead(c)[c].app = servers[c].app /\ servers[c].app \in Apps
      /\ \A d \in DOMAIN servers \ {c} : Dead(c)[d] = servers[d]
  <2>1. servers[c].app \in Apps
    BY <1>1, ProcessTypes DEF Processes
  <2> QED
    BY <1>1, <2>1, ProcessTypes
<1>4. \A d \in DOMAIN servers : Dead(c)[d].is = "dead" \/ Dead(c)[d].told
  BY <1>1, <1>2, <1>3 DEF ProcessInv, NoServerIsLeftBehind, Alive
<1>5. \A q \in Names : Doing(q, "ready") =>
        /\ ops[q].child \in DOMAIN Dead(c) /\ Dead(c)[ops[q].child].app = ops[q].app
  BY <1>1, <1>3 DEF ProcessInv
<1>6. CASE /\ manager' = Forgotten(Stopping(manager)) /\ servers' = Dead(c)
           /\ manager.state = "starting" /\ ops' = [ops EXCEPT ![WaitsFor(c)] = NoOp]
           /\ Tells(<<[is |-> "stopped", app |-> None], [is |-> "error", app |-> servers[c].app]>>)
  <2> DEFINE said == <<[is |-> "stopped", app |-> None], [is |-> "error", app |-> servers[c].app]>>
  <2>1. /\ said \in Seq(Messages) /\ said # <<>> /\ Matters(said[Len(said)])
        /\ Effect(said[Len(said)]) = None /\ Tells(said)
    BY <1>1, <1>3, <1>6, Words
  <2> HIDE DEF said
  <2>2. manager' \in Managers /\ manager'.state = "idle"
    BY <1>1, <1>6, ManagerTypes
  <2>3. ops' \in [Names -> Ops] /\ \A q \in Names : ops'[q] \in {NoOp, ops[q]}
    <3>1. \A w : [ops EXCEPT ![w] = NoOp] \in [Names -> Ops]
      BY <1>1 DEF Ops
    <3>2. \A w : \A q \in Names : [ops EXCEPT ![w] = NoOp][q] \in {NoOp, ops[q]}
      BY <1>1
    <3> QED
      BY <1>6, <3>1, <3>2
  <2>4. \A q \in Names : (Doing(q, "ready"))' => Doing(q, "ready") /\ ops'[q] = ops[q]
    BY <2>3 DEF Doing, NoOp
  <2>5. ProcessInv'
    BY <1>3, <1>4, <1>5, <1>6, <2>2, <2>4 DEF ProcessInv, NoServerIsLeftBehind, Alive
  <2>6. PreviewTypes'
    BY <1>1, <1>3, <1>6, <2>1, <2>2, <2>3, SaysTyped
  <2>7. PromiseInv'
    BY <1>1, <2>1, Promises
  <2> QED
    BY <2>5, <2>6, <2>7
<1>7. CASE /\ Spawns("auto", servers[c].app, [manager EXCEPT !.restarts = @ + 1], Dead(c))
           /\ manager.state # "starting"
  <2> DEFINE m == [manager EXCEPT !.restarts = @ + 1]
             running == Dead(c)
             app == servers[c].app
  <2>1. m \in Managers /\ m.state = manager.state /\ m.app = manager.app /\ m.child = manager.child
    <3>1. manager.restarts + 1 \in Nat
      BY <1>1 DEF Managers
    <3>2. m \in Managers
      BY <1>1, <3>1 DEF Managers
    <3>3. m.state = manager.state /\ m.app = manager.app /\ m.child = manager.child
      BY <1>1 DEF Managers
    <3> QED
      BY <3>2, <3>3
  <2>2. Spawns("auto", app, m, running) /\ "auto" \in Names /\ app \in Apps
    BY <1>3, <1>7 DEF Names
  <2>3. /\ running \in Seq(Processes)
        /\ \A d \in DOMAIN running : running[d].is = "dead" \/ running[d].told
        /\ m.child \in DOMAIN running /\ ~running[m.child].told /\ running[m.child].app = m.app
        /\ \A q \in Names : Doing(q, "ready") =>
             /\ ops[q].child \in DOMAIN running /\ running[ops[q].child].app = ops[q].app
    BY <1>1, <1>2, <1>3, <1>4, <1>5, <2>1
  <2>4. m.state # "starting"
    BY <1>7, <2>1
  <2> HIDE DEF m, running, app
  <2> QED
    BY <1>1, <1>2, <2>1, <2>2, <2>3, <2>4, SpawnSteps
<1>8. CASE /\ manager' = Forgotten([manager EXCEPT !.restarts = 0]) /\ servers' = Dead(c)
           /\ Tells(<<[is |-> "stopped", app |-> None]>>) /\ UNCHANGED ops
  <2> DEFINE said == <<[is |-> "stopped", app |-> None]>>
             m == [manager EXCEPT !.restarts = 0]
  <2>1. /\ said \in Seq(Messages) /\ said # <<>> /\ Matters(said[Len(said)])
        /\ Effect(said[Len(said)]) = None /\ Tells(said)
    BY <1>1, <1>8, Words
  <2> HIDE DEF said
  <2>2. m \in Managers
    BY <1>1 DEF Managers
  <2>3. manager' \in Managers /\ manager'.state = "idle"
    BY <1>8, <2>2, ManagerTypes
  <2>4. ProcessInv'
    BY <1>3, <1>4, <1>5, <1>8, <2>3 DEF ProcessInv, NoServerIsLeftBehind, Alive, Doing
  <2>5. PreviewTypes'
    BY <1>1, <1>3, <1>8, <2>1, <2>3, SaysTyped
  <2>6. PromiseInv'
    BY <1>1, <2>1, Promises
  <2> QED
    BY <2>4, <2>5, <2>6
<1> QED
  BY <1>6, <1>7, <1>8 DEF Crashes

-----------------------------------------------------------------------------
(* Steps of the object *)

LEMMA ReceiveSteps ==
  ASSUME PreviewInv, Receives
  PROVE  PreviewTypes' /\ PromiseInv'
<1> DEFINE m == toObject[1]
<1>1. /\ PreviewTypes /\ PromiseInv /\ UNCHANGED <<manager, ops, servers>>
      /\ toObject \in Seq(Messages) /\ toObject # <<>> /\ toObject' = Tail(toObject)
      /\ hashing \in Seq(Apps) /\ active \in Apps /\ overtaken \in BOOLEAN /\ None \in Apps
  BY DEF PreviewInv, PreviewTypes, Receives, managerVars, Apps
<1>2. /\ Len(toObject) \in Nat \ {0} /\ DOMAIN toObject = 1 .. Len(toObject)
      /\ toObject' \in Seq(Messages) /\ DOMAIN toObject' = 1 .. Len(toObject) - 1
      /\ \A i \in 1 .. Len(toObject) - 1 : toObject'[i] = toObject[i + 1]
  BY <1>1, EmptySeq, LenProperties, HeadTailProperties
<1>3. m \in Messages /\ m.app \in Apps /\ Head(toObject) = m
  <2>1. m \in Messages
    BY <1>1, <1>2, ElementOfSeq
  <2> QED
    BY <2>1 DEF Messages
<1>4. \/ m.is \in {"error", "stopped"} /\ Revokes(m.is)
      \/ ~Matters(m) /\ UNCHANGED <<hashing, active, overtaken>>
      \/ m.is = "ready" /\ hashing' = Append(hashing, m.app) /\ UNCHANGED <<active, overtaken>>
  BY <1>3 DEF Receives, Matters
<1>5. PreviewTypes'
  <2>1. hashing' \in Seq(Apps)
    <3>1. Append(hashing, m.app) \in Seq(Apps)
      BY <1>1, <1>3, AppendProperties
    <3>2. hashing' = hashing \/ hashing' = Append(hashing, m.app)
      BY <1>4 DEF Revokes
    <3> QED
      BY <1>1, <3>1, <3>2
  <2>2. active' \in Apps /\ overtaken' \in BOOLEAN
    BY <1>1, <1>4 DEF Revokes
  <2> QED
    BY <1>1, <1>2, <2>1, <2>2 DEF PreviewTypes
<1>6. \A app \in Apps : Justified(app)' <=> Justified(app)
  BY <1>1 DEF Justified, Pending, Reaping, Doing, IsLatest
<1>7. \A i \in DOMAIN toObject' : IsLast(i)' =>
        i + 1 \in DOMAIN toObject /\ IsLast(i + 1) /\ toObject'[i] = toObject[i + 1]
  <2> TAKE i \in DOMAIN toObject'
  <2> HAVE IsLast(i)'
  <2>1. /\ i \in 1 .. Len(toObject) - 1 /\ i + 1 \in DOMAIN toObject
        /\ toObject'[i] = toObject[i + 1] /\ Matters(toObject[i + 1])
    BY <1>2 DEF IsLast, Matters
  <2>2. ASSUME NEW j \in DOMAIN toObject, j > i + 1 PROVE ~Matters(toObject[j])
    <3>1. j - 1 \in DOMAIN toObject' /\ j - 1 > i /\ toObject'[j - 1] = toObject[j]
      BY <1>2, <2>1, <2>2
    <3> QED
      BY <3>1 DEF IsLast, Matters
  <2> QED
    BY <2>1, <2>2 DEF IsLast
<1>8. NoneComes' => \A j \in DOMAIN toObject : j > 1 => ~Matters(toObject[j])
  <2> HAVE NoneComes'
  <2> TAKE j \in DOMAIN toObject
  <2> HAVE j > 1
  <2>1. j - 1 \in DOMAIN toObject' /\ toObject'[j - 1] = toObject[j]
    BY <1>2
  <2> QED
    BY <2>1 DEF NoneComes, Matters
<1>9. NoneComes' /\ Matters(m) => IsLast(1)
  BY <1>2, <1>8 DEF IsLast
<1>10. ASSUME ~overtaken', NEW app \in Apps, WillBe(app)' PROVE app = None \/ WillBe(app)
  <2>1. CASE \E i \in DOMAIN toObject' : IsLast(i)' /\ app = Effect(toObject'[i])
    BY <1>7, <2>1 DEF WillBe
  <2>2. CASE NoneComes' /\ m.is \in {"error", "stopped"} /\ Revokes(m.is)
    BY <1>10, <2>2, <1>7, <2>1 DEF Revokes, WillBe, Effect, IsLast
  <2>3. CASE NoneComes' /\ ~Matters(m) /\ UNCHANGED <<hashing, active, overtaken>>
    <3>1. NoneComes
      BY <1>2, <1>8, <2>3 DEF NoneComes
    <3>2. \A i \in DOMAIN toObject' : ~IsLast(i)'
      BY <2>3 DEF NoneComes, IsLast
    <3> QED
      BY <1>10, <2>3, <3>1, <3>2 DEF WillBe, Effect, IsLast
  <2>4. CASE NoneComes' /\ m.is = "ready" /\ hashing' = Append(hashing, m.app)
    <3>1. hashing' # <<>> /\ hashing'[Len(hashing')] = m.app
      BY <1>1, <1>3, <2>4, AppendProperties
    <3>2. \A i \in DOMAIN toObject' : ~IsLast(i)'
      BY <2>4 DEF NoneComes, IsLast
    <3>3. app = m.app
      BY <1>10, <3>1, <3>2 DEF WillBe, Effect, IsLast
    <3>4. IsLast(1) /\ 1 \in DOMAIN toObject /\ m.app = Effect(m)
      BY <1>2, <1>9, <2>4 DEF Matters, Effect
    <3> QED
      BY <3>3, <3>4 DEF WillBe
  <2> QED
    BY <1>4, <1>10, <2>1, <2>2, <2>3, <2>4 DEF WillBe, Effect, IsLast
<1>11. overtaken => overtaken'
  BY <1>4 DEF Revokes
<1>12. PromiseInv'
  BY <1>1, <1>6, <1>10, <1>11 DEF PromiseInv, Justified
<1> QED
  BY <1>5, <1>12

LEMMA HashedSteps ==
  ASSUME PreviewInv, NEW i \in 1 .. Len(hashing), Hashed(i)
  PROVE  PreviewTypes' /\ PromiseInv'
<1>1. /\ PreviewTypes /\ PromiseInv /\ UNCHANGED <<manager, ops, servers, toObject>>
      /\ hashing \in Seq(Apps) /\ overtaken \in BOOLEAN
      /\ active' = hashing[i] /\ hashing' = WithoutIt(i) /\ overtaken' = (overtaken \/ i > 1)
      /\ Len(hashing) \in Nat /\ DOMAIN hashing = 1 .. Len(hashing) /\ i \in DOMAIN hashing
  BY LenProperties DEF PreviewInv, PreviewTypes, Hashed, managerVars
<1> DEFINE n == Len(hashing)
           before == SubSeq(hashing, 1, i - 1)
           after == SubSeq(hashing, i + 1, n)
<1>2. before \in Seq(Apps) /\ after \in Seq(Apps)
  <2>1. \A j \in DOMAIN hashing : hashing[j] \in Apps
    BY <1>1, ElementOfSeq
  <2>2. \A j \in 1 .. i - 1 : hashing[j] \in Apps
    BY <1>1, <2>1
  <2>3. \A j \in i + 1 .. n : hashing[j] \in Apps
    BY <1>1, <2>1
  <2>4. i - 1 \in Int /\ i + 1 \in Int /\ n \in Int /\ 1 \in Int
    BY <1>1
  <2>5. before \in Seq(Apps)
    BY <2>2, <2>4, SubSeqProperties
  <2>6. after \in Seq(Apps)
    BY <2>3, <2>4, SubSeqProperties
  <2> QED
    BY <2>5, <2>6
<1>3. PreviewTypes'
  <2>1. hashing' \in Seq(Apps)
    BY <1>1, <1>2, ConcatProperties DEF WithoutIt
  <2>2. active' \in Apps
    BY <1>1, ElementOfSeq
  <2> QED
    BY <1>1, <2>1, <2>2 DEF PreviewTypes
<1>4. \A app \in Apps : Justified(app)' <=> Justified(app)
  BY <1>1 DEF Justified, Pending, Reaping, Doing, IsLatest
<1>5. ASSUME ~overtaken', NEW app \in Apps, WillBe(app)' PROVE WillBe(app)
  <2>1. i = 1
    <3>1. ~(i > 1)
      BY <1>1, <1>5, Zenon
    <3> QED
      BY <3>1
  <2>2. hashing # <<>> /\ hashing' = Tail(hashing)
    <3>1. hashing # <<>>
      BY <1>1, EmptySeq
    <3>2. before = <<>>
      BY <2>1, SubSeqEmpty
    <3>3. after = Tail(hashing)
      BY <1>1, <2>1, <3>1, TailIsSubSeq
    <3> QED
      BY <1>1, <1>2, <3>1, <3>2, <3>3, ConcatEmptySeq DEF WithoutIt
  <2>3. /\ hashing' \in Seq(Apps) /\ Len(hashing') = n - 1
        /\ \A j \in 1 .. Len(hashing') : hashing'[j] = hashing[j + 1]
    BY <1>1, <2>2, HeadTailProperties
  <2>4. CASE n = 1
    <3>1. hashing' = <<>>
      BY <2>3, <2>4, EmptySeq
    <3>2. active' = hashing[n]
      BY <1>1, <2>1, <2>4
    <3> QED
      BY <1>1, <1>5, <2>2, <3>1, <3>2 DEF WillBe, IsLast, NoneComes
  <2>5. CASE n # 1
    <3>1. hashing' # <<>> /\ hashing'[Len(hashing')] = hashing[n]
      BY <1>1, <2>3, <2>5, EmptySeq
    <3> QED
      BY <1>1, <1>5, <2>2, <3>1 DEF WillBe, IsLast, NoneComes
  <2> QED
    BY <2>4, <2>5
<1>6. PromiseInv'
  BY <1>1, <1>4, <1>5 DEF PromiseInv
<1> QED
  BY <1>3, <1>6

LEMMA SameProcesses ==
  ASSUME ProcessInv, UNCHANGED <<manager, ops, servers>>
  PROVE  ProcessInv'
  BY DEF ProcessInv, NoServerIsLeftBehind, Alive, Waits, Doing, Reaping

LEMMA OtherPreviewSteps ==
  ASSUME PreviewInv, UNCHANGED <<manager, ops, servers, toObject, hashing, active, overtaken>>
  PROVE  PreviewInv'
<1>1. PreviewTypes'
  BY DEF PreviewInv, PreviewTypes
<1>2. ProcessInv'
  BY SameProcesses DEF PreviewInv
<1>3. PromiseInv'
  BY DEF PreviewInv, PromiseInv, WillBe, IsLast, NoneComes, Justified, Pending, Reaping, Doing, IsLatest
<1> QED
  BY <1>1, <1>2, <1>3 DEF PreviewInv

-----------------------------------------------------------------------------
LEMMA PreviewsStartSound == PreviewInit => PreviewInv
<1> SUFFICES ASSUME PreviewInit PROVE PreviewInv
  OBVIOUS
<1>1. /\ manager = NoManager /\ ops = [queue |-> NoOp, auto |-> NoOp] /\ servers = <<>>
      /\ toObject = <<>> /\ hashing = <<>> /\ active = None /\ overtaken = FALSE
  BY DEF PreviewInit
<1>2. NoManager \in Managers /\ NoManager.state = "idle"
  BY DEF NoManager, Managers, Apps
<1>3. ops \in [Names -> Ops] /\ \A q \in Names : ops[q] = NoOp
  BY <1>1 DEF Names, Ops
<1>4. PreviewTypes
  <2>1. overtaken \in BOOLEAN
    BY <1>1
  <2>2. active \in Apps
    BY <1>1 DEF Apps
  <2>3. servers \in Seq(Processes) /\ toObject \in Seq(Messages) /\ hashing \in Seq(Apps)
    BY <1>1, EmptySeq
  <2> QED
    BY <1>1, <1>2, <1>3, <2>1, <2>2, <2>3 DEF PreviewTypes
<1>5. ProcessInv
  BY <1>1, <1>2, <1>3 DEF ProcessInv, NoServerIsLeftBehind, Doing, NoOp
<1>6. PromiseInv
  BY <1>1 DEF PromiseInv, WillBe, IsLast, Justified
<1> QED
  BY <1>4, <1>5, <1>6 DEF PreviewInv

LEMMA PreviewStepsAreSound == PreviewInv /\ [PreviewNext]_previewVars => PreviewInv'
<1> SUFFICES ASSUME PreviewInv, [PreviewNext]_previewVars PROVE PreviewInv'
  OBVIOUS
<1>1. CASE Manages
  <2>1. DOMAIN ops = Names
    BY DEF PreviewInv, PreviewTypes
  <2> QED
    BY <1>1, <2>1, TakesSteps, ReapedSteps, StoppedSteps, ReadySteps, TimeOutSteps, FailedSteps
    DEF Manages, PreviewInv
<1>2. ASSUME NEW c \in Servers \cap DOMAIN servers, Binds(c) \/ Ends(c) \/ Crashes(c) PROVE PreviewInv'
  BY <1>2, BindSteps, EndsSteps, CrashSteps DEF PreviewInv
<1>3. CASE Receives
  <2>1. ProcessInv'
    BY <1>3, SameProcesses DEF Receives, managerVars, PreviewInv
  <2> QED
    BY <1>3, <2>1, ReceiveSteps DEF PreviewInv
<1>4. ASSUME NEW i \in 1 .. Len(hashing), Hashed(i) PROVE PreviewInv'
  <2>1. ProcessInv'
    BY <1>4, SameProcesses DEF Hashed, managerVars, PreviewInv
  <2> QED
    BY <1>4, <2>1, HashedSteps DEF PreviewInv
<1>5. ASSUME NEW command, Commanded(command) PROVE PreviewInv'
  BY <1>5, OtherPreviewSteps DEF Commanded, managerVars, objectVars
<1>6. CASE UNCHANGED previewVars
  BY <1>6, OtherPreviewSteps DEF previewVars, managerVars, objectVars
<1> QED
  BY <1>1, <1>2, <1>3, <1>4, <1>5, <1>6 DEF PreviewNext

LEMMA PreviewsAreSound == PreviewSpec => []PreviewInv
<1>1. PreviewInit => PreviewInv
  BY PreviewsStartSound
<1>2. PreviewInv /\ [PreviewNext]_previewVars => PreviewInv'
  BY PreviewStepsAreSound
<1> QED
  BY <1>1, <1>2, PTL DEF PreviewSpec

\* Whatever commands, crashes, restarts and timeouts overlap, a dev server that
\* nobody told to end is the one that the manager tracks (PreviewManager).
THEOREM ServersAreTracked == PreviewSpec => []NoServerIsLeftBehind
<1>1. PreviewInv => NoServerIsLeftBehind
  BY DEF PreviewInv, ProcessInv
<1> QED
  BY <1>1, PreviewsAreSound, PTL

LEMMA NothingComes ==
  ASSUME PreviewTypes, toObject = <<>>
  PROVE  NoneComes
<1>1. Len(toObject) = 0 /\ DOMAIN toObject = 1 .. Len(toObject)
  BY EmptySeq, LenProperties DEF PreviewTypes
<1>2. \A i \in DOMAIN toObject : FALSE
  BY <1>1
<1> QED
  BY <1>2, Zenon DEF NoneComes

\* When all is done and received, a URL that is served is that of the app that runs.
LEMMA PromisesAreKept == PreviewInv => ActivePreviewRuns
<1> SUFFICES ASSUME PreviewInv, Quiet, ~overtaken, Proxied # "not active"
             PROVE  /\ manager.state = "running" /\ manager.app = active
                    /\ Serves(manager.child) => Proxied = "page"
  BY DEF ActivePreviewRuns
<1>1. /\ toObject = <<>> /\ hashing = <<>> /\ active # None /\ active \in Apps
      /\ \A o \in Names : ops[o] = NoOp
  BY DEF Quiet, Proxied, IsServed, PreviewInv, PreviewTypes
<1>2. WillBe(active)
  <2>1. NoneComes
    BY <1>1, NothingComes DEF PreviewInv
  <2> QED
    BY <1>1, <2>1 DEF WillBe
<1>3. ~Pending
  <2>a. NoOp.at = "idle" /\ "queue" \in Names
    BY DEF NoOp, Names
  <2>1. \A o \in Names : ~Doing(o, "ready") /\ ~Doing(o, "fail")
    BY <1>1, <2>a DEF Doing
  <2>2. ~Reaping
    BY <1>1, <2>a DEF Reaping
  <2>3. manager.state # "starting"
    BY <2>1 DEF PreviewInv, ProcessInv, Waits
  <2> QED
    BY <2>1, <2>2, <2>3 DEF Pending
<1>4. manager.state = "running" /\ manager.app = active
  BY <1>1, <1>2, <1>3 DEF PreviewInv, PromiseInv, Justified
<1>5. manager.child \in DOMAIN servers /\ servers[manager.child].app = active
  BY <1>4 DEF PreviewInv, ProcessInv
<1>6. Serves(manager.child) => Proxied = "page"
  BY <1>1, <1>5 DEF Proxied, IsServed, Fetched, Answers
<1> QED
  BY <1>4, <1>6

\* Whatever is replaced, crashes or is late, the URL comes to be that of the app
\* that runs, unless a preview_ready was held up behind a later message.
THEOREM UrlsAreServed == PreviewSpec => []ActivePreviewRuns
  BY PromisesAreKept, PreviewsAreSound, PTL
=============================================================================
