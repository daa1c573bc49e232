# Codevil: formal model

TLA+ modules, TLC runs and TLAPS proofs about the program in `packages/`. Paths
below are relative to the repository; `W/` stands for `packages/worker/src/`,
`I/` for `packages/sandbox-image/src/` and `D/` for `docs/superpowers/specs/`.

## 1. The system

A *Session* is a room in which several people direct one coding agent. Each
Session is one `Orchestrator` Durable Object of the Cloudflare Worker. It talks
over WebSockets to browsers and CLIs on one side and to a *sandbox agent* on the
other, a process in an E2B or Cloudflare sandbox that clones the repository and
runs the model. Slack is a third way in. A D1 database lists the Sessions.

A handler of the Durable Object runs without interruption up to its first
`await`; while it waits, other handlers run. The object may leave memory at any
moment. SQLite rows, the stored alarm and hibernated sockets survive, objects in
memory and continuations do not. Requests to the Worker itself share nothing but
D1, where one statement or batch is atomic. The agent works on one message at a
time.

| Component | State | Operations | What is hard | What makes it correct |
| --- | --- | --- | --- | --- |
| Session state machine (`packages/shared/src/session.ts`) | the state | `isValidTransition` | which handler may run where | only edges of the table are taken |
| Run queue and coordinator (`W/agent-runs.ts`, `W/orchestrator/agent-run-coordinator.ts`) | `active_run`, `queued_runs`, run state | queue, start, finish, fail, drain | nine handlers end a run, four places may start one | first in, first out, one at a time, none lost, one outcome each |
| Session commands (`W/orchestrator/cli-handlers.ts`) | round, plan, annotations, decisions | request, approve, refine, abort, stop, annotate, answer, preview | decisions about a run that has moved on | an approval ships what was reviewed |
| Sandbox messages (`W/orchestrator/sandbox-handlers.ts`) | all of the above | one handler per message | most messages carry no run id | a message settles the run it is about |
| Sandbox agent (`I/entrypoint.ts`, `I/runtime.ts`, `I/verification.ts`) | main queue, message at work | plan, refine, turn, execute, verify, push | it does not learn of an abort | each message at work ends in one result |
| Sandbox connection (`W/sandbox-connection.ts`, `I/socket-client.ts`) | live socket, grace, outbox, token | attach, drop, reconnect, expire | messages lost with the socket, a token that expires in a paused sandbox | a drop is noticed, a return is let in |
| Sandbox lifecycle (`W/orchestrator/sandbox-session-lifecycle.ts`) | paused marker, expected close, pending preview, alarm | pause, resume, renew, terminate | every provider call is in flight while other events arrive | no work for a sleeping sandbox, no sandbox left behind |
| Event log (`W/orchestrator/event-log.ts`) | rows, snapshot in memory and on disk, tail count | append, checkpoint, prune, hydrate, replay | joiners between snapshot and tail, eviction | a page shows the events up to its cursor, once each |
| Browser store (`packages/web/src/stores/session-store.ts`) | cursor, projection, 100 ms batch | snapshot, replay, event, leave | leaving and coming back | chat and state agree |
| Plan revisions, annotations (`W/orchestrator/plan-revision-actions.ts`) | revisions per run and round, threads | freeze, lock, annotate, consolidate | review while the plan is rewritten | no feedback is closed unread |
| Questions, pull requests of the agent (`W/orchestrator/questions-store.ts`, `question-answer.ts`, `I/runtime-rpc.ts`) | open questions, waiting tool calls | ask, answer, cancel, time out, open | answer races timeout and abort; a lost answer of GitHub | one answer, delivered or refused |
| Session directory (`W/orchestrator/directory-update-queue.ts`) | pending patch, D1 row | merge, write, retry, conflict | a timed-out write lands later | the row catches up and never goes back |
| Session creation (`W/http-handlers.ts`, `W/session-service.ts`) | idempotency key, D1 row | create | a race or a retried request | one Session per key |
| Accounts and invitations (`W/invitations.ts`, `W/memberships.ts`) | setup claim, memberships, invitations | claim, invite, accept, revoke | check in one statement, write in another | one owner by setup, one member per invitation |
| Workspace cache (`W/orchestrator/workspace-cache-job.ts`, `I/dependency-cache.ts`) | job row, attempts, marker | restore, set up, queue, claim, back up, retry, recover | restart inside a backup, a marker that vouches for nothing | no install skipped wrongly, every job ends |
| Previews (`W/orchestrator/preview.ts`, `I/preview-manager.ts`) | token, URL, dev server | start, stop, crash, revoke, proxy | start and stop overtaking each other | one server, and the URL leads to it |
| Slack (`W/integrations/`) | thread link, dedupe rows, live card, claims | mention, command, notify, flush, retry | duplicates, lost answers, restarts | each mention acted on once, the response arrives in order |
| Client projections (`packages/shared/src/projection-*.ts`) | plans, annotations, preview, chat, activity | fold events | order and repetition | pages show what the tables hold |

`PROJECT.json` lists the components with their sources and status, and under
`hazards` the places where each difficulty bites.

## 2. The modules

```
SessionState            transition table
   |
SessionRuns  -------->  RunLedger          (refinement, KeepsRunLedger)
   +-- MCSessionRuns                       (TLC)
   +-- SessionRunsProofs                   (TLAPS)

SandboxLifecycle -- MCSandboxLifecycle --+
WorkspaceCache   ------------------------+-- SandboxProofs
Previews         ------------------------+
SlackThreads     ------------------------+-- SlackProofs
RunCards         ------------------------+
PlanReview       -- MCPlanReview -- PlanReviewProofs
EventLog         -- MCEventLog -- EventLogProofs
SessionDirectory -- MCSessionDirectory,  SessionDirectoryProofs
AgentCalls       -- MCAgentCalls,  AgentCallsProofs
Accounts         -- MCAccounts,  AccountsProofs
```

A proof module extends the models it is about. WorkspaceCache, Previews and
RunCards share one with another model, so what every model has bears a name of its
own in them: `CacheInit`, `CacheNext`, `CacheSpec`, and likewise `Preview...` and
`Cards...`.

The modules meet at named points instead of being one product, which TLC could
not explore: SessionRuns has the queue and the states; SandboxLifecycle takes a
run to be one step and adds the sandbox under it; PlanReview and AgentCalls look
inside a review and inside a turn; RunCards and SlackThreads are the two
directions of Slack; SessionDirectory is what the rest of the system sees of a
Session. Each module says at its head what it leaves to another.

MC modules hold the constants and symmetry of an instance. Three of them
(MCEventLog, MCSandboxLifecycle, MCPlanReview) add one history variable, which
says whether an event beyond the promise of the code has happened: an eviction,
an unsteady log, a late plan. Their properties then hold *until* that event,
while the events themselves stay in the model.

### SessionRuns

One Session and its sandbox agent: who works on what, in which state.

*State.* `state`, `active`, `runState`, `queue`, `round`, `attempts`, `plan`,
`revision`, `locked`, `grace` and `closing` are fields of `session_meta` and rows
of `plan_revisions`. `publishing` holds the continuations of `handleBranchPushed`
that wait for GitHub. `toSandbox` is the wire to the agent together with its main
queue, `fromSandbox` the wire back with its outbox, `work` the message the agent
is busy with. `requests` and `outcome` are read off the event log.

*Actions.* One per handler: `AgentRequest`, `Approve`, `Refine`, `Abort`,
`StopSession`; the alarm's `MaxTimeExpired`, `ProvisioningTimedOut`,
`ReconnectExpired`; `SandboxLost` and `ResumeFails`, the two ways into
`failSession`; one per message of the sandbox; `Disconnect`, `ConnectResume`,
`ConnectInitialize`; `SandboxTake` and `SandboxStep` for the agent, whose
`Results` list what each handler of `I/runtime.ts` may send, an `error` on any
exception included. `BranchPushed` and `SettlePullRequest` are the two halves of
a handler that awaits. `FinishRun`, `StartAgentRun`, `SettleActiveRun` and
`DrainQueuedWork` are the shared functions of the coordinator.

*Ends of a Session.* A stop or a timeout leaves the active run and the queue as
they are. `ReconnectExpired` fails the active run and leaves the queue.
`FailSession` fails every run, keeps the active one and empties the queue. It runs
when a lease renewal, a pause or a resume finds that the provider has no sandbox,
or when the last attempt of a resume failed. When and why that happens is in
SandboxLifecycle; here it may happen at any moment after provisioning. The agent
of a lost sandbox may still work and send, which is more than it can do.

*Owner of a message.* Every message in flight carries the run it was sent for.
Handlers read that field only for the messages in which the code has a run id;
for the others only properties do. This is how a wrong attribution becomes
visible.

*Left out.* The wording of rejected decisions; the message `pr_created`, which no
agent sends; a second socket that attaches while the first is alive; failures of
provisioning after the agent has connected and moved on from
`provisioning_sandbox` or `cloning_repo`. Git, Pi and package managers are
nondeterministic results.

`RunLedger` is what a Session promises about requests: a log, how many were
taken, the current one, and whether the Session is open. Requests are taken one by
one and in order. Those behind the current one may be given up, but only all of
them together, when the current one is over or when the Session closes (`Close`); a
closed Session takes up no more. `SessionRuns` refines it with `taken` as the length
of the log minus that of the queue and `open` as `~Terminal`.

### EventLog

The event table, the snapshot in memory, the persisted row, and browsers with
their cursors. An event is its id and a projection is the sequence of ids folded
into it, so a hole, a repetition or an inversion is visible whatever events mean.
`Report` is any handler that appends; `Alarm` persists a dirty snapshot and prunes
rows older than the retention, which come off the front, so the rows that are
left are an interval of ids; `Evict` stands for leaving memory and
`hydrateFromSql`, which the next use runs before anything else; `Welcome` is what
`fetch` sends to a joiner. `Offered` is the choice of `getSnapshot` between the
snapshot in memory and the row. *Abstracted*: the limits that shorten old
messages for display; what an event does to the page; the size of a snapshot,
which is a boolean chosen anew with each event. The reconnect delay of the page
(at least 500 ms) exceeds its flush timer (100 ms), so `Join` asks for an empty
batch.

### SandboxLifecycle

A pausable sandbox after its repository was cloned. `meta` holds the persisted
fields. `alarm`, `resuming` and `ending` are the continuations of the alarm
handler, `doResume` and `terminateSandbox`: each names what is awaited, so every
other event can happen there. `vm` and `pauseCall` are the provider's side.
`Pausing` is the entry in the WeakMap `pausing`. `token` is the token the agent
holds and the one in its file: it lives 15 minutes and is refreshed every 10, so
it can go stale only in a sandbox that sleeps. A Session is `ready`, `executing`
(any state with an active run, for pausing asks only whether the state is
`ready`) or `failed` (any terminal state).

*Abstracted.* The clock: what may be due is due or not, at any moment. The handle
cache: resolving a handle may or may not reach the provider. Two teardowns at
once. A socket that the object closed but that lingers counts as closed, as
`isLiveSandboxSocket` has it. *Assumed of the provider*, from comments of the
code: a pause that fails leaves the sandbox running (`recoverAfterFailedPause`);
connecting wakes a paused sandbox and only a running one expires; a pause that
lands after the kill leaves a paused sandbox (`terminateSandbox`).

### SessionDirectory

Creation under an Idempotency-Key (lookup, batch, second lookup after a conflict,
`init`, the failure row, and a cut at any of these points), and for each Session
the lane of `DirectoryUpdateQueue`: a pending patch, the write in flight with its
attempts, the statement that timed out and lands later, the baseline that is read
after a write was given up, and a restart that forgets the lane and its clock. A
value of a field is the number of its change, so old and new can be told apart.

### Accounts

The setup claim, invitations, acceptance, revocation. Every request is a program
counter over its statements; `Requests` of them interleave. The check of a policy
and the write it allows are different steps. Time counts up to `MaxTime`, so an
invitation can expire between the two. A handler reads the clock once, at its
check, and binds that `now` in the statements after it (`at`), so an invitation that
expires in between is still accepted. Memberships are never changed by the code
once made; the model has no such action either.

### WorkspaceCache

Sessions of one repository: the restore before the agent starts, clone or
refresh, the marker in the workspace, install, the activity of an agent that may
change what was installed, and the backup job with its alarm. `files` is the
workspace (head, dependencies, marker), `rows` the table of snapshots, `job` the
row of the object. A restart may cut a claim, a backup or the insert of a row.

### AgentCalls

The two calls an agent makes in the middle of a turn. `rows` are the questions of
the object, `asks` what the agent waits for, `cards` the messages in Slack,
`modal` the form that a text answer goes through; `pulls`, `opened` the two sides
of a pull request. A socket may break without either side noticing: what is sent
on it then is lost, what the sandbox could not send stays in its outbox.

### SlackThreads and RunCards

SlackThreads: from a mention to an Agent Request. Each delivery of an event is a
call with its own program counter through `handleSlackEvent`: dedupe insert, look
up the link, create a Session, insert the link, read the context of the thread,
submit, answer. Any statement may fail, also after it took effect, and a call may
be cut. RunCards: from an event of a run to its card and its final response, with
the flush that waits for Slack while events change its row, the claims of chunks,
the attempts of a post, the alarm and restarts. Events reach a run after its end,
too (`Late`): a question names its run, and a failed Session keeps its active run.

### Previews

Commands, the queue of their own they go through, the manager with its servers,
crashes, restarts and the start timeout, and the object that hashes the token of
each `preview_ready` while later messages overtake it. A directory is known by
the files that decide its command (`preview-spawn.ts`), ports may be shared.

### PlanReview

Revisions, threads with replies, the lock, consolidation into a brief, the plan
that answers it, an abort that does not stop the sandbox, and a page folding the
events. A plan is known by the request it answers and the feedback it was made
from, so feedback that is consumed unread can be seen.

## 3. What is checked

| Run | Instance | Shows |
| --- | --- | --- |
| `SessionRuns` | 2 plan-first runs, 1 plain, 1 round, 2 attempts, 1 drop | queue order, none passed over but those given up with the Session; no missed wake-up; run state follows Session state; outcomes are final outside the GitHub continuation; an approval ships the revision frozen for its round; refinement of RunLedger |
| `Progress` | the same runs, no drop, fair | an active run is settled, comes up for review, or the Session ends; a request gets an outcome unless a review keeps the Session, the Session ends, or a phase is left without a run |
| `EventLog` | 2 pages, 4 events, compaction after 2, evictions, any retention | until the log is unsteady a page shows exactly the events up to its cursor; nothing is ever folded twice or out of order |
| `SandboxLifecycle` | 3 resume attempts, 2 waiting, 3 faults, fair | until an eviction: no run on a sleeping sandbox, no drop overlooked, the latest preview command wins, a waiting request is served or the Session fails, an ended Session frees its sandbox unless the provider refuses; always: lease renewal does not wake a sleeper |
| `SessionDirectory` | 2 requests, 1 key, 2 fields, 3 changes, 2 attempts, 2 conflicts, 2 faults | one Session per key; no change is forgotten; no old value comes back |
| `Accounts` | 3 users, 2 invitations, 2 requests at a time | one setup claim; an invitation makes its member or none |
| `WorkspaceCache` | 2 Sessions, 3 heads, 2 attempts, 2 faults, fair | no install is skipped over the wrong artifacts; rows and attempts agree; every job ends |
| `AgentCalls` | 2 runs, 1 question, 2 pull requests, 3 kinds of people, 1 fault | the accepted answer stands on all sides; over runs ask nothing; an outcome is on its way; a pull request is the caller's own |
| `SlackThreads` | 3 messages, page of 2, 1 redelivery, 1 fault | one Session is asked; each mention once, with the whole conversation, and answered |
| `RunCards` | 2 chunks, 2 attempts, 3 events, 3 faults, fair | chunks arrive in order and once; a row is kept until its response is posted; a noted response gets posted |
| `Previews` | 3 directories, 3 commands, 2 crashes, 1 restart, fair | no server is left behind; the URL leads to the server that runs; a start ends |
| `PlanReview` | 2 participants, 2 runs, 2 rounds, 3 threads, 1 reply | until a late plan: no feedback is consumed unread; always: pages show what the tables hold |

*Bounds.* The number of runs, messages, commands, threads, events, users and
requests bound what participants do (`MaxRuns`, `MaxThreads`, `MaxReplies`,
`MaxMessages`, `MaxCommands`, `MaxUpdates`, `MaxEvents`, `MaxQueued`, `MaxTime`
and the sets). Two of a kind let one meet the other: the remains of a run the next
run, a mention another, a late write a newer one; a third user makes an invitation
whose sender and receiver are both not the claimant. `MaxFaults`, `MaxDrops`, `MaxCrashes` and
`MaxRetries` bound what goes wrong: as many faults as attempts let every attempt
fail, one drop reaches every reconnect path. Limits of the code
(`MaxRefinementRounds`, `MaxVerificationAttempts`, `Attempts`, `Conflicts`,
`MaxAttempts`, `ResumeAttempts`, `MaxRestarts`, `PageSize`, `CompactAfter`) keep
their meaning and are small, so both sides of each are reached.
Deadlock is checked in SandboxLifecycle only, which never stops; the other models
stop when what participants may do is used up.

*Symmetry* is used for pages, plan and plain runs, users, invitations, requests
and participants, only in runs without liveness properties. In `Progress` the first
plan-first run to be requested is always the same one (`FirstPlanRunIsFirst`), which
leaves out only behaviours that differ in the names of these runs; no fair action
requests a run.

*Fairness.* Participants owe nothing: a review may stay open, a question
unanswered; hence "comes up for review" in `RunMakesProgress`.

- `Progress`: the agent works on, the runtime delivers messages, the GitHub call
  returns or times out, a live agent connects (its socket client retries for
  ever). Without `MaxDrops = 0` the properties fail, for a lost command is not
  sent again.
- `SandboxLifecycle`: the provider answers, continuations proceed, a running agent
  reconnects, a lost one drops its socket, and the reconnect grace has a stored
  deadline. The idle alarm is not assumed to fire.
- `WorkspaceCache`: the stored alarm fires at its time, which the platform
  guarantees across evictions, and calls are answered, if only by a failure.
- `RunCards`: Slack and D1 answer, alarms fire, time passes. `RowIsDue` needs
  strong fairness, for an alarm that runs keeps the row from becoming due at that
  moment, again and again.
- `Previews`: timers fire, processes that are killed die (SIGKILL follows
  SIGTERM), messages and hashes arrive.

## 4. What is proved

For every value of the constants, from the named assumptions of each module
(`RunsAssumption`, `BoundsAssumption`, `LifecycleAssumption`,
`DirectoryAssumption`, `LogAssumption`, `QuestionAssumption`, `AccountsAssumption`,
`ThreadAssumption`, `CardAssumption`, `CacheAssumption`, `PreviewAssumption`,
`ReviewAssumption`), which say no more than that sets are
disjoint or finite, that records and functions have their types, and that limits
are numbers:

| Module | Theorem | States |
| --- | --- | --- |
| SessionRunsProofs | `TypeCorrect` | `Spec => []TypeOK`; in particular `dispatchProseBrief` keeps the round in range |
| | `RunsAreTakenInOrder` | `Spec => []QueueIsTailOfRequests` |
| | `SessionImplementsRunLedger` | `Spec => KeepsRunLedger`, the failure of a lost sandbox included |
| | `RunStateIsRight` | `Spec => []RunStateFollowsSession` |
| | `NoWakeUpIsMissed` | `Spec => []ReadySessionIsDrained` |
| | `ReviewIsBacked` | `Spec => []ReviewHasRevision` |
| | `OutcomesStand` | `Spec => OutcomeIsFinal` |
| | `ApprovalsShipTheFrozenPlan` | `Spec => []ApproveShipsFrozenRevision` |
| SandboxProofs | `LifecycleTypeCorrect` | `MCSpec => []TypeOK`, evictions included |
| | `RunsMeetRunningSandboxes` | `MCSpec => []RunIsOnRunningSandboxUntilEviction` |
| | `LostSocketsAreNoticed` | `MCSpec => []LostSocketIsNoticedUntilEviction` |
| | `LatestPreviewCommandsWin` | `MCSpec => []LatestPreviewCommandWinsUntilEviction` |
| | `TeardownsAreComplete` | until an eviction, `TornDownIsGone` and `GraceIsForTheAwake` |
| | `SleepersAreLeftAlone` | `MCSpec => SleeperIsLeftAlone`, evictions included |
| | `ReadyIsInstalled` | `CacheSpec => []ReadyMeansInstalled` |
| | `RowsAddUp` | `CacheSpec => []RowsAreAccountedFor` |
| | `ServersAreTracked` | `PreviewSpec => []NoServerIsLeftBehind` |
| | `UrlsAreServed` | `PreviewSpec => []ActivePreviewRuns` |
| PlanReviewProofs | `ReviewIsOrderly`, `PagesFollowTheTables` | `Spec => []PagesShowTheTables`, late plans included |
| | `BriefsSayAll`, `FeedbackIsHeard` | `MCSpec => []NoFeedbackIsLostUntilLatePlan` |
| SessionDirectoryProofs | `DirectoryTypeCorrect` | `Spec => []TypeOK` |
| | `KeysMakeOneSession` | `Spec => []OneSessionPerKey` |
| | `DirectoryAlwaysCatchesUp` | `Spec => []DirectoryCatchesUp` |
| | `OrderInvariant`, `OldValuesStayAway` | `Spec => NoOldValueReturns` |
| EventLogProofs | `LogInvariant`, `PagesShowWhatHappened` | `MCSpec => []SteadyPagesShowThePrefix` |
| | `NoEventTwice` | `MCSpec => []NothingIsRepeated` |
| | `PagesOnlyMoveForward` | `MCSpec => [][NoCursorGoesBack]_mcVars`: no page returns to an older cursor |
| AgentCallsProofs | `AgentCallsInvariant`, `FirstAnswerWins` | `Spec => []AcceptedAnswerStands` |
| | `NoQuestionOutlivesItsRun` | `Spec => []OverRunsAskNothing` |
| | `NobodyWaitsInVain` | `Spec => []OutcomeIsOnItsWay` |
| | `EveryAgentHearsOfItsOwnPull` | `Spec => []PullRequestIsOwn` |
| AccountsProofs | `AccountsInvariant`, `SetupIsClaimedOnce` | `Spec => []OneSetupClaim` |
| | `InvitationsMakeTheirMembers` | `Spec => []InvitationMakesItsMember` |
| | `NoRoleIsRaised` | `Spec => []RolesAreGranted` |
| SlackProofs | `ThreadInvariant`, `OneSessionIsEverAsked` | `Spec => []OneSessionIsAsked` |
| | `ThreadIsHandled`, `EachMentionOnce` | `Spec => []SubmittedOnce` |
| | `NothingIsSkipped` | `Spec => []ContextIsComplete` |
| | `NoMentionIsForgotten` | `Spec => []MentionIsAnswered` |
| | `CardInvariant`, `ChunksInOrder` | `CardsSpec => []ChunksArriveOnce` |
| | `RowsAreKept` | `CardsSpec => []RowIsKeptUntilPosted` |

*SessionRuns.* `TypeOK` is not inductive: `StartAgentRun` and `Approve` need to
know that the states of a review have a plan-first run, and `DispatchProseBrief`,
which adds to the round without looking, that a consolidation result that is
current was asked for below the limit. `TypeInv` adds the first
(`ReviewIsForPlanRuns`); the second is the type of `consolidation_*` messages.
Queue order needs, besides the property, that a request is in the log once. The
active run is the last request taken up, or requests behind it were given up when
its Session failed; a Session that ended starts nothing, so that stays so
(`ActiveIs`). The refinement maps each handler to `Request`, `TakeNext`, `Settle` or a stutter
through lemmas about `StartAgentRun`, `FinishRun` and `SettleActiveRun`, stated
once because nine handlers end in them. The review theorem needs that the
revision of the current round is frozen before the state becomes
`awaiting_approval`, also on the way back from a failed consolidation.

`OutcomeIsFinal` needs that a run which was not taken up has no outcome, nor has
the active one in a Session that goes on; a run that finishes therefore writes its
first outcome, and so does a queue that is given up. `ApproveShipsFrozenRevision`
relates every message in flight to the active run: the plan of a run for a round
is asked for once and is in one place on its way, no request is for a later round
than the current one, and rounds below the current one have their revision. By
`Written`, as long as all revisions of the run are plans of its own, each is the
plan of its round and that plan is no longer on its way; so the plan received next
is the one for this round, and nothing is left that could replace it afterwards.
The invariant holds whatever is lost with a socket, and a plan of another run that
is taken makes it say nothing of the rounds from that one on.

*SandboxLifecycle.* The properties rest on the order in which a pause, a resume
and a teardown set and reset `pausedAt`, `expectedClose` and `grace`; `Inv`
relates these markers to the provider's state and to the step each continuation
waits for, one conjunct per marker. An eviction alone breaks it, by forgetting
`pausing`; so the invariant is `TypeOK /\ (~evicted => Inv)`. That no lease
renewal wakes a sleeper survives evictions: `SleepInv` says
that an idle Session without a socket is in its grace, or asleep as far as the
metadata know (`pausedAt`) or have to assume (`expectedClose` with nobody resuming),
and an eviction in the middle of a pause leaves the second.

*SessionDirectory.* The key property needs that a request past its lookup knows
the row that has its key. For `DirectoryCatchesUp` the invariant says of each
Session what row, statements in flight, pending patch and unsure fields may be;
`OrderInv` adds that values and times run in the same order, so that the guard
`last_event_at < ?` keeps a late statement out. The proofs follow values through
one lemma for each way they change.

*EventLog.* `Chain` says that the frames on the way to a page lead from its cursor
to the last event sent, each beginning where the one before it ends: whichever of
snapshot, replay batch and event a joiner got. A chain of frames that only go
`Forward` holds always and gives order and no repetition; a `Gapless` one, with the
snapshot equal to the log and the persisted row covering what was pruned, holds
until the log is unsteady and makes a page show exactly the prefix.

*AgentCalls.* A call is on its way to the object once, on the socket or in the
outbox, and has no row while it is; from then on the row decides what a reply on
the wire, a card, a form and the waiting call may say. While no socket broke, the
outcome of a decided question that is waited for is on the wire (`WayInv`), and the
turn of the active run is the last one the sandbox has, with no report of an
earlier one behind it. Pull requests have the same invariant with GitHub's record
in the place of the row.

*Accounts.* Between a check and its write a member stays a member, and a row
keeps its email, role and sender; the writes are guarded (`INSERT … WHERE`,
`UPDATE … WHERE`) or lie in one batch, which does the rest.

*SlackThreads.* The link is inserted once and never names another Session; a
call about to submit holds the Session of the link, because one that lost the
race to insert it releases its event and submits nothing. While a call works on
a mention it alone holds the dedupe row (`DeliveryInv`), and a release follows only
what was not submitted, but for a lost answer. `CoverInv` says that whatever the
link marks as handled is in the context of some request or is a message the page
does not reach.

*RunCards.* A chunk is *done with* when it is in the thread or somebody left a
claim of it behind; it stays so. A delivery has done with the chunks before its
own and holds the claim of what it posts, of which every answer got lost.

*WorkspaceCache.* A marker travels with the files beside it, through backups,
rows and restores of other Sessions. `MarkerInv` therefore speaks of every
workspace there is: in a sandbox, being backed up, or in a row. In each a marker is
that of the dependencies beside it, unless the agent of a run replaced them or
they are not there. `ReadyMeansInstalled` then follows where `setupRepository`
skips an install. It holds because the marker is removed before an install begins
and put down after it, so a failure half-way leaves none; in the other order
`MarkerInv` fails. For the rows, `Accounted` says that the backup in flight belongs
to the attempt counted last and has made no row yet; a restart forgets the backup,
never the count.

*Previews.* `ProcessInv` says that a server that was not told to end is the one
the manager tracks, that a manager that is starting has somebody waiting for the
port of that very child, and that one that waits for the old child to go has
already let go of it. The URL is behind the manager by the messages on their way
and the token hashes that are awaited. `PromiseInv` speaks of the app the URL will
come to when all of them have arrived, in order: it is the one that runs, or a
command, a start or a failure at work has yet to say what became of it. With
nothing on its way this is `ActivePreviewRuns`. A `preview_ready` whose hash
finishes after a later message was handled breaks the order (`overtaken`).

*PlanReview.* `OrderInv` says that revisions are frozen in the order of runs and
rounds, never ahead of the current one, and threads only on frozen ones; so the
view of a page can follow the tables event by event (`ViewInv`) even when a late plan
replaces a row. For the feedback, `Attentive` says that a plan is asked for once,
after the revision it starts from was locked; that a locked revision stays so,
and what was asked for says all its open threads with the replies they have
(`BriefsAreComplete`); and that only the next revision consumes them. A late plan
unlocks a revision whose brief has been sent, hence *until*.

Each of these invariants was checked by TLC on the instance of its run before it
was proved.

*Model-checked only.* Liveness and whatever needs ENABLED: `RunMakesProgress`,
`RequestIsAnswered`, `NotedResponseIsPosted`, `JobFinishes`, `StartingEnds` and the
other temporal properties under fairness. Every invariant and every action property
that a run checks is also a theorem. No module uses RECURSIVE, which the prover
cannot reason about, and no theorem rests on induction over data.

## 5. What the models contain and no property promises

Behaviours met while translating, each a step the code can take. The properties
above say where they stop short of them.

*Runs.*

- `retrying` has no edge to `ready` (`packages/shared/src/session.ts:36`), so an
  abort there is refused, although `W/orchestrator/cli-handlers.ts:279` calls
  abort "an always-available kill switch".
- `plan_ready` carries no run id (`W/orchestrator/sandbox-handlers.ts:440`): the
  late plan of an aborted run replaces that of the run under review, and an
  approval ships it (`TakenForAnother`). It also replaces the row of the revision,
  unlocks it and may lose feedback (`PlanIsLate`), against
  `D/2026-06-12-collaborative-plan-annotation-design.md:247`.
- The late result of an aborted run settles the active one. If that is a pull
  request and the active run is in `retrying`, the Session keeps a phase without a
  run (`PhaseWithoutRun`).
- A message dropped for want of a socket is not repeated: a drop may leave a run
  in `refining`, `planning`, `executing` or `creating_pr`.
- The expiry of the reconnect grace fails the active run and forgets the queue,
  whereas a lost sandbox fails the queue, too (`failSession`). A
  drop before `clone_started` sets the grace, the return in mode `initialize` does
  not clear it, and the Session fails a minute later.

*Review.*

- After a failed consolidation the revision stays locked, the review panel hides
  its footer (`plan-review-panel.tsx:133`), and the error event shows the phase
  `failed`, which hides the plan card: no page can retry or approve, though
  `D/2026-06-12-collaborative-plan-annotation-design.md:55` and `:261` promise
  both. The error of any rejected command has this effect on the phase.
- Approve and refine apply to a round their sender may not have seen. With two or
  more open threads the note of the approver is not sent to the consolidation.
- A plan with empty text is not shown as a new revision. After an executed plan
  the agent keeps the tools of execution.

*Event log and pages.*

- After an eviction the tail behind the persisted snapshot is counted but not
  folded, so later joiners miss it. A page left within the 100 ms of the chat batch loses lines its
  cursor counts. Both make the log unsteady.
- `reduceQuestions` has no case for a cancelled question: it stays open on pages.
- An entry between `message_update` and `message_end` leaves "thinking" running in
  the activity log; `tool_execution_end` may match another call of that name.

*Sandbox.*

- An eviction forgets that a pause is in flight, so a run may be sent to a sandbox
  that freezes, or wait for ever (`W/orchestrator/sandbox-session-lifecycle.ts:211`);
  one in the middle of a teardown leaves the sandbox.

*Directory and accounts.*

- `sessionDirectoryFailureUpdate` ignores `last_event_at`. A batch that committed
  and then failed makes the retry answer with a Session that was never
  initialised; a cut between batch and `init` leaves a row `initializing`. A patch
  that was given up is not written again until the field changes. After a restart
  with a clock that is behind, a late write may win.
- Two invitations of one email may be pending by a race. Revoking does not look at
  expiry.

*Workspace cache.*

- A Session may end while its Cloudflare sandbox is being backed up; the alarm
  handler waits minutes for a backup. Attempts may exceed three after restarts, and
  an insert that failed after it took effect makes a second row.
- A restored workspace that cannot be refreshed ends the Session, although
  `D/2026-06-25-dependency-artifact-cache-design.md:228` has it fall back to a clone.

*Questions and pull requests.*

- A question raised for an aborted run is cancelled by nobody and holds the main
  queue of the sandbox up to ten minutes. `handleAgentTurn` keeps the agent of the
  first turn (`I/runtime.ts:345`), so questions of later turns carry the run id of
  the first and the end of their own run does not cancel them.
- An answered row may be one the agent gave up on. A cancellation without a live
  socket is dropped. The page's `canAnswer` lacks the owner and admin fallback.
- `createDraftPullRequest` retries errors it calls permanent, because the throw is
  inside its own `try`; a pull request whose answer was lost is refused on retry
  and reported as failed. A response is sent on the socket the request came on and
  is lost if that was replaced.

*Slack.*

- The request text excludes the mention itself when its timestamp is not after
  `last_handled_message_id` (`W/integrations/slack/context.ts:44`), so it may be
  empty, against `D/2026-06-28-external-conversation-adapters-slack-v1-design.md:299`.
  The marker is set when the link is inserted, before the submission, and can go
  back. A page of 100 messages loses later ones. A cut keeps the dedupe row. First
  mentions that race leave an orphan Session. A request to a Session that is over
  is answered with success.
- The heartbeat of a card writes the row back as it was read
  (`W/integrations/slack/live-run-card.ts:163`), against
  `D/2026-08-13-slack-live-run-card-v0-design.md:186`. `question_answered` has no
  run id and never reaches a card. A crash during the delivery, or a claim whose
  release failed, leaves a chunk that is never posted (`Orphan`). A row that is
  already due is filtered out of the next alarm.

*Previews.*

- `preview_stopped` or an error that arrives while `preview_ready` waits for its
  hash leaves an active preview of a stopped server. An error about an unknown app
  revokes the URL of the running one. Rails' `bin/rails` is not on the list of
  allowed commands. A stop waits behind a start for up to two minutes.

## 6. Not modelled

Presentation (web routes and components, CLI, admin CLI, site), deployment
scripts, observability and redaction have no state the Session depends on.
Signatures and browser tokens are stateless. Chat and activity projections are
sequential functions of one event. The rendering of Slack blocks, OAuth
installation and the home tab, proxying of previews, listing of Sessions and
better-auth decide nothing the modules ask about. Providers, GitHub, D1, Slack and
the model are external: where they matter, their answers are nondeterministic,
and a call that fails may have taken effect.
