------------------------------ MODULE AgentCalls -----------------------------
(***************************************************************************)
(* The two calls an agent makes to the object in the middle of a turn,     *)
(* which blocks until an answer comes or the call times out.               *)
(*   - A question: the object keeps a row; browsers answer under the       *)
(*     question's policy, Slack under its own, with a button at once or a  *)
(*     text through a modal.                                               *)
(*   - A pull request: the sandbox pushes a branch, the object has GitHub  *)
(*     open the request.                                                   *)
(*                                                                         *)
(* The socket of sandbox and object may break without either noticing.     *)
(* Every run here is an agent turn, and so uses the agent of the turns     *)
(* before it.  How runs are queued is SessionRuns, how the Slack message   *)
(* is posted is RunCards: here a run starts and a message appears in one   *)
(* step.  External: the agent, GitHub and the participants.                *)
(***************************************************************************)
EXTENDS Integers, FiniteSets, SequencesExt

CONSTANTS
    Runs,           \* runs of the Session, 1 .. n
    Asking,         \* bound: those that ask, once at most; the number of the run
                    \* names its question
    Pulls, Pulling, \* bound: pull requests asked for, 1 .. n, and by which runs
    Attempts,       \* how often GitHub is asked: PR_RETRY_DELAYS_MS
    Creator, Member, Slack,     \* who may answer
    Nobody,
    Shapes,         \* what questions let one answer: sets of Selections
    MaxFaults       \* bound: broken sockets and lost answers of calls

Web == {Creator, Member}
People == Web \cup {Slack}
Policies == {"decider", "anyone", "assigned"}
Selections == {"options", "text"}

ASSUME QuestionAssumption ==
    /\ Cardinality(People) = 3 /\ Nobody \notin People
    /\ Runs \subseteq Nat \ {0} /\ Asking \subseteq Runs /\ MaxFaults \in Nat
    /\ Pulls \subseteq Nat \ {0} /\ Pulling \subseteq Runs /\ Attempts \in Nat \ {0}
    /\ Shapes \subseteq SUBSET Selections

VARIABLES
    active,     \* meta.active_run, 0 for none
    over,       \* runs that are over
    closed,   \* whether the Session is
    work,       \* mainQueue: the turns the sandbox has, the first one runs
    agent,      \* the run whose turn started the agent, 0 without one
    asks,       \* askQuestionRequests, with how each ended
    pulls,      \* pullRequestRequests, with how each ended
    calls,      \* calls of GitHub: the request, the attempt and whether the
                \* socket it came over is still the one
    opened,     \* the pull requests GitHub has, and whether the object heard
    rows,       \* the table questions
    toObject, toSandbox,    \* messages on the socket
    outbox,     \* those the sandbox keeps while it has no socket
    wire,       \* whether the socket carries anything
    live,       \* liveSandboxSockets: whether the object thinks so
    open,       \* readyState: whether the sandbox does
    cards,      \* the message of each question in Slack
    modals,     \* questions whose text field somebody has open
    updates,    \* updateSlackMessage to come
    faults

vars == <<active, over, closed, work, agent, asks, pulls, calls, opened, rows,
          toObject, toSandbox, outbox, wire, live, open, cards, modals, updates, faults>>
runVars == <<active, over, closed>>
pullVars == <<pulls, calls, opened>>
sandboxVars == <<work, agent, asks>>
socketVars == <<wire, live, open>>
slackVars == <<cards, modals, updates>>

NoAnswer == [by |-> Nobody, chosen |-> "nothing"]
NoRow == [run |-> 0, status |-> "none", policy |-> "decider", assigned |-> Nobody,
          shape |-> CHOOSE s \in Shapes : TRUE, answer |-> NoAnswer, late |-> FALSE]
Unasked == [state |-> "unasked", answer |-> NoAnswer]

Fault == faults < MaxFaults /\ faults' = faults + 1

-----------------------------------------------------------------------------
(* The socket *)

\* sendToSandbox, dropped without a live socket; what goes on a broken one is lost.
Sends(msgs) == toSandbox' = IF live /\ wire THEN toSandbox \o msgs ELSE toSandbox

\* ReconnectingWebSocketClient.send.
Reports(msg) ==
    /\ toObject' = IF open /\ wire THEN Append(toObject, msg) ELSE toObject
    /\ outbox' = IF open THEN outbox ELSE Append(outbox, msg)

\* What is under way is lost with the wire; a call of GitHub goes on, but its
\* answer is sent on the socket that asked for it.
CutOff == {[c EXCEPT !.here = FALSE] : c \in calls}
Breaks ==
    /\ wire /\ Fault
    /\ wire' = FALSE /\ toObject' = <<>> /\ toSandbox' = <<>> /\ calls' = CutOff
    /\ UNCHANGED <<runVars, sandboxVars, pulls, opened, rows, outbox, live, open, slackVars>>

\* close in the object; close or a missing pong in the sandbox.
ObjectNotices ==
    /\ ~wire /\ live /\ live' = FALSE
    /\ UNCHANGED <<runVars, sandboxVars, pullVars, rows, toObject, toSandbox, outbox, wire, open, slackVars, faults>>
SandboxNotices ==
    /\ ~wire /\ open /\ open' = FALSE
    /\ UNCHANGED <<runVars, sandboxVars, pullVars, rows, toObject, toSandbox, outbox, wire, live, slackVars, faults>>

\* The next socket opens: flushOutbox.
Reconnects ==
    /\ ~open /\ ~closed
    /\ wire' = TRUE /\ live' = TRUE /\ open' = TRUE
    /\ toObject' = outbox /\ outbox' = <<>>
    /\ UNCHANGED <<runVars, sandboxVars, pullVars, rows, toSandbox, slackVars, faults>>

-----------------------------------------------------------------------------
(* Runs *)

\* A run starts: its turn is sent.
Starts(r) ==
    /\ active = 0 /\ ~closed /\ live
    /\ r \in Runs \ over /\ \A q \in Runs \ over : r <= q
    /\ active' = r /\ Sends(<<[type |-> "turn", run |-> r]>>)
    /\ UNCHANGED <<over, closed, sandboxVars, pullVars, rows, toObject, outbox, socketVars, slackVars, faults>>

\* cancelOpenQuestions.
NoneOf(r) == {}
OpenOf(r) == {q \in Asking : rows[q].run = r /\ rows[q].status = "open"}
Cancelled(r) == [q \in Asking |-> IF q \in OpenOf(r) THEN [rows[q] EXCEPT !.status = "cancelled"] ELSE rows[q]]
Unsaid(r) == <<>>
Cancellations(r) ==
    LET ids == SetToSeq(OpenOf(r))
    IN  [i \in DOMAIN ids |-> [type |-> "cancel", id |-> ids[i]]]

Finished(r) == active' = 0 /\ over' = over \cup {r}

\* handleAbort, and a failure the object itself finds: the Session goes on, and
\* so does the sandbox.
Aborts ==
    /\ active # 0 /\ Finished(active) /\ UNCHANGED closed
    /\ rows' = Cancelled(active) /\ Sends(Cancellations(active))
    /\ UNCHANGED <<sandboxVars, pullVars, toObject, outbox, socketVars, slackVars, faults>>

\* Stop, a time limit, or the end of the reconnect grace: the sandbox is gone.
SessionEnds ==
    /\ ~closed /\ closed' = TRUE
    /\ active' = 0 /\ over' = over \cup ({active} \ {0})
    /\ rows' = Cancelled(active)
    /\ wire' = FALSE /\ live' = FALSE /\ open' = FALSE
    /\ toObject' = <<>> /\ toSandbox' = <<>> /\ outbox' = <<>>
    /\ work' = <<>> /\ agent' = 0 /\ calls' = CutOff
    /\ asks' = [q \in Asking |-> IF asks[q].state = "waiting" THEN [asks[q] EXCEPT !.state = "killed"] ELSE asks[q]]
    /\ pulls' = [i \in Pulls |-> IF pulls[i] = "waiting" THEN "killed" ELSE pulls[i]]
    /\ UNCHANGED <<opened, slackVars, faults>>

-----------------------------------------------------------------------------
(* The sandbox: SandboxRpcCoordinator *)

Waits(q) == asks[q].state = "waiting"
Ends(q, state, answer) == asks' = [asks EXCEPT ![q] = [state |-> state, answer |-> answer]]
Working(r) ==
    /\ work # <<>> /\ Head(work) = r
    /\ ~\E q \in Asking : Waits(q)
    /\ ~\E i \in Pulls : pulls[i] = "waiting"

\* handleAgentTurn keeps the agent of an earlier turn, and with it that turn's
\* askQuestion, which asks in the name of that turn's run.
AgentOf(r) == IF agent = 0 THEN r ELSE agent

\* askQuestion.
Asks(r, policy, shape) ==
    /\ Working(r) /\ asks[r].state = "unasked"
    /\ agent' = AgentOf(r) /\ Ends(r, "waiting", NoAnswer)
    /\ Reports([type |-> "ask", id |-> r, run |-> AgentOf(r), policy |-> policy, shape |-> shape])
    /\ UNCHANGED <<runVars, work, pullVars, rows, toSandbox, socketVars, slackVars, faults>>

\* createPullRequest, in the name of activeRunId, once the branch is pushed: the
\* agent asks again after a call that failed.  One whose push fails has changed
\* nothing here.
AsksForPull(r, i) ==
    /\ Working(r) /\ pulls[i] = "unasked" /\ \A j \in 1 .. i - 1 : pulls[j] \in {"failed", "timedOut"}
    /\ agent' = AgentOf(r) /\ pulls' = [pulls EXCEPT ![i] = "waiting"]
    /\ Reports([type |-> "pull", id |-> i, run |-> r])
    /\ UNCHANGED <<runVars, work, asks, calls, opened, rows, toSandbox, socketVars, slackVars, faults>>

TimesOut(q) ==
    /\ Waits(q) /\ Ends(q, "timedOut", NoAnswer)
    /\ UNCHANGED <<runVars, work, agent, pullVars, rows, toObject, toSandbox, outbox, socketVars, slackVars, faults>>
PullTimesOut(i) ==
    /\ pulls[i] = "waiting" /\ pulls' = [pulls EXCEPT ![i] = "timedOut"]
    /\ UNCHANGED <<runVars, sandboxVars, calls, opened, rows, toObject, toSandbox, outbox, socketVars, slackVars, faults>>

\* The turn ends, well or not; a failure resets the agent.
TurnEnds(r, type) ==
    /\ Working(r) /\ work' = Tail(work)
    /\ agent' = IF type = "failed" THEN 0 ELSE AgentOf(r)
    /\ Reports([type |-> type, run |-> r])
    /\ UNCHANGED <<runVars, asks, pullVars, rows, toSandbox, socketVars, slackVars, faults>>

\* handleAskQuestionResponse, handleAskQuestionCancelled and
\* handleCreatePRResponse find the call that waits, if it still does.
Resolved(msg) ==
    IF ~Waits(msg.id) THEN UNCHANGED asks
    ELSE IF msg.type = "answer" THEN Ends(msg.id, "told", msg.answer)
    ELSE Ends(msg.id, "cancelled", NoAnswer)
AllPulls(msg) == {i \in Pulls : pulls[i] = "waiting"}
PullOf(msg) == {i \in {msg.id} : pulls[i] = "waiting"}
PullResolved(msg) ==
    pulls' = [i \in Pulls |-> IF i \in PullOf(msg) THEN IF msg.url THEN "told" ELSE "failed" ELSE pulls[i]]

\* A turn joins the main queue, what a call waits for does not.
SandboxReceives ==
    /\ toSandbox # <<>> /\ toSandbox' = Tail(toSandbox)
    /\ LET msg == Head(toSandbox) IN
       \/ msg.type = "turn" /\ work' = Append(work, msg.run) /\ UNCHANGED <<asks, pulls>>
       \/ msg.type \in {"answer", "cancel"} /\ Resolved(msg) /\ UNCHANGED <<work, pulls>>
       \/ msg.type = "pulled" /\ PullResolved(msg) /\ UNCHANGED <<work, asks>>
    /\ UNCHANGED <<runVars, agent, calls, opened, rows, toObject, outbox, socketVars, slackVars, faults>>

-----------------------------------------------------------------------------
(* The object *)

\* handleAskQuestionRequest looks at no run: a question of one that is over is
\* raised too ("late").
Raised(msg) ==
    rows' = [rows EXCEPT ![msg.id] =
        [run |-> msg.run, status |-> "open", policy |-> msg.policy, shape |-> msg.shape, answer |-> NoAnswer,
         assigned |-> IF msg.policy = "assigned" THEN Member ELSE Nobody, late |-> msg.run \in over]]

\* handleCreatePullRequestRequest up to its await of GitHub.
PullAsked(msg) ==
    IF msg.run = active
      THEN calls' = calls \cup {[id |-> msg.id, attempt |-> 1, here |-> TRUE]} /\ UNCHANGED toSandbox
      ELSE Sends(<<[type |-> "pulled", id |-> msg.id, url |-> FALSE]>>) /\ UNCHANGED calls

IsOutcome(msg) == msg.type \in {"completed", "failed"}
ObjectReceives ==
    /\ toObject # <<>> /\ toObject' = Tail(toObject)
    /\ LET msg == Head(toObject) IN
       \/ msg.type = "ask" /\ Raised(msg) /\ UNCHANGED <<runVars, calls, toSandbox>>
       \/ msg.type = "pull" /\ PullAsked(msg) /\ UNCHANGED <<runVars, rows>>
       \* handleSandboxAgentTurnComplete cancels nothing, handleSandboxAgentTurnFailed does.
       \/ /\ IsOutcome(msg) /\ msg.run = active /\ Finished(active) /\ UNCHANGED <<closed, calls>>
          /\ \/ msg.type = "completed" /\ UNCHANGED <<rows, toSandbox>>
             \/ /\ msg.type = "failed"
                /\ rows' = Cancelled(active) /\ Sends(Cancellations(active))
       \/ IsOutcome(msg) /\ msg.run # active /\ UNCHANGED <<runVars, calls, rows, toSandbox>>
    /\ UNCHANGED <<sandboxVars, pulls, opened, outbox, socketVars, slackVars, faults>>

\* isDecider, canAnswerQuestion.
IsDecider(p) == p = Creator
CanAnswer(p, row) ==
    CASE row.policy = "anyone" -> TRUE
      [] row.policy = "assigned" -> p = row.assigned
      [] row.policy = "decider" -> IsDecider(p)

\* handleQuestionAssign.
Assigns(p, q, to) ==
    /\ rows[q].status = "open" /\ IsDecider(p)
    /\ rows' = [rows EXCEPT ![q].policy = "assigned", ![q].assigned = to]
    /\ UNCHANGED <<runVars, sandboxVars, pullVars, toObject, toSandbox, outbox, socketVars, slackVars, faults>>

\* validateSelection.
Valid(chosen, shape) == chosen \in shape

\* applyQuestionAnswer, once the row has been found.
IsKnown(q) == rows[q].status # "none"
IsOpen(q) == rows[q].status = "open"
Accepts(p, q, chosen) ==
    /\ IsOpen(q) /\ live /\ Valid(chosen, rows[q].shape)
    /\ LET answer == [by |-> p, chosen |-> chosen] IN
       /\ rows' = [rows EXCEPT ![q].status = "answered", ![q].answer = answer]
       /\ Sends(<<[type |-> "answer", id |-> q, answer |-> answer]>>)

\* handleQuestionAnswer, from a browser.
WebAnswers(p, q, chosen) ==
    /\ CanAnswer(p, rows[q]) /\ Accepts(p, q, chosen)
    /\ UNCHANGED <<runVars, sandboxVars, pullVars, toObject, outbox, socketVars, slackVars, faults>>

-----------------------------------------------------------------------------
(* GitHub: createDraftPullRequest *)

Replies(c, url) ==
    /\ calls' = calls \ {c}
    /\ toSandbox' = IF c.here THEN Append(toSandbox, [type |-> "pulled", id |-> c.id, url |-> url]) ELSE toSandbox

\* Every failure is tried again, the one of a request that GitHub has opened and
\* whose answer was lost too: it is refused from then on.
TriesAgain(c) ==
    IF c.attempt < Attempts
      THEN calls' = (calls \ {c}) \cup {[c EXCEPT !.attempt = @ + 1]} /\ UNCHANGED toSandbox
      ELSE Replies(c, FALSE)

GitHubAnswers(c) ==
    /\ c \in calls
    /\ \/ /\ opened[c.id] = "no"
          /\ \/ opened' = [opened EXCEPT ![c.id] = "heard"] /\ Replies(c, TRUE) /\ UNCHANGED faults
             \/ opened' = [opened EXCEPT ![c.id] = "unheard"] /\ TriesAgain(c) /\ Fault
       \/ TriesAgain(c) /\ UNCHANGED <<opened, faults>>
    /\ UNCHANGED <<runVars, sandboxVars, pulls, rows, toObject, outbox, socketVars, slackVars>>

-----------------------------------------------------------------------------
(* Slack *)

\* The message of the question appears in the thread.
CardAppears(q) ==
    /\ rows[q].status # "none" /\ cards[q].shows = "nothing"
    /\ cards' = [cards EXCEPT ![q].shows = "controls"]
    /\ UNCHANGED <<runVars, sandboxVars, pullVars, rows, toObject, toSandbox, outbox, socketVars, modals, updates, faults>>

\* processSlackFreeformOpenAction: freeformQuestionForIntegration lets it open.
HasControls(q) == cards[q].shows = "controls"
TakesText(q) == IsOpen(q) /\ "text" \in rows[q].shape
Opens(q) == HasControls(q) /\ q \notin modals
ModalOpens(q) ==
    /\ Opens(q) /\ TakesText(q)
    /\ modals' = modals \cup {q}
    /\ UNCHANGED <<runVars, sandboxVars, pullVars, rows, toObject, toSandbox, outbox, socketVars, cards, updates, faults>>

\* answerQuestionFromIntegration, whose answer may be lost.  An earlier answer
\* is passed on for the update (existingAnswer); a question that is not open, or
\* is on a dead socket, is refused.
Heard(q, answer) ==
    \/ updates' = updates \cup {[question |-> q, answer |-> answer]} /\ UNCHANGED faults
    \/ Fault /\ UNCHANGED updates
SlackAnswers(q, chosen) ==
    \/ Accepts(Slack, q, chosen) /\ Heard(q, [by |-> Slack, chosen |-> chosen])
    \/ /\ rows[q].status = "answered" /\ Heard(q, rows[q].answer)
       /\ UNCHANGED <<rows, toSandbox>>
\* processSlackQuestionAction; a refusal changes nothing.
ButtonIsPressed(q) ==
    /\ HasControls(q) /\ SlackAnswers(q, "options")
    /\ UNCHANGED <<runVars, sandboxVars, pullVars, toObject, outbox, socketVars, cards, modals>>

\* parseSlackFreeformSubmission drops a blank text; a refusal changes nothing
\* either.
Ignored == UNCHANGED <<rows, toSandbox, updates, faults>>

\* processSlackFreeformSubmission: Slack has closed the modal.
TextIsSubmitted(q) ==
    /\ q \in modals /\ modals' = modals \ {q}
    /\ SlackAnswers(q, "text") \/ Ignored
    /\ UNCHANGED <<runVars, sandboxVars, pullVars, toObject, outbox, socketVars, cards>>

\* updateSlackMessage, whose failure is only logged.
CardIsUpdated(u) ==
    /\ u \in updates /\ updates' = updates \ {u}
    /\ \/ cards' = [cards EXCEPT ![u.question] = [shows |-> "answer", answer |-> u.answer]]
          /\ UNCHANGED faults
       \/ Fault /\ UNCHANGED cards
    /\ UNCHANGED <<runVars, sandboxVars, pullVars, rows, toObject, toSandbox, outbox, socketVars, modals>>

-----------------------------------------------------------------------------
Init ==
    /\ active = 0 /\ over = {} /\ closed = FALSE /\ work = <<>>
    /\ agent = 0 /\ pulls = [i \in Pulls |-> "unasked"]
    /\ calls = {} /\ opened = [i \in Pulls |-> "no"]
    /\ asks = [q \in Asking |-> Unasked] /\ rows = [q \in Asking |-> NoRow]
    /\ toObject = <<>> /\ toSandbox = <<>> /\ outbox = <<>>
    /\ wire = TRUE /\ live = TRUE /\ open = TRUE
    /\ cards = [q \in Asking |-> [shows |-> "nothing", answer |-> NoAnswer]]
    /\ modals = {} /\ updates = {} /\ faults = 0

Delivers == SandboxReceives \/ ObjectReceives
SocketRecovers == ObjectNotices \/ SandboxNotices \/ Reconnects
TurnsEnd == \E r \in Runs, type \in {"completed", "failed"} : TurnEnds(r, type)
Next ==
    \/ Breaks \/ SocketRecovers \/ Delivers \/ Aborts \/ SessionEnds \/ TurnsEnd
    \/ \E r \in Runs : Starts(r)
    \/ \E q \in Asking :
        \/ TimesOut(q) \/ CardAppears(q) \/ ModalOpens(q)
        \/ \E policy \in Policies, shape \in Shapes : Asks(q, policy, shape)
        \/ \E p \in Web : \/ \E to \in Web : Assigns(p, q, to)
                          \/ \E chosen \in Selections : WebAnswers(p, q, chosen)
        \/ ButtonIsPressed(q) \/ TextIsSubmitted(q)
    \/ \E u \in updates : CardIsUpdated(u)
    \/ \E i \in Pulls : PullTimesOut(i) \/ \E r \in Pulling : AsksForPull(r, i)
    \/ \E c \in calls : GitHubAnswers(c)

Spec == Init /\ [][Next]_vars

-----------------------------------------------------------------------------
(* Safety *)

\* The first valid answer wins, wherever it comes from: what the agent was told
\* and what the message in Slack shows is the answer the row accepted; from a
\* browser it came from somebody the policy lets answer.
AcceptedAnswerStands ==
    \A q \in Asking :
        /\ asks[q].state = "told" =>
               rows[q].status = "answered" /\ asks[q].answer = rows[q].answer
        /\ cards[q].shows = "answer" => cards[q].answer = rows[q].answer
        /\ rows[q].status = "answered" =>
               /\ Valid(rows[q].answer.chosen, rows[q].shape)
               /\ rows[q].answer.by \in Web => CanAnswer(rows[q].answer.by, rows[q])

\* A run leaves no question open behind it, with two exceptions the code does
\* not see: one raised in the name of a run that is over
\* (handleAskQuestionRequest), which every question is whose agent an earlier
\* turn started, and one whose agent gave up waiting.
OverRunsAskNothing ==
    \A q \in Asking :
        rows[q].status = "open" /\ rows[q].run \in over =>
            rows[q].late \/ asks[q].state \in {"timedOut", "killed"}

\* While the agent waits for a question that was answered or cancelled, that is
\* on its way to it, or a socket has broken since and nothing sends it again.
OutcomeIsOnItsWay ==
    \A q \in Asking :
        Waits(q) /\ rows[q].status \in {"answered", "cancelled"} /\ faults = 0 =>
            \E i \in DOMAIN toSandbox :
                /\ toSandbox[i].type = IF rows[q].status = "answered" THEN "answer" ELSE "cancel"
                /\ toSandbox[i].id = q

\* The agent is told of its own pull request, and told that it failed only if
\* there is none or GitHub's answer was lost: never of an earlier call that it
\* gave up (handleCreatePRResponse, createDraftPullRequest).
PullRequestIsOwn ==
    \A i \in Pulls :
        /\ pulls[i] = "told" => opened[i] = "heard"
        /\ pulls[i] = "failed" => opened[i] # "heard"
=============================================================================
