------------------------------- MODULE RunCards -------------------------------
(***************************************************************************)
(* What a Slack thread sees of an Agent Run: a status that follows its     *)
(* events, and its final response, in chunks.  LiveRunCardCoordinator      *)
(* keeps a row of live_run_presentations per run.  Every event updates the *)
(* row and tries to flush it; so does the alarm, when the row is due.  One *)
(* flush of a run is in progress at a time, and it waits for Slack while   *)
(* events go on changing the row.                                          *)
(*                                                                         *)
(* Time is "due" or "later".  One run is followed; other parts of the      *)
(* object share its alarm.  Left out: a row that becomes due while         *)
(* drainDue waits for another run.  External: Slack, and D1, whose calls may   *)
(* fail after they took effect.                                            *)
(***************************************************************************)
EXTENDS Integers

CONSTANTS
    Chunks,         \* messages the final response is rendered to
    MaxAttempts,    \* MAX_DELIVERY_ATTEMPTS
    MaxEvents,      \* bound: events of the run besides its end
    MaxCardFaults   \* bound: failed calls and restarts

ASSUME CardAssumption ==
    Chunks \in Nat \ {0} /\ MaxAttempts \in Nat \ {0} /\ MaxEvents \in Nat /\ MaxCardFaults \in Nat

VARIABLES
    cursor,     \* the events of the run so far
    shown,      \* projectExternalRunEvents of them, see Projection
    row,        \* its row
    flush,      \* the flush in progress
    alarm,      \* the alarm of the object: "none", for the "row" (not before it is
                \* due), for an "other" deadline, or "due"
    draining,   \* alarm() is running drainDue
    claims,     \* external_message_dedupe: chunks somebody has claimed
    posts,      \* how often each chunk is in the thread
    lost,       \* posts whose answer got lost
    cardFaults,
    restarts

cardVars == <<cursor, shown, row, flush, alarm, draining, claims, posts, lost, cardFaults, restarts>>
postVars == <<claims, posts, lost>>
eventVars == <<cursor, shown>>

NoPrint == -1
Pieces == 1 .. Chunks
NoRow == [status |-> "none", projected |-> 0, delivered |-> 0, print |-> NoPrint,
          pending |-> FALSE, retry |-> "never"]
NoFlush == [at |-> "idle", by |-> "nobody"]
NoText == 0

CardFault == cardFaults < MaxCardFaults /\ cardFaults' = cardFaults + 1

-----------------------------------------------------------------------------
(* The projection: text is the status line, as a number; waiting keeps it away *)

Events == {"progress", "status", "question", "question_answered", "approval", "execution"}
Immediate == Events \ {"progress", "status"}

\* applyToolEvent and applyStatus: another step, detail or phase.
Advanced(p) == [p EXCEPT !.text = @ + 1]

\* applyExternalRunEvent.  A question_answered has no run_id, so eventsForRun
\* never passes it to the projection.
Projected(p, type) ==
    CASE type = "progress" -> Advanced(p)
      [] type \in {"question", "approval"} -> [p EXCEPT !.waiting = TRUE]
      [] type = "execution" -> Advanced([p EXCEPT !.waiting = FALSE])
      [] OTHER -> p

\* slackThreadStatus and its fingerprint, "" when there is none.
Terminal == shown.ended
Status == IF shown.waiting \/ Terminal THEN NoText ELSE shown.text

-----------------------------------------------------------------------------
(* flush, up to what it waits for *)

Stops(r) == row' = r /\ flush' = NoFlush

\* deliverFinalResponse.
DeliversFinal(r, by) ==
    /\ row' = r
    /\ flush' = IF r.pending THEN [at |-> "claim", chunk |-> 1, attempt |-> 1, by |-> by] ELSE NoFlush

Seen(r) == [r EXCEPT !.delivered = r.projected, !.print = NoText, !.retry = "never"]
IsDue(r) == r.retry # "later"

Flushes(r, by) ==
    IF flush # NoFlush \/ ~IsDue(r) THEN row' = r /\ UNCHANGED flush
    ELSE IF r.status = "uncertain" THEN
        LET off == [r EXCEPT !.retry = "never"]
        IN  IF Terminal' THEN DeliversFinal(off, by) ELSE Stops(off)
    ELSE IF Terminal' THEN DeliversFinal(Seen(r), by)
    ELSE IF Status' = NoText THEN Stops(Seen(r))
    ELSE /\ row' = r
         /\ flush' = [at |-> IF r.delivered >= r.projected /\ r.print = Status' THEN "heartbeat" ELSE "status",
                      read |-> r, text |-> Status', by |-> by]

-----------------------------------------------------------------------------
(* Events: appendAndBroadcast, onEvent *)

\* The row with the event, and the alarm set for it.
Upserted(type, pending) ==
        [row EXCEPT !.status = IF @ = "none" THEN "in_progress" ELSE @, !.projected = cursor', !.pending = @ \/ pending,
                    !.retry = IF type \in Immediate \cup {"request", "end"} THEN "due" ELSE "later"]
OnEvent(type, pending) ==
    /\ alarm' = "row"
    /\ Flushes(Upserted(type, pending), "event")
    /\ UNCHANGED <<draining, postVars, cardFaults, restarts>>

Requested ==
    /\ cursor = 0 /\ cursor' = 1
    /\ shown' = [text |-> 1, waiting |-> FALSE, ended |-> FALSE]
    /\ OnEvent("request", FALSE)

\* A question names its run even after its end; other events without a run_id
\* go to the active run, which a failed Session keeps.  Such an event makes a
\* row that was deleted again, and what an ended run shows stays as it is.
Late == {"question", "question_answered", "progress", "status"}
Happens(type) ==
    /\ cursor \in 1 .. MaxEvents
    /\ Terminal => type \in Late
    /\ cursor' = cursor + 1
    /\ shown' = IF Terminal THEN shown ELSE Projected(shown, type)
    /\ OnEvent(type, FALSE)

\* The run ends: completeActiveRun appends agent_response and
\* agent_run_completed in one step, or agent_run_failed alone.
RunEnds ==
    /\ cursor > 0 /\ ~Terminal
    /\ cursor' = cursor + 1
    /\ shown' = [shown EXCEPT !.ended = TRUE, !.waiting = FALSE]
    /\ OnEvent("end", TRUE)

-----------------------------------------------------------------------------
(* The rest of flush, once Slack has answered *)

Unscheduled(r) == [r EXCEPT !.retry = "never"]
Later(r) == [r EXCEPT !.retry = "later"]
Current == row
AsRead == flush.read

\* A status was set: the row as it is now, which an event may have changed.
\* The flush ends, since the row was just made due later.
StatusIsSet ==
    /\ flush.at = "status"
    /\ Stops(Later([Current EXCEPT !.status = "in_progress", !.print = flush.text,
                                   !.delivered = IF @ > AsRead.projected THEN @ ELSE AsRead.projected]))
    /\ alarm' = "row"
    /\ UNCHANGED <<eventVars, draining, postVars, cardFaults, restarts>>

\* A heartbeat was set: the row as it was read before.
HeartbeatIsSet ==
    /\ flush.at = "heartbeat"
    /\ Stops(Later(AsRead)) /\ alarm' = "row"
    /\ UNCHANGED <<eventVars, draining, postVars, cardFaults, restarts>>

\* deliverStatus failed for now or for good; the row as it was read before.
TriesLater == Stops(Later(AsRead)) /\ alarm' = "row"
GivesUp == Stops([AsRead EXCEPT !.status = "uncertain", !.retry = "never"]) /\ UNCHANGED alarm
StatusFails ==
    /\ flush.at \in {"status", "heartbeat"} /\ CardFault
    /\ TriesLater \/ GivesUp
    /\ UNCHANGED <<eventVars, draining, postVars, restarts>>

\* The lookup of the destination throws: onEvent logs it, the alarm is repeated.
LookupThrows ==
    /\ flush.at \in {"status", "heartbeat"} /\ CardFault /\ Stops(row)
    /\ IF flush.by = "alarm"
         THEN draining /\ draining' = FALSE /\ alarm' = "due"
         ELSE UNCHANGED <<draining, alarm>>
    /\ UNCHANGED <<eventVars, postVars, restarts>>

-----------------------------------------------------------------------------
(* notifyExternalConversation *)

To(at) == flush' = [flush EXCEPT !.at = at]
Finishes == row' = NoRow /\ flush' = NoFlush
Forgotten == Finishes /\ UNCHANGED alarm
NotDelivered == Stops(Later(row)) /\ alarm' = "row"

\* The chunk is done with; the row goes with the last.
NextChunk ==
    /\ IF flush.chunk = Chunks THEN Finishes
       ELSE flush' = [flush EXCEPT !.at = "claim", !.chunk = @ + 1, !.attempt = 1] /\ UNCHANGED row
    /\ UNCHANGED alarm

\* INSERT OR IGNORE of the claim: a chunk that somebody has claimed is passed
\* over; an exception, even of an insert that took effect, is not delivered.
NeverClaimed(c) == FALSE
IsClaimed(c) == c \in claims
Claim ==
    /\ flush.at = "claim"
    /\ \/ IsClaimed(flush.chunk) /\ NextChunk /\ UNCHANGED <<claims, cardFaults>>
       \/ /\ ~IsClaimed(flush.chunk) /\ claims' = claims \cup {flush.chunk}
          /\ To("post") /\ UNCHANGED <<row, alarm, cardFaults>>
       \/ /\ CardFault /\ claims' \in {claims, claims \cup {flush.chunk}} /\ NotDelivered
    /\ UNCHANGED <<eventVars, draining, posts, lost, restarts>>

\* postSlackMessageWithRetry: an attempt that fails may have posted the message.
InThread == posts' = [posts EXCEPT ![flush.chunk] = @ + 1]
Post ==
    /\ flush.at = "post"
    /\ \/ InThread /\ NextChunk /\ UNCHANGED <<lost, cardFaults>>
       \/ /\ CardFault
          /\ \/ UNCHANGED <<posts, lost>>
             \/ InThread /\ lost' = lost + 1
          /\ \/ flush.attempt < MaxAttempts /\ flush' = [flush EXCEPT !.attempt = @ + 1]
             \/ To("release")
          /\ UNCHANGED <<row, alarm>>
    /\ UNCHANGED <<eventVars, draining, claims, restarts>>

\* The claim is given back, unless that fails too.
Release ==
    /\ flush.at = "release" /\ NotDelivered
    /\ \/ claims' = claims \ {flush.chunk} /\ UNCHANGED cardFaults
       \/ CardFault /\ UNCHANGED claims
    /\ UNCHANGED <<eventVars, draining, posts, lost, restarts>>

-----------------------------------------------------------------------------
(* The alarm, and restarts *)

RowIsDue ==
    /\ draining => flush.by = "alarm"
    /\ row.retry = "later" /\ row' = [row EXCEPT !.retry = "due"]
    /\ UNCHANGED <<eventVars, flush, alarm, draining, postVars, cardFaults, restarts>>
AlarmIsDue ==
    /\ \/ alarm = "row" /\ row.retry # "later"
       \/ alarm = "other"
    /\ alarm' = "due"
    /\ UNCHANGED <<eventVars, row, flush, draining, postVars, cardFaults, restarts>>

\* alarm(): drainDue flushes the row if it is due.
AlarmRuns ==
    /\ alarm = "due" /\ ~draining /\ alarm' = "none" /\ draining' = TRUE
    /\ IF row.retry = "due" THEN UNCHANGED eventVars /\ Flushes(row, "alarm")
       ELSE UNCHANGED <<eventVars, row, flush>>
    /\ UNCHANGED <<postVars, cardFaults, restarts>>

\* armNextAlarm takes the earliest deadline that is still to come; other parts
\* of the object may have one.
AlarmArms ==
    /\ draining /\ draining' = FALSE
    /\ flush.by # "alarm"
    /\ alarm' \in {"other", IF row.retry = "later" THEN "row" ELSE alarm}
    /\ UNCHANGED <<eventVars, row, flush, postVars, cardFaults, restarts>>

\* The object is evicted; calls under way may still take effect; the alarm
\* outlives it, and the constructor sets it for the row.
Restart ==
    /\ CardFault /\ restarts' = restarts + 1
    /\ flush' = NoFlush /\ draining' = FALSE
    /\ alarm' = IF row.retry # "never" THEN "row"
                ELSE IF draining THEN "due" ELSE alarm
    /\ \/ UNCHANGED postVars
       \/ /\ flush.at = "claim" /\ ~IsClaimed(flush.chunk)
          /\ claims' = claims \cup {flush.chunk} /\ UNCHANGED <<posts, lost>>
       \/ /\ flush.at = "post" /\ InThread /\ lost' = lost + 1 /\ UNCHANGED claims
    /\ UNCHANGED <<eventVars, row>>

-----------------------------------------------------------------------------
CardsInit ==
    /\ cursor = 0 /\ shown = [text |-> NoText, waiting |-> FALSE, ended |-> FALSE]
    /\ row = NoRow /\ flush = NoFlush /\ alarm = "none" /\ draining = FALSE
    /\ claims = {} /\ posts = [c \in Pieces |-> 0] /\ lost = 0
    /\ cardFaults = 0 /\ restarts = 0

SlackAnswers == StatusIsSet \/ HeartbeatIsSet \/ Claim \/ Post \/ Release
AlarmWorks == AlarmIsDue \/ AlarmRuns \/ AlarmArms
CardsNext ==
    \/ Requested \/ (\E type \in Events : Happens(type)) \/ RunEnds
    \/ SlackAnswers \/ StatusFails \/ LookupThrows
    \/ RowIsDue \/ AlarmWorks \/ Restart

CardsSpec == CardsInit /\ [][CardsNext]_cardVars

\* Calls are answered and time passes, however often the alarm runs meanwhile.
FairCardsSpec ==
    CardsSpec /\ WF_cardVars(SlackAnswers) /\ SF_cardVars(RowIsDue)
              /\ WF_cardVars(AlarmIsDue) /\ WF_cardVars(AlarmRuns) /\ WF_cardVars(AlarmArms)

-----------------------------------------------------------------------------
(* Properties *)

AllPosted == \A c \in Pieces : posts[c] > 0

\* A claim that a failed call or a restart left behind with no message.
Orphan(c) ==
    /\ c \in claims /\ posts[c] = 0
    /\ ~(flush # NoFlush /\ flush.at \in {"post", "release"} /\ flush.chunk = c)
Orphans == {c \in Pieces : Orphan(c)}

\* A chunk is posted twice only if Slack's answer to the first got lost, and
\* after the chunks before it; nothing is posted before the run ended.
ChunksArriveOnce ==
    /\ \A c \in Pieces :
        /\ posts[c] <= 1 + lost
        /\ posts[c] > 0 => Terminal
        /\ posts[c] > 0 => \A b \in 1 .. c - 1 : posts[b] > 0 \/ Orphan(b)

\* The row of a run that ended is kept until its response is in the thread.
RowIsKeptUntilPosted ==
    Terminal /\ row = NoRow => \A c \in Pieces : posts[c] > 0 \/ Orphan(c)

\* A response that is still noted when the last flush of the run is over, with
\* an alarm set, is posted, whatever Slack and D1 failed before.  (The alarm may
\* be missing: one that ran while a flush was waiting found nothing to do and
\* armed nothing for a row already due, and then that flush threw.)
NotedResponseIsPosted ==
    Terminal /\ flush = NoFlush /\ row.pending /\ alarm # "none" /\ restarts = 0
        ~> AllPosted \/ Orphans # {} \/ restarts > 0
=============================================================================
