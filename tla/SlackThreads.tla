----------------------------- MODULE SlackThreads -----------------------------
(***************************************************************************)
(* From a mention in a Slack thread to an Agent Request: handleSlackEvent. *)
(* One thread and its channel are followed.  Slack delivers the event of a *)
(* mention again when it does not hear 200 in time, each delivery is a     *)
(* request of its own, and requests run side by side, awaiting D1, Slack   *)
(* and the Session at every step.  An event that was inserted in           *)
(* external_message_dedupe is dropped when it comes again, until a failure *)
(* releases it.                                                            *)
(*                                                                         *)
(* Messages are numbered by their timestamp, Sessions by the call that     *)
(* created them.  External: Slack, and D1 and the RPCs, which may fail     *)
(* after they took effect.  Left out: signatures, the upserts of           *)
(* integration, channel and actor, which decide nothing, the wording of    *)
(* the request and its limit of 20000 characters.                          *)
(***************************************************************************)
EXTENDS Integers, Sequences, FiniteSets, Functions

CONSTANTS
    PageSize,       \* the limit of conversations.replies
    MaxMessages,    \* bound: messages in the thread
    MaxRetries,     \* bound: deliveries again, of all events
    MaxFaults       \* bound: failed and cut calls

ASSUME ThreadAssumption ==
    /\ PageSize \in Nat \ {0} /\ MaxMessages \in Nat
    /\ MaxRetries \in Nat /\ MaxFaults \in Nat

VARIABLES
    thread,         \* messages: a "chat", a "mention", or a mention of a "repo" too
    default,        \* the channel has a default repository
    delivered,      \* how often the event of a message was delivered
    dedupe,         \* external_message_dedupe
    link,           \* the row of external_session_links
    calls,          \* the requests under way
    submitted,      \* Agent Requests: by which call, to which Session, with what context
    replied,        \* mentions that got an answer in the thread
    faults,
    broken          \* mentions of which a call was cut, or failed at D1 or in its reply

vars == <<thread, default, delivered, dedupe, link, calls, submitted, replied, faults, broken>>
slackVars == <<thread, default, delivered>>
ends == <<replied, broken>>

Positions == 1 .. MaxMessages
Calls == Positions \X (1 .. MaxRetries + 1)
Mention(c) == c[1]
None == 0
NoSession == <<None, None>>
NoLink == [session |-> NoSession, handled |-> None]
Idle == [at |-> "idle", saw |-> NoLink, session |-> NoSession]

At(c, at) == calls[c].at = at
Goes(c, at) == calls' = [calls EXCEPT ![c].at = at]

Ended(c) == Goes(c, "done")
Replied(c) == replied' = replied \cup {Mention(c)} /\ UNCHANGED broken
Breaks(c) == faults < MaxFaults /\ faults' = faults + 1 /\ broken' = broken \cup {Mention(c)}
Fault == faults < MaxFaults /\ faults' = faults + 1

-----------------------------------------------------------------------------
(* Slack *)

Posted(message) ==
    /\ Len(thread) < MaxMessages /\ thread' = Append(thread, message)
    /\ UNCHANGED <<default, delivered, dedupe, link, calls, submitted, replied, faults, broken>>

Again(p) == IF delivered[p] > 1 THEN delivered[p] - 1 ELSE 0
Retries == FoldFunction(+, 0, [p \in Positions |-> Again(p)])

\* The filters of the handler let only mentions of the bot by somebody else pass.
MentionsBot(m) == m <= Len(thread) /\ thread[m] # "chat"

\* Slack may always have missed the answer.
Delivered(m) ==
    /\ MentionsBot(m)
    /\ delivered[m] > 0 => Retries < MaxRetries
    /\ delivered' = [delivered EXCEPT ![m] = @ + 1]
    /\ Goes(<<m, delivered'[m]>>, "dedupe")
    /\ UNCHANGED <<thread, default, dedupe, link, submitted, replied, faults, broken>>

\* handleSlackCommand.
SetsRepo == ~default /\ default' = TRUE
ClearsRepo == default /\ default' = FALSE
Command ==
    /\ SetsRepo \/ ClearsRepo
    /\ UNCHANGED <<thread, delivered, dedupe, link, calls, submitted, replied, faults, broken>>

-----------------------------------------------------------------------------
(* handleSlackEvent *)

\* INSERT OR IGNORE; a row that was there is answered with 200.
AlwaysNew(m) == TRUE
IsNew(m) == m \notin dedupe
Dedupes(c) ==
    /\ At(c, "dedupe") /\ dedupe' = dedupe \cup {Mention(c)}
    /\ IF IsNew(Mention(c)) THEN Goes(c, "read") ELSE Ended(c)
    /\ UNCHANGED <<slackVars, ends, link, submitted, faults>>

\* What conversations.replies returns: the first page, the oldest messages.
Page == {p \in Positions : p <= Len(thread) /\ p <= PageSize}
NamesRepo(m) == default \/ \E p \in Page \cup {m} : thread[p] = "repo"

\* The default repository, the link and the thread are read.
Reads(c) ==
    /\ At(c, "read")
    /\ \/ /\ link = NoLink /\ ~NamesRepo(Mention(c))
          /\ Ended(c) /\ Replied(c)
       \/ /\ link # NoLink \/ NamesRepo(Mention(c))
          /\ calls' = [calls EXCEPT ![c] = [at |-> IF link = NoLink THEN "create" ELSE "submit",
                                            saw |-> link, session |-> link.session]]
          /\ UNCHANGED ends
    /\ UNCHANGED <<slackVars, dedupe, link, submitted, faults>>

\* The thread cannot be read: the event stays handled.
ReadFails(c) ==
    /\ At(c, "read") /\ Fault
    /\ Ended(c) /\ Replied(c)
    /\ UNCHANGED <<slackVars, dedupe, link, submitted>>

\* createSession; when it fails its Session has failed too.
Creates(c) ==
    /\ At(c, "create")
    /\ calls' = [calls EXCEPT ![c].at = "link", ![c].session = c]
    /\ UNCHANGED <<slackVars, ends, dedupe, link, submitted, faults>>

\* externalSessionLinkInsert, whose primary key is the thread.
LinkOf(c) == [session |-> calls[c].session, handled |-> Mention(c)]
AnyLinkIsFree == TRUE
LinkIsFree == link = NoLink
Links(c) ==
    /\ At(c, "link")
    /\ IF LinkIsFree THEN link' = LinkOf(c) /\ Goes(c, "submit")
       ELSE UNCHANGED link /\ Goes(c, "release")
    /\ UNCHANGED <<slackVars, ends, dedupe, submitted, faults>>

\* formatSlackAgentRequest: what came after the mention handled last, up to
\* this one, which is there even when the page does not reach so far.
Slice(c) == {p \in Page \cup {Mention(c)} : p <= Mention(c) /\ p > calls[c].saw.handled}

\* submitAgentRequest: the Session accepts whatever state it is in.
Request(c, lost) == [by |-> c, to |-> calls[c].session, said |-> Slice(c), lost |-> lost]
Accepts(c, lost) == submitted' = submitted \cup {Request(c, lost)}
Submits(c) ==
    /\ At(c, "submit") /\ Accepts(c, FALSE)
    /\ IF calls[c].saw = NoLink THEN Ended(c) ELSE Goes(c, "handled")
    /\ UNCHANGED <<slackVars, ends, dedupe, link, faults>>

\* externalSessionLinkHandledUpdate, of a link that existed before.
MarksAll(c) == link' = [link EXCEPT !.handled = Len(thread)]
Handled(c) == link' = [link EXCEPT !.handled = Mention(c)]
Handles(c) ==
    /\ At(c, "handled") /\ Handled(c) /\ Ended(c)
    /\ UNCHANGED <<slackVars, ends, dedupe, submitted, faults>>

\* createSession, the insert of the link or the submission failed, the last two
\* perhaps after they took effect.
CreateFails(c) ==
    /\ At(c, "create") /\ Fault /\ Goes(c, "release")
    /\ UNCHANGED <<slackVars, ends, dedupe, link, submitted>>
LinkFails(c) ==
    /\ At(c, "link") /\ Fault /\ Goes(c, "release")
    /\ \/ UNCHANGED link
       \/ LinkIsFree /\ link' = LinkOf(c)
    /\ UNCHANGED <<slackVars, ends, dedupe, submitted>>
SubmitFails(c) ==
    /\ At(c, "submit") /\ Fault /\ Goes(c, "release")
    /\ UNCHANGED submitted \/ Accepts(c, TRUE)
    /\ UNCHANGED <<slackVars, ends, dedupe, link>>

\* releaseDedupe, and an answer in the thread.
Freed(m) == dedupe \ {m}
ReleasesOnly(c) ==
    /\ At(c, "release") /\ dedupe' = Freed(Mention(c)) /\ Ended(c)
    /\ UNCHANGED <<slackVars, ends, link, submitted, faults>>
Releases(c) ==
    /\ At(c, "release") /\ dedupe' = Freed(Mention(c))
    /\ Ended(c) /\ Replied(c)
    /\ UNCHANGED <<slackVars, link, submitted, faults>>

\* An exception nobody catches is a 500, whether or not the statement took effect.
DedupeFails(c) ==
    /\ At(c, "dedupe") /\ dedupe' \in {dedupe, dedupe \cup {Mention(c)}} /\ UNCHANGED link
HandledFails(c) ==
    /\ At(c, "handled") /\ UNCHANGED dedupe
    /\ UNCHANGED link \/ Handled(c)
ReleaseFails(c) ==
    /\ At(c, "release") /\ dedupe' \in {dedupe, Freed(Mention(c))} /\ UNCHANGED link
Throws(c) ==
    /\ Breaks(c) /\ Ended(c)
    /\ \/ DedupeFails(c) \/ HandledFails(c) \/ ReleaseFails(c)
       \/ At(c, "read") /\ UNCHANGED <<dedupe, link>>
    /\ UNCHANGED <<slackVars, submitted, replied>>

\* The request is cut off between two calls, or an answer in the thread is lost.
Cut(c) ==
    /\ calls[c].at \notin {"idle", "done"} /\ Breaks(c) /\ Ended(c)
    /\ UNCHANGED <<slackVars, dedupe, link, submitted, replied>>
ReplyIsLost(c) ==
    /\ At(c, "release") /\ dedupe' = Freed(Mention(c))
    /\ Breaks(c) /\ Ended(c)
    /\ UNCHANGED <<slackVars, link, submitted, replied>>

-----------------------------------------------------------------------------
Init ==
    /\ thread = <<>> /\ default = FALSE
    /\ delivered = [m \in Positions |-> 0]
    /\ dedupe = {} /\ link = NoLink
    /\ calls = [c \in Calls |-> Idle]
    /\ submitted = {} /\ replied = {}
    /\ faults = 0 /\ broken = {}

Proceeds(c) ==
    \/ Dedupes(c) \/ Reads(c) \/ Creates(c) \/ Links(c) \/ Submits(c) \/ Handles(c) \/ Releases(c)
Fails(c) ==
    \/ ReadFails(c) \/ CreateFails(c) \/ LinkFails(c) \/ SubmitFails(c)
    \/ Throws(c) \/ Cut(c) \/ ReplyIsLost(c)

Next ==
    \/ \E message \in {"chat", "mention", "repo"} : Posted(message)
    \/ \E m \in Positions : Delivered(m)
    \/ Command
    \/ \E c \in Calls : Proceeds(c) \/ Fails(c)

Spec == Init /\ [][Next]_vars

-----------------------------------------------------------------------------
(* Properties *)

\* Mentions of a thread that are handled side by side may create a Session each,
\* but all that is submitted goes to one Session, the linked one.
OneSessionIsAsked == \A r \in submitted : r.to = link.session

\* However often Slack delivers a mention, it is submitted once, unless the
\* Session's answer to a submission got lost.
OfMention(m) == {r \in submitted : Mention(r.by) = m}
SubmittedOnce ==
    \A m \in Positions :
        Cardinality(OfMention(m)) <= 1 + Cardinality({r \in OfMention(m) : r.lost})

\* The context of a later request starts where last_handled_message_id says, and
\* nothing before it is skipped but what the page of 100 messages did not reach,
\* and what led to the first mention when its own submission came to nothing.
FirstWasSubmitted == \E r \in submitted : r.by = link.session
ContextIsComplete ==
    \A p \in 1 .. link.handled :
        \/ \E r \in submitted : p \in r.said
        \/ p > PageSize
        \/ p <= Mention(link.session) /\ ~FirstWasSubmitted

\* A mention with no delivery under way was submitted or answered in the thread,
\* whatever of the calls the handler catches failed, and however its deliveries
\* overlapped.
IsOver(m) == delivered[m] > 0 /\ \A c \in Calls : Mention(c) = m => calls[c].at \in {"idle", "done"}
MentionIsAnswered ==
    \A m \in Positions : IsOver(m) => OfMention(m) # {} \/ m \in replied \/ m \in broken
=============================================================================
