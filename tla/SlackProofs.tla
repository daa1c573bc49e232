---------------------------- MODULE SlackProofs -----------------------------
(***************************************************************************)
(* The two sides of the Slack integration: the mentions of a thread that   *)
(* become requests, and the response of a run that becomes messages. Each  *)
(* part below proves what its module promises, for any number of messages, *)
(* deliveries, chunks, attempts and faults, and stands by itself.          *)
(***************************************************************************)
EXTENDS SlackThreads, RunCards, FiniteSetTheorems, TLAPS

-----------------------------------------------------------------------------
(***************************************************************************)
(* SlackThreads. All mentions go to one Session, each is submitted once or *)
(* answered, and their requests leave nothing out.                         *)
(*                                                                         *)
(* A call decides early which Session it is going to ask, and by then may  *)
(* be one of several that found no link. The first part rests on the link: *)
(* it is inserted once and never names another Session, and a call that is *)
(* about to submit holds the Session of the link. The second part follows  *)
(* the claim a call has on its mention, the row of the dedupe table. The   *)
(* third follows the mark of the mention handled last, which may go back,  *)
(* but never past what no request has said.                                *)
(***************************************************************************)

Steps == {"idle", "dedupe", "read", "create", "link", "submit", "handled", "release", "done"}
LinkRows == [session : Calls \cup {NoSession}, handled : Nat]
CallRows == [at : Steps, saw : LinkRows, session : Calls \cup {NoSession}]

\* The link, the calls and what was submitted have their types.
TypeOK ==
    /\ link \in LinkRows /\ (link = NoLink \/ link.session \in Calls)
    /\ calls \in [Calls -> CallRows]
    /\ \A r \in submitted : r.to \in Calls

\* What a call holds for its next step: a Session it created, or the linked one.
Holds(q) ==
    /\ q.at = "link" => q.session \in Calls
    /\ q.at = "submit" => link # NoLink /\ q.session = link.session
    /\ q.at = "handled" => link # NoLink
CallsHold == \A c \in Calls : Holds(calls[c])

SubmittedToLinked == \A r \in submitted : link # NoLink /\ r.to = link.session

IInv == TypeOK /\ CallsHold /\ SubmittedToLinked

\* A link is inserted once, and names one Session for ever.
LinkKept == link # NoLink => link' # NoLink /\ link'.session = link.session

-----------------------------------------------------------------------------
(* Calls *)

\* A call that ends, or goes on to a step that holds nothing, and the calls
\* that are left alone.
LEMMA GoesHold ==
  ASSUME IInv, LinkKept, NEW c,
         NEW at \in {"dedupe", "read", "release", "done"}, Goes(c, at)
  PROVE  calls' \in [Calls -> CallRows] /\ CallsHold'
<1>1. ASSUME NEW d \in Calls
      PROVE  /\ calls'[d] \in CallRows /\ calls'[d].session = calls[d].session
             /\ calls'[d].at \in {calls[d].at, "dedupe", "read", "release", "done"}
  BY <1>1 DEF Goes, IInv, TypeOK, CallRows, Steps
<1>2. calls' \in [Calls -> CallRows]
  BY <1>1 DEF Goes, IInv, TypeOK
<1> QED
  BY <1>1, <1>2 DEF CallsHold, Holds, LinkKept, IInv

LEMMA StayHold ==
  ASSUME IInv, LinkKept, UNCHANGED calls
  PROVE  calls' \in [Calls -> CallRows] /\ CallsHold'
  BY DEF CallsHold, Holds, LinkKept, IInv, TypeOK

\* A call that goes on to a step that holds something.
LEMMA MovesHold ==
  ASSUME IInv, LinkKept, NEW c \in Calls, NEW q \in CallRows,
         calls' = [calls EXCEPT ![c] = q], Holds(q)'
  PROVE  calls' \in [Calls -> CallRows] /\ CallsHold'
<1>1. \A d \in Calls : calls'[d] = IF d = c THEN q ELSE calls[d]
  BY DEF IInv, TypeOK
<1>2. calls' \in [Calls -> CallRows]
  BY DEF IInv, TypeOK
<1> QED
  BY <1>1, <1>2 DEF CallsHold, Holds, LinkKept, IInv

-----------------------------------------------------------------------------
(* Steps *)

\* Messages, deliveries and commands submit nothing and leave the link alone.
LEMMA SlackSteps ==
  ASSUME IInv,
         \/ \E message \in {"chat", "mention", "repo"} : Posted(message)
         \/ \E m \in Positions : Delivered(m)
         \/ Command
  PROVE  IInv'
<1>1. link' = link /\ submitted' = submitted
  BY DEF Posted, Delivered, Command
<1>2. LinkKept
  BY <1>1 DEF LinkKept
<1>3. calls' \in [Calls -> CallRows] /\ CallsHold'
  BY <1>2, GoesHold, StayHold DEF Posted, Delivered, Command
<1> QED
  BY <1>1, <1>3 DEF IInv, TypeOK, SubmittedToLinked

\* A link names the Session of its call.
LEMMA LinkTypes ==
  ASSUME IInv, NEW c \in Calls, At(c, "link")
  PROVE  LinkOf(c) \in LinkRows /\ LinkOf(c).session \in Calls /\ LinkOf(c) # NoLink
<1>1. calls[c].session \in Calls
  BY DEF IInv, CallsHold, Holds, At
<1>2. Mention(c) \in Nat
  BY ThreadAssumption DEF Mention, Calls, Positions
<1>3. NoSession \notin Calls
  BY DEF NoSession, None, Calls, Positions
<1> QED
  BY <1>1, <1>2, <1>3 DEF LinkOf, LinkRows, NoLink

\* Steps that submit nothing and leave the link alone, as most failures do.
LEMMA QuietHold ==
  ASSUME IInv, NEW c, NEW at \in {"dedupe", "read", "release", "done"}, Goes(c, at),
         link' = link, submitted' = submitted
  PROVE  IInv'
<1>1. LinkKept
  BY DEF LinkKept
<1> QED
  BY <1>1, GoesHold DEF IInv, TypeOK, SubmittedToLinked

\* The mark of the last mention leaves the Session of the link alone.
LEMMA HandledHolds ==
  ASSUME IInv, NEW c \in Calls, At(c, "handled"), Handled(c), Ended(c), submitted' = submitted
  PROVE  IInv'
<1>1. link # NoLink /\ link.session \in Calls
  BY DEF IInv, TypeOK, CallsHold, Holds, At
<1>2. Mention(c) \in Nat
  BY ThreadAssumption DEF Mention, Calls, Positions
<1>3. link' \in LinkRows /\ link'.session = link.session
  BY <1>2 DEF Handled, IInv, TypeOK, LinkRows
<1>4. link' # NoLink
  BY <1>1, <1>3 DEF NoLink, NoSession, None, Calls, Positions
<1>5. LinkKept
  BY <1>3, <1>4 DEF LinkKept
<1> QED
  BY <1>1, <1>3, <1>4, <1>5, GoesHold DEF Ended, IInv, TypeOK, SubmittedToLinked

\* The insert of the link, which takes effect only where there is none.
LEMMA InsertKeeps ==
  ASSUME IInv, NEW c \in Calls, At(c, "link"), LinkIsFree, link' = LinkOf(c), submitted' = submitted
  PROVE  /\ LinkKept /\ link' \in LinkRows /\ link'.session \in Calls /\ link' # NoLink
         /\ SubmittedToLinked'
  BY LinkTypes DEF LinkIsFree, LinkKept, IInv, SubmittedToLinked

\* A submission goes to the Session of the link.
LEMMA AcceptKeeps ==
  ASSUME IInv, NEW c \in Calls, NEW gone, At(c, "submit"), Accepts(c, gone), link' = link
  PROVE  SubmittedToLinked' /\ \A r \in submitted' : r.to \in Calls
<1>1. link # NoLink /\ calls[c].session = link.session /\ link.session \in Calls
  BY DEF IInv, TypeOK, CallsHold, Holds, At
<1>2. Request(c, gone).to = link.session
  BY <1>1 DEF Request
<1> QED
  BY <1>1, <1>2 DEF Accepts, IInv, TypeOK, SubmittedToLinked

LEMMA ProceedsHolds == ASSUME IInv, NEW c \in Calls, Proceeds(c) PROVE IInv'
<1>1. CASE Dedupes(c)
  BY <1>1, QuietHold DEF Dedupes, Ended
<1>2. CASE Reads(c)
  <2>1. link' = link /\ submitted' = submitted
    BY <1>2 DEF Reads
  <2>2. CASE Ended(c)
    BY <2>1, <2>2, QuietHold DEF Ended
  <2>3. CASE ~Ended(c)
    <3>1. PICK q \in CallRows : q = [at |-> IF link = NoLink THEN "create" ELSE "submit",
                                    saw |-> link, session |-> link.session]
      BY DEF IInv, TypeOK, CallRows, Steps, LinkRows
    <3>2. calls' = [calls EXCEPT ![c] = q]
      BY <1>2, <2>3, <3>1 DEF Reads
    <3>3. Holds(q)'
      BY <2>1, <3>1 DEF Holds
    <3>4. LinkKept
      BY <2>1 DEF LinkKept
    <3> QED
      BY <2>1, <3>2, <3>3, <3>4, MovesHold DEF IInv, TypeOK, SubmittedToLinked
  <2> QED
    BY <2>2, <2>3
<1>3. CASE Creates(c)
  <2>1. link' = link /\ submitted' = submitted /\ LinkKept
    BY <1>3 DEF Creates, LinkKept
  <2>2. PICK q \in CallRows : q = [[calls[c] EXCEPT !.at = "link"] EXCEPT !.session = c]
    BY DEF IInv, TypeOK, CallRows, Steps
  <2>3. calls' = [calls EXCEPT ![c] = q]
    BY <1>3, <2>2 DEF Creates, IInv, TypeOK
  <2>4. Holds(q)'
    BY <2>2 DEF Holds, CallRows, IInv, TypeOK
  <2> QED
    BY <2>1, <2>3, <2>4, MovesHold DEF IInv, TypeOK, SubmittedToLinked
<1>4. CASE Links(c)
  <2>1. At(c, "link") /\ submitted' = submitted
    BY <1>4 DEF Links
  <2>2. CASE LinkIsFree
    <3>1. PICK q \in CallRows : q = [calls[c] EXCEPT !.at = "submit"]
      BY DEF IInv, TypeOK, CallRows, Steps
    <3>2. link' = LinkOf(c) /\ calls' = [calls EXCEPT ![c] = q]
      BY <1>4, <2>2, <3>1 DEF Links, Goes, IInv, TypeOK
    <3>3. LinkKept /\ link' \in LinkRows /\ link'.session \in Calls /\ link' # NoLink /\ SubmittedToLinked'
      BY <2>1, <2>2, <3>2, InsertKeeps
    <3>4. q.at = "submit" /\ q.session = calls[c].session
      BY <3>1 DEF IInv, TypeOK, CallRows
    <3>5. Holds(q)'
      BY <3>2, <3>3, <3>4 DEF Holds, LinkOf
    <3>6. calls' \in [Calls -> CallRows] /\ CallsHold'
      BY <3>2, <3>3, <3>5, MovesHold
    <3> QED
      BY <2>1, <3>3, <3>6 DEF IInv, TypeOK
  <2>3. CASE ~LinkIsFree
    BY <1>4, <2>1, <2>3, QuietHold DEF Links
  <2> QED
    BY <2>2, <2>3
<1>5. CASE Submits(c)
  <2>1. At(c, "submit") /\ Accepts(c, FALSE) /\ link' = link /\ LinkKept
    BY <1>5 DEF Submits, LinkKept
  <2>2. CASE Ended(c)
    BY <2>1, <2>2, AcceptKeeps, GoesHold DEF Ended, IInv, TypeOK
  <2>3. CASE ~Ended(c)
    <3>1. PICK q \in CallRows : q = [calls[c] EXCEPT !.at = "handled"]
      BY DEF IInv, TypeOK, CallRows, Steps
    <3>2. calls' = [calls EXCEPT ![c] = q]
      BY <1>5, <2>3, <3>1 DEF Submits, Goes, IInv, TypeOK
    <3>3. q.at = "handled"
      BY <3>1 DEF IInv, TypeOK, CallRows
    <3>4. link # NoLink
      BY <2>1 DEF IInv, CallsHold, Holds, At
    <3>5. Holds(q)'
      BY <2>1, <3>3, <3>4 DEF Holds
    <3>6. calls' \in [Calls -> CallRows] /\ CallsHold'
      BY <2>1, <3>2, <3>5, MovesHold
    <3> QED
      BY <2>1, <3>6, AcceptKeeps DEF IInv, TypeOK
  <2> QED
    BY <2>2, <2>3
<1>6. CASE Handles(c)
  BY <1>6, HandledHolds DEF Handles
<1>7. CASE Releases(c)
  BY <1>7, QuietHold DEF Releases, Ended
<1> QED
  BY <1>1, <1>2, <1>3, <1>4, <1>5, <1>6, <1>7 DEF Proceeds

\* A failure may have taken effect: it inserted the link, submitted or marked
\* as the step that succeeds does.
LEMMA FailsHolds == ASSUME IInv, NEW c \in Calls, Fails(c) PROVE IInv'
<1>1. CASE ReadFails(c) \/ CreateFails(c) \/ Cut(c) \/ ReplyIsLost(c)
  BY <1>1, QuietHold DEF ReadFails, CreateFails, Cut, ReplyIsLost, Ended, slackVars
<1>2. CASE LinkFails(c)
  <2>1. At(c, "link") /\ Goes(c, "release") /\ submitted' = submitted
    BY <1>2 DEF LinkFails
  <2>2. CASE link' = link
    BY <2>1, <2>2, QuietHold
  <2>3. CASE LinkIsFree /\ link' = LinkOf(c)
    BY <2>1, <2>3, InsertKeeps, GoesHold DEF IInv, TypeOK
  <2> QED
    BY <1>2, <2>2, <2>3 DEF LinkFails
<1>3. CASE SubmitFails(c)
  <2>1. At(c, "submit") /\ Goes(c, "release") /\ link' = link
    BY <1>3 DEF SubmitFails
  <2>2. CASE submitted' = submitted
    BY <2>1, <2>2, QuietHold
  <2>3. CASE Accepts(c, TRUE)
    <3>1. LinkKept
      BY <2>1 DEF LinkKept
    <3> QED
      BY <2>1, <2>3, <3>1, AcceptKeeps, GoesHold DEF IInv, TypeOK
  <2> QED
    BY <1>3, <2>2, <2>3 DEF SubmitFails
<1>4. CASE Throws(c)
  <2>1. Ended(c) /\ submitted' = submitted
    BY <1>4 DEF Throws
  <2>2. CASE link' = link
    BY <2>1, <2>2, QuietHold DEF Ended
  <2>3. CASE link' # link
    <3>1. At(c, "handled") /\ Handled(c)
      BY <1>4, <2>3 DEF Throws, DedupeFails, HandledFails, ReleaseFails
    <3> QED
      BY <2>1, <3>1, HandledHolds
  <2> QED
    BY <2>2, <2>3
<1> QED
  BY <1>1, <1>2, <1>3, <1>4 DEF Fails

-----------------------------------------------------------------------------
(* Deliveries of one mention.  While a call works on it the mention is in   *)
(* the dedupe table and no other call of it works; one that was submitted   *)
(* for good is never released; and a mention that left the hands of its     *)
(* calls was submitted, answered or broken.                                 *)

Working == {"read", "create", "link", "submit", "handled", "release"}
Works(c) == calls[c].at \in Working
SameMention(c, d) == Mention(c) = Mention(d)

Answered(m) == OfMention(m) # {} \/ m \in replied \/ m \in broken
Held(m) == \E c \in Calls : Mention(c) = m /\ Works(c)
UnderWay(m) == \E c \in Calls : Mention(c) = m /\ calls[c].at \notin {"idle", "done"}

\* No call of the mention can still release it.
Settled(m) == \A c \in Calls : Mention(c) = m => calls[c].at \in {"idle", "dedupe", "handled", "done"}

NotYet == \A c \in Calls : delivered[Mention(c)] < c[2] => At(c, "idle")
WorkIsClaimed == \A c \in Calls : Works(c) => Mention(c) \in dedupe
OneWorks == \A c, d \in Calls : Works(c) /\ Works(d) /\ SameMention(c, d) => c = d
SentIsKept ==
    \A r \in submitted : ~r.lost => Mention(r.by) \in dedupe /\ Settled(Mention(r.by))
SentOnce ==
    \A r, s \in submitted : ~r.lost /\ ~s.lost /\ SameMention(r.by, s.by) => r = s
HandledWasSent == \A c \in Calls : At(c, "handled") => OfMention(Mention(c)) # {}
ClaimsHold == \A m \in dedupe : Held(m) \/ Answered(m)
DeliveriesCount == \A m \in Positions : delivered[m] > 0 => UnderWay(m) \/ Answered(m)

DeliveryInv ==
    /\ delivered \in [Positions -> Nat] /\ IsFiniteSet(submitted)
    /\ NotYet /\ WorkIsClaimed /\ OneWorks
    /\ SentIsKept /\ SentOnce /\ HandledWasSent
    /\ ClaimsHold /\ DeliveriesCount

\* What a step of call `c` does to its mention: `a` and `b` are where the call
\* was and is.
ClaimMoves(c, a, b) ==
    \/ a = "dedupe" /\ b = "read" /\ Mention(c) \notin dedupe /\ dedupe' = dedupe \cup {Mention(c)}
    \/ a = "dedupe" /\ b = "done" /\ dedupe' = dedupe /\ Mention(c) \in dedupe
    \/ a = "dedupe" /\ b = "done" /\ dedupe' \in {dedupe, dedupe \cup {Mention(c)}}
       /\ Mention(c) \in broken'
    \/ a = "release" /\ b = "done" /\ dedupe' \in {dedupe, dedupe \ {Mention(c)}}
       /\ Mention(c) \in replied' \cup broken'
    \/ a \in Working \ {"release"} /\ b = "done" /\ dedupe' = dedupe
       /\ Mention(c) \in replied' \cup broken'
    \/ a = "submit" /\ b \in {"handled", "done"} /\ dedupe' = dedupe
       /\ Request(c, FALSE) \in submitted'
    \/ a = "handled" /\ b = "done" /\ dedupe' = dedupe
    \/ a \in {"read", "create", "link", "submit"} /\ b \in {"create", "link", "submit", "release"}
       /\ dedupe' = dedupe

SubmittedMoves(c, a, b) ==
    \/ submitted' = submitted
    \/ a = "submit" /\ b \in {"handled", "done"} /\ submitted' = submitted \cup {Request(c, FALSE)}
    \/ a = "submit" /\ b = "release" /\ submitted' = submitted \cup {Request(c, TRUE)}

CallMoves(c) ==
    /\ \A d \in Calls \ {c} : calls'[d] = calls[d]
    /\ ClaimMoves(c, calls[c].at, calls'[c].at)
    /\ SubmittedMoves(c, calls[c].at, calls'[c].at)
    /\ replied \subseteq replied' /\ broken \subseteq broken'
    /\ delivered' = delivered /\ thread' = thread

LEMMA GoesMoves ==
  ASSUME IInv, NEW c \in Calls, NEW at, Goes(c, at)
  PROVE  /\ \A d \in Calls \ {c} : calls'[d] = calls[d]
         /\ calls'[c].at = at /\ calls'[c].saw = calls[c].saw
         /\ calls'[c].session = calls[c].session
  BY DEF Goes, IInv, TypeOK, CallRows

LEMMA ProceedsMoves == ASSUME IInv, NEW c \in Calls, Proceeds(c) PROVE CallMoves(c)
<1> USE DEF slackVars, ends
<1>1. CASE Dedupes(c)
  <2>1. CASE IsNew(Mention(c))
    <3>1. Goes(c, "read") /\ calls[c].at = "dedupe" /\ Mention(c) \notin dedupe
      BY <1>1, <2>1 DEF Dedupes, At, IsNew
    <3>2. ClaimMoves(c, "dedupe", "read") /\ SubmittedMoves(c, "dedupe", "read")
      BY <1>1, <3>1 DEF Dedupes, ClaimMoves, SubmittedMoves
    <3> QED
      BY <1>1, <3>1, <3>2, GoesMoves DEF Dedupes, CallMoves
  <2>2. CASE ~IsNew(Mention(c))
    <3>1. Goes(c, "done") /\ calls[c].at = "dedupe" /\ Mention(c) \in dedupe
      BY <1>1, <2>2 DEF Dedupes, At, IsNew, Ended
    <3>2. ClaimMoves(c, "dedupe", "done") /\ SubmittedMoves(c, "dedupe", "done")
      BY <1>1, <3>1 DEF Dedupes, ClaimMoves, SubmittedMoves
    <3> QED
      BY <1>1, <3>1, <3>2, GoesMoves DEF Dedupes, CallMoves
  <2> QED
    BY <2>1, <2>2
<1>2. CASE Reads(c)
  <2>1. calls[c].at = "read" /\ dedupe' = dedupe /\ submitted' = submitted
    BY <1>2 DEF Reads, At
  <2>2. CASE Ended(c) /\ Replied(c)
    <3>1. ClaimMoves(c, "read", "done") /\ SubmittedMoves(c, "read", "done")
      BY <2>1, <2>2 DEF Replied, ClaimMoves, SubmittedMoves, Working
    <3> QED
      BY <1>2, <2>1, <2>2, <3>1, GoesMoves DEF Reads, Ended, Replied, CallMoves
  <2>3. CASE ~(Ended(c) /\ Replied(c))
    <3> DEFINE at == IF link = NoLink THEN "create" ELSE "submit"
    <3>1. calls' = [calls EXCEPT ![c] = [at |-> at, saw |-> link, session |-> link.session]]
      BY <1>2, <2>3 DEF Reads
    <3>2. UNCHANGED <<replied, broken, thread, delivered>>
      BY <1>2, <2>3 DEF Reads
    <3>3. calls'[c].at = at /\ \A d \in Calls \ {c} : calls'[d] = calls[d]
      BY <3>1 DEF IInv, TypeOK
    <3>4. ClaimMoves(c, "read", at) /\ SubmittedMoves(c, "read", at)
      BY <2>1 DEF ClaimMoves, SubmittedMoves
    <3> QED
      BY <2>1, <3>2, <3>3, <3>4 DEF CallMoves
  <2> QED
    BY <2>2, <2>3
<1>3. CASE Creates(c)
  <2>1. calls[c].at = "create" /\ dedupe' = dedupe /\ submitted' = submitted
    BY <1>3 DEF Creates, At
  <2>2. calls'[c].at = "link" /\ \A d \in Calls \ {c} : calls'[d] = calls[d]
    BY <1>3 DEF Creates, IInv, TypeOK, CallRows
  <2>3. ClaimMoves(c, "create", "link") /\ SubmittedMoves(c, "create", "link")
    BY <2>1 DEF ClaimMoves, SubmittedMoves
  <2> QED
    BY <1>3, <2>1, <2>2, <2>3 DEF Creates, CallMoves
<1>4. CASE Links(c)
  <2>1. calls[c].at = "link" /\ dedupe' = dedupe /\ submitted' = submitted
    BY <1>4 DEF Links, At
  <2>2. PICK at \in {"submit", "release"} : Goes(c, at)
    BY <1>4 DEF Links
  <2>3. ClaimMoves(c, "link", at) /\ SubmittedMoves(c, "link", at)
    BY <2>1, <2>2 DEF ClaimMoves, SubmittedMoves
  <2> QED
    BY <1>4, <2>1, <2>2, <2>3, GoesMoves DEF Links, CallMoves
<1>5. CASE Submits(c)
  <2>1. calls[c].at = "submit" /\ dedupe' = dedupe /\ submitted' = submitted \cup {Request(c, FALSE)}
    BY <1>5 DEF Submits, At, Accepts
  <2>2. PICK at \in {"done", "handled"} : Goes(c, at)
    BY <1>5 DEF Submits, Ended
  <2>3. ClaimMoves(c, "submit", at) /\ SubmittedMoves(c, "submit", at)
    BY <2>1, <2>2 DEF ClaimMoves, SubmittedMoves
  <2> QED
    BY <1>5, <2>1, <2>2, <2>3, GoesMoves DEF Submits, CallMoves
<1>6. CASE Handles(c)
  <2>1. calls[c].at = "handled" /\ dedupe' = dedupe /\ submitted' = submitted /\ Goes(c, "done")
    BY <1>6 DEF Handles, At, Ended
  <2>2. ClaimMoves(c, "handled", "done") /\ SubmittedMoves(c, "handled", "done")
    BY <2>1 DEF ClaimMoves, SubmittedMoves
  <2> QED
    BY <1>6, <2>1, <2>2, GoesMoves DEF Handles, CallMoves
<1>7. CASE Releases(c)
  <2>1. /\ calls[c].at = "release" /\ dedupe' = dedupe \ {Mention(c)} /\ submitted' = submitted
        /\ Goes(c, "done") /\ replied' = replied \cup {Mention(c)} /\ broken' = broken
    BY <1>7 DEF Releases, At, Ended, Freed, Replied
  <2>2. ClaimMoves(c, "release", "done") /\ SubmittedMoves(c, "release", "done")
    BY <2>1 DEF ClaimMoves, SubmittedMoves
  <2> QED
    BY <1>7, <2>1, <2>2, GoesMoves DEF Releases, CallMoves
<1> QED
  BY <1>1, <1>2, <1>3, <1>4, <1>5, <1>6, <1>7 DEF Proceeds

\* A call that is cut off or throws ends, and its mention is broken.
LEMMA BreaksMoves ==
  ASSUME IInv, NEW c \in Calls, Ended(c), Breaks(c), submitted' = submitted, replied' = replied,
         delivered' = delivered, thread' = thread,
         \/ calls[c].at = "dedupe" /\ dedupe' \in {dedupe, dedupe \cup {Mention(c)}}
         \/ calls[c].at = "release" /\ dedupe' \in {dedupe, dedupe \ {Mention(c)}}
         \/ calls[c].at \in Working /\ dedupe' = dedupe
  PROVE  CallMoves(c)
<1>1. Goes(c, "done") /\ broken' = broken \cup {Mention(c)}
  BY DEF Ended, Breaks
<1>2. ClaimMoves(c, calls[c].at, "done")
  BY <1>1 DEF ClaimMoves
<1>3. SubmittedMoves(c, calls[c].at, "done")
  BY DEF SubmittedMoves
<1> QED
  BY <1>1, <1>2, <1>3, GoesMoves DEF CallMoves

LEMMA FailsMoves == ASSUME IInv, NEW c \in Calls, Fails(c) PROVE CallMoves(c)
<1> USE DEF slackVars, ends
<1>1. CASE ReadFails(c)
  <2>1. /\ calls[c].at = "read" /\ dedupe' = dedupe /\ submitted' = submitted /\ Goes(c, "done")
        /\ replied' = replied \cup {Mention(c)} /\ broken' = broken
    BY <1>1 DEF ReadFails, At, Ended, Replied
  <2>2. ClaimMoves(c, "read", "done") /\ SubmittedMoves(c, "read", "done")
    BY <2>1 DEF ClaimMoves, SubmittedMoves, Working
  <2> QED
    BY <1>1, <2>1, <2>2, GoesMoves DEF ReadFails, CallMoves
<1>2. CASE CreateFails(c) \/ LinkFails(c)
  <2>1. PICK at \in {"create", "link"} :
            calls[c].at = at /\ dedupe' = dedupe /\ submitted' = submitted /\ Goes(c, "release")
    BY <1>2 DEF CreateFails, LinkFails, At
  <2>2. ClaimMoves(c, at, "release") /\ SubmittedMoves(c, at, "release")
    BY <2>1 DEF ClaimMoves, SubmittedMoves
  <2> QED
    BY <1>2, <2>1, <2>2, GoesMoves DEF CreateFails, LinkFails, CallMoves
<1>3. CASE SubmitFails(c)
  <2>1. calls[c].at = "submit" /\ dedupe' = dedupe /\ Goes(c, "release")
    BY <1>3 DEF SubmitFails, At
  <2>2. ClaimMoves(c, "submit", "release")
    BY <2>1 DEF ClaimMoves
  <2>3. SubmittedMoves(c, "submit", "release")
    BY <1>3 DEF SubmitFails, Accepts, SubmittedMoves
  <2> QED
    BY <1>3, <2>1, <2>2, <2>3, GoesMoves DEF SubmitFails, CallMoves
<1>4. CASE Throws(c)
  <2>1. \/ calls[c].at = "dedupe" /\ dedupe' \in {dedupe, dedupe \cup {Mention(c)}}
        \/ calls[c].at = "release" /\ dedupe' \in {dedupe, dedupe \ {Mention(c)}}
        \/ calls[c].at \in Working /\ dedupe' = dedupe
    BY <1>4 DEF Throws, DedupeFails, HandledFails, ReleaseFails, Freed, At, Working
  <2> QED
    BY <1>4, <2>1, BreaksMoves DEF Throws
<1>5. CASE Cut(c) \/ ReplyIsLost(c)
  <2>1. \/ calls[c].at = "dedupe" /\ dedupe' \in {dedupe, dedupe \cup {Mention(c)}}
        \/ calls[c].at = "release" /\ dedupe' \in {dedupe, dedupe \ {Mention(c)}}
        \/ calls[c].at \in Working /\ dedupe' = dedupe
    BY <1>5 DEF Cut, ReplyIsLost, Freed, At, Working, IInv, TypeOK, CallRows, Steps
  <2> QED
    BY <1>5, <2>1, BreaksMoves DEF Cut, ReplyIsLost
<1> QED
  BY <1>1, <1>2, <1>3, <1>4, <1>5 DEF Fails

\* Steps of Slack deliver a mention that was not under way in this call.
LEMMA SlackStepsDeliver ==
  ASSUME IInv, DeliveryInv,
         \/ \E message \in {"chat", "mention", "repo"} : Posted(message)
         \/ \E m \in Positions : Delivered(m)
         \/ Command
  PROVE  DeliveryInv'
<1>1. CASE UNCHANGED <<delivered, dedupe, calls, submitted, replied, broken>>
  BY <1>1 DEF DeliveryInv, NotYet, WorkIsClaimed, OneWorks, SentIsKept, SentOnce, HandledWasSent,
              ClaimsHold, DeliveriesCount, Works, Settled, Answered, Held, UnderWay, At, OfMention
<1>2. ASSUME NEW m \in Positions, Delivered(m)
      PROVE  DeliveryInv'
  <2> DEFINE n == delivered[m] + 1
             c == <<m, n>>
  <2>1. /\ delivered' = [delivered EXCEPT ![m] = n] /\ Goes(c, "dedupe")
        /\ UNCHANGED <<dedupe, submitted, replied, broken>>
    BY <1>2 DEF Delivered, DeliveryInv
  <2>2. delivered' \in [Positions -> Nat] /\ n \in Nat \ {0}
    BY <2>1 DEF DeliveryInv
  <2>3. \A d \in Calls : calls'[d].at = IF d = c THEN "dedupe" ELSE calls[d].at
    BY <2>1 DEF Goes, IInv, TypeOK, CallRows
  <2>4. c \in Calls => calls[c].at = "idle"
    BY DEF DeliveryInv, NotYet, At, Mention
  <2>5. \A d \in Calls : Works(d)' => Works(d)
    BY <2>3 DEF Works, Working
  <2>6. \A d \in Calls : Works(d) => Works(d)'
    BY <2>3, <2>4 DEF Works, Working
  <2>7. NotYet'
    <3> SUFFICES ASSUME NEW d \in Calls, delivered'[Mention(d)] < d[2] PROVE calls'[d].at = "idle"
      BY DEF NotYet, At
    <3>1. delivered[Mention(d)] \in Nat /\ Mention(d) \in Positions /\ d[2] \in Nat
      BY DEF DeliveryInv, Mention, Calls
    <3>2. d # c /\ delivered[Mention(d)] < d[2]
      BY <2>1, <2>2, <3>1 DEF DeliveryInv, Mention
    <3> QED
      BY <2>3, <3>2 DEF DeliveryInv, NotYet, At
  <2>8. WorkIsClaimed' /\ OneWorks'
    BY <2>1, <2>5 DEF DeliveryInv, WorkIsClaimed, OneWorks
  <2>9. SentIsKept' /\ SentOnce'
    BY <2>1, <2>3 DEF DeliveryInv, SentIsKept, SentOnce, Settled
  <2>10. \A p : Answered(p)' = Answered(p)
    BY <2>1 DEF Answered, OfMention
  <2>11. HandledWasSent'
    BY <2>1, <2>3 DEF DeliveryInv, HandledWasSent, At, OfMention
  <2>12. ClaimsHold'
    BY <2>1, <2>6, <2>10 DEF DeliveryInv, ClaimsHold, Held
  <2>13. ASSUME NEW p \in Positions, delivered'[p] > 0
         PROVE  UnderWay(p)' \/ Answered(p)'
    <3>1. CASE delivered[p] > 0
      <4>1. UnderWay(p) => UnderWay(p)'
        BY <2>3, <2>4 DEF UnderWay
      <4> QED
        BY <2>10, <2>13, <3>1, <4>1 DEF DeliveryInv, DeliveriesCount
    <3>2. CASE ~(delivered[p] > 0)
      <4>1. p = m /\ n = 1
        BY <2>1, <2>13, <3>2 DEF DeliveryInv
      <4>2. c \in Calls /\ Mention(c) = p
        BY <4>1, ThreadAssumption DEF Calls, Mention
      <4> QED
        BY <2>3, <4>2 DEF UnderWay
    <3> QED
      BY <3>1, <3>2
  <2> QED
    BY <2>1, <2>2, <2>7, <2>8, <2>9, <2>11, <2>12, <2>13 DEF DeliveryInv, DeliveriesCount
<1> QED
  BY <1>1, <1>2 DEF Posted, Command

LEMMA RequestFields ==
  ASSUME NEW c, NEW gone
  PROVE  Request(c, gone).by = c /\ Request(c, gone).lost = gone
  BY DEF Request

\* A request whose answer came is the only new one, if any.
LEMMA NewRequest ==
  ASSUME NEW c, NEW a, NEW b, SubmittedMoves(c, a, b), NEW r \in submitted', r \notin submitted, ~r.lost
  PROVE  r = Request(c, FALSE) /\ a = "submit" /\ b \in {"handled", "done"}
<1>1. Request(c, TRUE).lost = TRUE
  BY DEF Request
<1>2. r # Request(c, TRUE)
  BY <1>1
<1> QED
  BY <1>2 DEF SubmittedMoves

\* A step of a call that works: it has its mention for itself.
LEMMA CallStepsDeliver ==
  ASSUME IInv, DeliveryInv, NEW c \in Calls, CallMoves(c), IInv'
  PROVE  DeliveryInv'
<1> DEFINE a == calls[c].at
           b == calls'[c].at
           m == Mention(c)
<1>1. ClaimMoves(c, a, b) /\ SubmittedMoves(c, a, b)
  BY DEF CallMoves
<1>2. \A d \in Calls \ {c} : calls'[d] = calls[d]
  BY DEF CallMoves
<1>3. replied \subseteq replied' /\ broken \subseteq broken' /\ delivered' = delivered
  BY DEF CallMoves
<1>4. m \in Positions
  BY DEF Mention, Calls
<1>5. submitted \subseteq submitted'
  BY <1>1 DEF SubmittedMoves
<1>6. \A p : OfMention(p) \subseteq OfMention(p)'
  BY <1>5 DEF OfMention
<1>7. \A p : Answered(p) => Answered(p)'
  BY <1>3, <1>6 DEF Answered
<1>8. \A p \in Positions \ {m} : p \in dedupe' <=> p \in dedupe
  BY <1>1 DEF ClaimMoves
<1>9. \A p \in dedupe' : p # m => p \in dedupe
  BY <1>1 DEF ClaimMoves
<1>10. a \in Working \cup {"dedupe"} /\ b # "idle" /\ b # "dedupe"
  BY <1>1 DEF ClaimMoves, Working
<1>11. b \in Working => m \in dedupe' /\ (a \in Working \/ m \notin dedupe)
  BY <1>1 DEF ClaimMoves, Working, Works, DeliveryInv, WorkIsClaimed
<1>12. a # "release" /\ m \in dedupe => m \in dedupe'
  BY <1>1 DEF ClaimMoves
<1>13. \A d \in Calls \ {c} : (Works(d)' <=> Works(d)) /\ (At(d, "handled")' <=> At(d, "handled"))
  BY <1>2 DEF Works, At
<1>14. a \in Working => \A d \in Calls \ {c} : Mention(d) = m => ~Works(d)
  BY DEF DeliveryInv, OneWorks, Works, SameMention
<1>15. m \notin dedupe => \A d \in Calls \ {c} : Mention(d) = m => ~Works(d)
  BY DEF DeliveryInv, WorkIsClaimed
<1> HIDE DEF a, b, m
<1>20. NotYet'
  <2>1. ASSUME NEW d \in Calls, delivered[Mention(d)] < d[2]
        PROVE  calls'[d].at = "idle"
    <3>1. calls[d].at = "idle"
      BY <2>1 DEF DeliveryInv, NotYet, At
    <3>2. d # c
      BY <3>1, <1>10 DEF a, Working
    <3> QED
      BY <1>2, <3>1, <3>2
  <2> QED
    BY <2>1, <1>3 DEF NotYet, At
<1>21. WorkIsClaimed'
  <2>1. ASSUME NEW d \in Calls, Works(d)'
        PROVE  Mention(d) \in dedupe'
    <3>1. CASE d = c
      BY <2>1, <3>1, <1>11 DEF b, m, Works
    <3>2. CASE d # c
      <4>1. Works(d) /\ Mention(d) \in dedupe /\ Mention(d) \in Positions
        BY <2>1, <3>2, <1>13 DEF DeliveryInv, WorkIsClaimed, Mention, Calls
      <4>2. CASE Mention(d) # m
        BY <4>1, <4>2, <1>8
      <4>3. CASE Mention(d) = m
        <5>1. a \notin Working
          BY <3>2, <4>1, <4>3, <1>14
        <5> QED
          BY <4>1, <4>3, <5>1, <1>12 DEF Working
      <4> QED
        BY <4>2, <4>3
    <3> QED
      BY <3>1, <3>2
  <2> QED
    BY <2>1 DEF WorkIsClaimed
<1>22. OneWorks'
  <2>1. ASSUME NEW d \in Calls, Works(c)', Works(d)', Mention(d) = m
        PROVE  d = c
    <3>1. b \in Working
      BY <2>1 DEF Works, b
    <3> QED
      BY <2>1, <3>1, <1>11, <1>13, <1>14, <1>15
  <2>2. \A d, e \in Calls \ {c} : Works(d)' /\ Works(e)' /\ SameMention(d, e) => d = e
    BY <1>13 DEF DeliveryInv, OneWorks
  <2> QED
    BY <2>1, <2>2 DEF OneWorks, SameMention, m
<1>23. \A p \in Positions : Settled(p) /\ p \in dedupe => Settled(p)' /\ p \in dedupe'
  <2> SUFFICES ASSUME NEW p \in Positions, Settled(p), p \in dedupe PROVE Settled(p)' /\ p \in dedupe'
    OBVIOUS
  <2>1. CASE p # m
    BY <2>1, <1>2, <1>8 DEF Settled, m
  <2>2. CASE p = m
    <3>1. a \in {"dedupe", "handled"}
      BY <2>2, <1>10 DEF Settled, a, m, Working
    <3>2. b \in {"handled", "done"}
      BY <1>1, <2>2, <3>1 DEF ClaimMoves, m, Working
    <3>3. Settled(p)'
      BY <2>2, <3>2, <1>2 DEF Settled, b
    <3> QED
      BY <2>2, <3>1, <3>3, <1>12
  <2> QED
    BY <2>1, <2>2
<1>24. a = "submit" /\ b \in {"handled", "done"} => Settled(m)' /\ m \in dedupe'
  <2> SUFFICES ASSUME a = "submit", b \in {"handled", "done"} PROVE Settled(m)' /\ m \in dedupe'
    OBVIOUS
  <2>1. Works(c)
    BY DEF a, Works, Working
  <2>2. m \in dedupe'
    BY <2>1, <1>12 DEF m, DeliveryInv, WorkIsClaimed
  <2>3. ASSUME NEW d \in Calls, Mention(d) = m, d # c
        PROVE  calls'[d].at \in {"idle", "dedupe", "handled", "done"}
    <3>1. ~Works(d)
      BY <2>1, <2>3, <1>14 DEF a, Working
    <3> QED
      BY <2>3, <3>1, <1>2 DEF Works, Working, IInv, TypeOK, CallRows, Steps
  <2> QED
    BY <2>2, <2>3 DEF Settled, b
<1>25. SentIsKept'
  <2> SUFFICES ASSUME NEW r \in submitted', ~r.lost
               PROVE  Mention(r.by) \in dedupe' /\ Settled(Mention(r.by))'
    BY DEF SentIsKept
  <2>1. CASE r \in submitted
    <3>1. Mention(r.by) \in dedupe /\ Settled(Mention(r.by))
      BY <2>1 DEF DeliveryInv, SentIsKept
    <3>2. CASE Mention(r.by) \in Positions
      BY <3>1, <3>2, <1>23
    <3>3. CASE Mention(r.by) \notin Positions
      <4>1. \A d \in Calls : Mention(d) # Mention(r.by)
        BY <3>3 DEF Mention, Calls
      <4>2. Mention(r.by) \in dedupe'
        BY <1>1, <1>4, <3>1, <3>3 DEF ClaimMoves, m
      <4> QED
        BY <4>1, <4>2 DEF Settled
    <3> QED
      BY <3>2, <3>3
  <2>2. CASE r \notin submitted
    <3>1. r = Request(c, FALSE) /\ a = "submit" /\ b \in {"handled", "done"}
      BY <2>2, <1>1, NewRequest
    <3> QED
      BY <3>1, <1>24, RequestFields DEF m
  <2> QED
    BY <2>1, <2>2
<1>26. SentOnce'
  <2>1. a = "submit" => \A r \in submitted : ~r.lost => Mention(r.by) # m
    BY DEF DeliveryInv, SentIsKept, Settled, a, m
  <2>2. \A r \in submitted' : r \in submitted \/ r.lost \/ (r = Request(c, FALSE) /\ a = "submit")
    BY <1>1, NewRequest
  <2>3. Mention(Request(c, FALSE).by) = m
    BY RequestFields DEF m
  <2> SUFFICES ASSUME NEW r \in submitted', NEW s \in submitted', ~r.lost, ~s.lost, SameMention(r.by, s.by)
               PROVE  r = s
    BY DEF SentOnce
  <2>4. CASE r \in submitted /\ s \in submitted
    BY <2>4 DEF DeliveryInv, SentOnce
  <2> QED
    BY <2>1, <2>2, <2>3, <2>4 DEF SameMention
<1>27. HandledWasSent'
  <2>1. b = "handled" => Request(c, FALSE) \in submitted'
    BY <1>1 DEF ClaimMoves
  <2>2. Request(c, FALSE) \in submitted' => OfMention(m)' # {}
    BY RequestFields DEF OfMention, m
  <2>3. At(c, "handled")' => OfMention(Mention(c))' # {}
    BY <2>1, <2>2 DEF At, b, m
  <2>4. \A d \in Calls \ {c} : At(d, "handled")' => OfMention(Mention(d))' # {}
    BY <1>6, <1>13 DEF DeliveryInv, HandledWasSent
  <2> QED
    BY <2>3, <2>4 DEF HandledWasSent
<1>28. b = "done" => Answered(m)' \/ \E d \in Calls : Mention(d) = m /\ Works(d)'
  <2> SUFFICES ASSUME b = "done" PROVE Answered(m)' \/ \E d \in Calls : Mention(d) = m /\ Works(d)'
    OBVIOUS
  <2>1. CASE a = "dedupe" /\ m \in dedupe
    <3>1. Held(m) \/ Answered(m)
      BY <2>1 DEF DeliveryInv, ClaimsHold
    <3>2. Held(m) => \E d \in Calls : Mention(d) = m /\ Works(d)'
      BY <2>1, <1>13 DEF Held, Works, Working, a
    <3> QED
      BY <3>1, <3>2, <1>7
  <2>2. CASE a = "handled"
    <3>1. OfMention(m) # {}
      BY <2>2 DEF DeliveryInv, HandledWasSent, At, a, m
    <3> QED
      BY <3>1, <1>7 DEF Answered
  <2>3. CASE m \in replied' \cup broken' \/ Request(c, FALSE) \in submitted'
    BY <2>3, RequestFields DEF Answered, OfMention, m
  <2> QED
    BY <1>1, <2>1, <2>2, <2>3 DEF ClaimMoves, m
<1>29. b # "done" => b \in Working
  BY <1>1 DEF ClaimMoves, Working
<1>30. Held(m)' \/ Answered(m)'
  BY <1>28, <1>29 DEF Held, Works, b, m
<1>31. ClaimsHold'
  <2> SUFFICES ASSUME NEW p \in dedupe', p # m PROVE Held(p)' \/ Answered(p)'
    BY <1>30 DEF ClaimsHold
  <2>1. Held(p) \/ Answered(p)
    BY <1>9 DEF DeliveryInv, ClaimsHold
  <2>2. Held(p) => Held(p)'
    BY <1>13 DEF Held, m
  <2> QED
    BY <2>1, <2>2, <1>7
<1>32. DeliveriesCount'
  <2> SUFFICES ASSUME NEW p \in Positions, delivered[p] > 0 PROVE UnderWay(p)' \/ Answered(p)'
    BY <1>3 DEF DeliveriesCount
  <2>1. CASE p = m
    BY <2>1, <1>30 DEF Held, UnderWay, Works, Working
  <2>2. CASE p # m
    <3>1. UnderWay(p) => UnderWay(p)'
      BY <2>2, <1>2 DEF UnderWay, m
    <3> QED
      BY <3>1, <1>7 DEF DeliveryInv, DeliveriesCount
  <2> QED
    BY <2>1, <2>2
<1>33. IsFiniteSet(submitted')
  <2>1. IsFiniteSet(submitted)
    BY DEF DeliveryInv
  <2> QED
    BY <1>1, <2>1, FS_AddElement DEF SubmittedMoves
<1> QED
  BY <1>3, <1>20, <1>21, <1>22, <1>25, <1>26, <1>27, <1>31, <1>32, <1>33 DEF DeliveryInv

-----------------------------------------------------------------------------
(* The context of requests.  What a submission leaves out was handled when  *)
(* its call read the link, or lies past the page; and what was handled is   *)
(* covered, and stays so.                                                   *)

Said(p) == \E r \in submitted : p \in r.said
Covered ==
    {n \in Nat :
        \A p \in 1 .. n :
            \/ Said(p)
            \/ p > PageSize
            \/ p <= Mention(link.session) /\ ~FirstWasSubmitted}

Posts == \A c \in Calls : ~At(c, "idle") => Mention(c) <= Len(thread)

\* The call that made the link found none, and does not come back to read it.
LinkerSawNothing ==
    \A c \in Calls : link.session = c =>
        calls[c].saw = NoLink /\ calls[c].at \in {"submit", "release", "done"}

CallCovers(c) ==
    /\ At(c, "create") \/ At(c, "link") => calls[c].saw = NoLink
    /\ At(c, "link") => calls[c].session = c
    /\ At(c, "submit") /\ calls[c].saw # NoLink => calls[c].saw.handled \in Covered
    /\ At(c, "handled") => Mention(c) \in Covered

CoverInv ==
    /\ thread \in Seq({"chat", "mention", "repo"})
    /\ Posts /\ LinkerSawNothing
    /\ \A c \in Calls : CallCovers(c)
    /\ link # NoLink => link.handled \in Covered

\* What a step of call `c` does to what is covered; `a` and `b` are where the
\* call was and is.
ContextMoves(c, a, b) ==
    \/ /\ UNCHANGED <<link, submitted>> /\ calls'[c].saw = calls[c].saw
       /\ \/ b \in {"release", "done"}
          \/ a = "dedupe" /\ b = "read"
          \/ a = "create" /\ b = "link" /\ calls'[c].session = c
    \/ /\ a = "read" /\ b = (IF link = NoLink THEN "create" ELSE "submit")
       /\ UNCHANGED <<link, submitted>> /\ calls'[c].saw = link
    \/ /\ a = "link" /\ b \in {"submit", "release"} /\ link = NoLink /\ link' = LinkOf(c)
       /\ submitted' = submitted /\ calls'[c].saw = calls[c].saw
    \/ /\ a = "submit" /\ b \in {"handled", "done", "release"}
       /\ b = "handled" => calls[c].saw # NoLink
       /\ \E gone \in BOOLEAN : submitted' = submitted \cup {Request(c, gone)}
       /\ link' = link /\ calls'[c].saw = calls[c].saw
    \/ /\ a = "handled" /\ b = "done" /\ Handled(c)
       /\ submitted' = submitted /\ calls'[c].saw = calls[c].saw

LEMMA ProceedsContext ==
  ASSUME IInv, NEW c \in Calls, Proceeds(c)
  PROVE  ContextMoves(c, calls[c].at, calls'[c].at)
<1>1. CASE Dedupes(c)
  <2>1. PICK at \in {"read", "done"} : Goes(c, at)
    BY <1>1 DEF Dedupes, Ended
  <2> QED
    BY <1>1, <2>1, GoesMoves DEF Dedupes, At, ContextMoves
<1>2. CASE Reads(c)
  <2>1. calls[c].at = "read" /\ UNCHANGED <<link, submitted>>
    BY <1>2 DEF Reads, At
  <2>2. CASE Goes(c, "done")
    BY <2>1, <2>2, GoesMoves DEF ContextMoves
  <2>3. CASE ~Goes(c, "done")
    <3> DEFINE at == IF link = NoLink THEN "create" ELSE "submit"
    <3>1. calls' = [calls EXCEPT ![c] = [at |-> at, saw |-> link, session |-> link.session]]
      BY <1>2, <2>3 DEF Reads, Ended
    <3>2. calls'[c].at = at /\ calls'[c].saw = link
      BY <3>1 DEF IInv, TypeOK
    <3> QED
      BY <2>1, <3>2 DEF ContextMoves
  <2> QED
    BY <2>2, <2>3
<1>3. CASE Creates(c)
  <2>1. calls[c].at = "create" /\ UNCHANGED <<link, submitted>>
    BY <1>3 DEF Creates, At
  <2>2. calls'[c].at = "link" /\ calls'[c].session = c /\ calls'[c].saw = calls[c].saw
    BY <1>3 DEF Creates, IInv, TypeOK, CallRows
  <2> QED
    BY <2>1, <2>2 DEF ContextMoves
<1>4. CASE Links(c)
  <2>1. calls[c].at = "link" /\ submitted' = submitted
    BY <1>4 DEF Links, At
  <2>2. CASE LinkIsFree
    BY <1>4, <2>1, <2>2, GoesMoves DEF Links, LinkIsFree, ContextMoves
  <2>3. CASE ~LinkIsFree
    BY <1>4, <2>1, <2>3, GoesMoves DEF Links, ContextMoves
  <2> QED
    BY <2>2, <2>3
<1>5. CASE Submits(c)
  <2>1. calls[c].at = "submit" /\ link' = link /\ submitted' = submitted \cup {Request(c, FALSE)}
    BY <1>5 DEF Submits, At, Accepts
  <2>2. \E gone \in BOOLEAN : submitted' = submitted \cup {Request(c, gone)}
    BY <2>1
  <2>3. PICK at \in {"done", "handled"} : Goes(c, at) /\ (at = "handled" => calls[c].saw # NoLink)
    BY <1>5 DEF Submits, Ended
  <2> QED
    BY <2>1, <2>2, <2>3, GoesMoves DEF ContextMoves
<1>6. CASE Handles(c)
  BY <1>6, GoesMoves DEF Handles, At, Ended, ContextMoves
<1>7. CASE Releases(c)
  BY <1>7, GoesMoves DEF Releases, At, Ended, ContextMoves
<1> QED
  BY <1>1, <1>2, <1>3, <1>4, <1>5, <1>6, <1>7 DEF Proceeds

LEMMA FailsContext ==
  ASSUME IInv, NEW c \in Calls, Fails(c)
  PROVE  ContextMoves(c, calls[c].at, calls'[c].at)
<1>1. CASE ReadFails(c) \/ CreateFails(c) \/ Cut(c) \/ ReplyIsLost(c)
  <2>1. UNCHANGED <<link, submitted>> /\ \E at \in {"release", "done"} : Goes(c, at)
    BY <1>1 DEF ReadFails, CreateFails, Cut, ReplyIsLost, Ended
  <2> QED
    BY <2>1, GoesMoves DEF ContextMoves
<1>2. CASE LinkFails(c)
  BY <1>2, GoesMoves DEF LinkFails, LinkIsFree, At, ContextMoves
<1>3. CASE SubmitFails(c)
  <2>1. calls[c].at = "submit" /\ link' = link /\ Goes(c, "release")
    BY <1>3 DEF SubmitFails, At
  <2>2. CASE submitted' = submitted
    BY <2>1, <2>2, GoesMoves DEF ContextMoves
  <2>3. CASE Accepts(c, TRUE)
    <3>1. \E gone \in BOOLEAN : submitted' = submitted \cup {Request(c, gone)}
      BY <2>3 DEF Accepts
    <3> QED
      BY <2>1, <3>1, GoesMoves DEF ContextMoves
  <2> QED
    BY <1>3, <2>2, <2>3 DEF SubmitFails
<1>4. CASE Throws(c)
  <2>1. Goes(c, "done") /\ submitted' = submitted
    BY <1>4 DEF Throws, Ended
  <2>2. link' = link \/ (calls[c].at = "handled" /\ Handled(c))
    BY <1>4 DEF Throws, DedupeFails, HandledFails, ReleaseFails, At
  <2> QED
    BY <2>1, <2>2, GoesMoves DEF ContextMoves
<1> QED
  BY <1>1, <1>2, <1>3, <1>4 DEF Fails

\* What a call about to submit says.
LEMMA SliceReaches ==
  ASSUME IInv, CoverInv, NEW c \in Calls, At(c, "submit"), NEW gone,
         submitted' = submitted \cup {Request(c, gone)},
         NEW p \in 1 .. Mention(c), calls[c].saw.handled < p
  PROVE  Said(p)' \/ p > PageSize
<1>1. Mention(c) \in Positions /\ Mention(c) <= Len(thread) /\ Len(thread) \in Nat
  BY DEF CoverInv, Posts, At, Mention, Calls
<1>2. calls[c].saw.handled \in Nat
  BY DEF IInv, TypeOK, CallRows, LinkRows
<1>3. p \in Nat /\ p <= Mention(c) /\ p \in Positions /\ p <= Len(thread)
  BY <1>1, ThreadAssumption DEF Positions
<1>4. p <= PageSize => p \in Slice(c)
  BY <1>2, <1>3 DEF Slice, Page
<1>5. Request(c, gone).said = Slice(c)
  BY DEF Request
<1> QED
  BY <1>3, <1>4, <1>5, ThreadAssumption DEF Said

\* What is covered stays covered, when the first mention is submitted, too.
LEMMA CoveredStays ==
  ASSUME IInv, CoverInv, NEW c \in Calls, ContextMoves(c, calls[c].at, calls'[c].at),
         link # NoLink, link'.session = link.session
  PROVE  Covered \subseteq Covered'
<1> SUFFICES ASSUME NEW n \in Covered, NEW p \in 1 .. n
             PROVE  Said(p)' \/ p > PageSize \/ (p <= Mention(link.session) /\ ~FirstWasSubmitted')
  BY DEF Covered
<1>1. submitted \subseteq submitted'
  BY DEF ContextMoves
<1>2. Said(p) => Said(p)'
  BY <1>1 DEF Said
<1>3. Said(p) \/ p > PageSize \/ (p <= Mention(link.session) /\ ~FirstWasSubmitted)
  BY DEF Covered
<1>4. CASE p <= Mention(link.session) /\ ~FirstWasSubmitted /\ FirstWasSubmitted'
  <2>1. PICK r \in submitted' : r.by = link.session /\ r \notin submitted
    BY <1>4 DEF FirstWasSubmitted
  <2>2. PICK gone \in BOOLEAN : submitted' = submitted \cup {Request(c, gone)}
    BY <2>1 DEF ContextMoves
  <2>3. r = Request(c, gone)
    BY <2>1, <2>2
  <2>4. link.session = c
    BY <2>1, <2>3, RequestFields
  <2>5. calls[c].at = "submit"
    BY <2>1 DEF ContextMoves
  <2>6. calls[c].saw.handled = 0
    BY <2>4 DEF CoverInv, LinkerSawNothing, NoLink, None
  <2>7. p \in 1 .. Mention(c) /\ 0 < p
    BY <1>4, <2>4 DEF Mention, Calls, Positions
  <2> QED
    BY <2>2, <2>5, <2>6, <2>7, SliceReaches DEF At
<1> QED
  BY <1>2, <1>3, <1>4

\* A submission covers what is up to its mention.
LEMMA SubmissionCovers ==
  ASSUME IInv, CoverInv, NEW c \in Calls, At(c, "submit"), calls[c].saw # NoLink, NEW gone \in BOOLEAN,
         submitted' = submitted \cup {Request(c, gone)},
         Covered \subseteq Covered'
  PROVE  Mention(c) \in Covered'
<1>1. PICK n \in Nat : n = calls[c].saw.handled
  BY DEF IInv, TypeOK, CallRows, LinkRows
<1>4. Mention(c) \in Nat
  BY ThreadAssumption DEF Mention, Calls, Positions
<1>2. n \in Covered'
  BY <1>1 DEF CoverInv, CallCovers
<1>3. ASSUME NEW p \in 1 .. Mention(c)
      PROVE  Said(p)' \/ p > PageSize \/ (p <= Mention(link'.session) /\ ~FirstWasSubmitted')
  <2>1. CASE n < p
    BY <1>1, <2>1, SliceReaches
  <2>2. CASE ~(n < p)
    <3>1. p \in 1 .. n
      BY <1>1, <1>4, <2>2
    <3> QED
      BY <1>2, <3>1 DEF Covered
  <2> QED
    BY <2>1, <2>2
<1> QED
  BY <1>3, <1>4 DEF Covered

LEMMA SlackStepsCover ==
  ASSUME IInv, CoverInv, DeliveryInv,
         \/ \E message \in {"chat", "mention", "repo"} : Posted(message)
         \/ \E m \in Positions : Delivered(m)
         \/ Command
  PROVE  CoverInv'
<1>1. UNCHANGED <<link, submitted>>
  BY DEF Posted, Delivered, Command
<1>2. Covered' = Covered
  BY <1>1 DEF Covered, Said, FirstWasSubmitted
<1>3. CASE calls' = calls
  <2>1. thread' \in Seq({"chat", "mention", "repo"}) /\ Len(thread') >= Len(thread)
    <3>1. thread \in Seq({"chat", "mention", "repo"}) /\ Len(thread) \in Nat
      BY DEF CoverInv
    <3>2. CASE thread' = thread
      BY <3>1, <3>2
    <3>3. ASSUME NEW message \in {"chat", "mention", "repo"}, thread' = Append(thread, message)
          PROVE  thread' \in Seq({"chat", "mention", "repo"}) /\ Len(thread') >= Len(thread)
      BY <3>1, <3>3
    <3> QED
      BY <3>2, <3>3 DEF Posted, Delivered, Command
  <2>2. Posts'
    BY <1>3, <2>1, ThreadAssumption DEF CoverInv, Posts, At, Mention, Calls, Positions
  <2>3. \A d \in Calls : CallCovers(d)'
    BY <1>2, <1>3 DEF CoverInv, CallCovers, At
  <2> QED
    BY <1>1, <1>2, <1>3, <2>1, <2>2, <2>3 DEF CoverInv, LinkerSawNothing
<1>4. ASSUME NEW m \in Positions, Delivered(m)
      PROVE  CoverInv'
  <2> DEFINE c == <<m, delivered[m] + 1>>
  <2>1. Goes(c, "dedupe") /\ thread' = thread /\ m <= Len(thread)
    BY <1>4 DEF Delivered, DeliveryInv, MentionsBot
  <2>2. ASSUME NEW d \in Calls
        PROVE  /\ calls'[d].at = (IF d = c THEN "dedupe" ELSE calls[d].at)
               /\ calls'[d].saw = calls[d].saw /\ calls'[d].session = calls[d].session
    BY <2>1 DEF Goes, IInv, TypeOK, CallRows
  <2>3. c \in Calls => calls[c].at = "idle"
    BY DEF DeliveryInv, NotYet, At, Mention
  <2>4. Posts'
    BY <2>1, <2>2 DEF CoverInv, Posts, At, Mention
  <2>5. LinkerSawNothing'
    BY <1>1, <2>2, <2>3 DEF CoverInv, LinkerSawNothing
  <2>6. \A d \in Calls : CallCovers(d)'
    BY <1>2, <2>2 DEF CoverInv, CallCovers, At
  <2> QED
    BY <1>1, <1>2, <2>1, <2>4, <2>5, <2>6 DEF CoverInv
<1> QED
  BY <1>3, <1>4 DEF Posted, Command

LEMMA CallStepsCover ==
  ASSUME IInv, IInv', CoverInv, NEW c \in Calls, CallMoves(c),
         ContextMoves(c, calls[c].at, calls'[c].at)
  PROVE  CoverInv'
<1> DEFINE a == calls[c].at
           b == calls'[c].at
<1>1. (\A d \in Calls \ {c} : calls'[d] = calls[d]) /\ thread' = thread
  BY DEF CallMoves
<1>2. Mention(c) \in Nat /\ Mention(c) >= 1
  BY ThreadAssumption DEF Mention, Calls, Positions
<1>3. link # NoLink => link' # NoLink /\ link'.session = link.session
  <2>1. Handled(c) => link'.session = link.session /\ link'.handled = Mention(c)
    BY DEF Handled, IInv, TypeOK, LinkRows
  <2> QED
    BY <1>2, <2>1 DEF ContextMoves, NoLink, None
<1>4. link # NoLink => Covered \subseteq Covered'
  BY <1>3, CoveredStays
<1>5. b # "idle" /\ a # "idle"
  BY DEF ContextMoves, CallMoves, ClaimMoves, Working
<1>6. Posts'
  BY <1>1, <1>5 DEF CoverInv, Posts, At
<1>7. NoSession \notin Calls
  BY DEF NoSession, None, Calls, Positions
<1>8. CASE link = NoLink /\ link' = LinkOf(c) /\ a = "link"
  <2>1. /\ b \in {"submit", "release"} /\ submitted' = submitted /\ calls'[c].saw = calls[c].saw
        /\ calls[c].saw = NoLink /\ calls[c].session = c
    <3>1. LinkOf(c) # NoLink
      BY <1>2 DEF LinkOf, NoLink, None
    <3> QED
      BY <1>8, <3>1 DEF ContextMoves, CoverInv, CallCovers, At
  <2>2. link'.session = c /\ link'.handled = Mention(c)
    BY <1>8, <2>1 DEF LinkOf
  <2>3. LinkerSawNothing'
    BY <2>1, <2>2 DEF LinkerSawNothing
  <2>4. submitted = {}
    BY <1>8 DEF IInv, SubmittedToLinked
  <2>5. link'.handled \in Covered'
    <3>1. ~FirstWasSubmitted'
      BY <2>1, <2>4 DEF FirstWasSubmitted
    <3> QED
      BY <1>2, <2>2, <3>1 DEF Covered
  <2>6. CallCovers(c)'
    BY <2>1 DEF CallCovers, At
  <2>7. ASSUME NEW d \in Calls \ {c}
        PROVE  CallCovers(d)'
    BY <1>1, <1>8 DEF CoverInv, CallCovers, At, IInv, CallsHold, Holds
  <2> QED
    BY <1>1, <1>6, <2>3, <2>5, <2>6, <2>7 DEF CoverInv
<1>9. CASE ~(link = NoLink /\ link' = LinkOf(c) /\ a = "link")
  <2>1. link = NoLink => link' = NoLink
    <3>1. a = "handled" => link # NoLink
      BY DEF IInv, CallsHold, Holds
    <3> QED
      BY <1>9, <3>1 DEF ContextMoves
  <2>2. link'.session = link.session
    BY <1>3, <2>1
  <2>3. a # "read" /\ a # "dedupe" /\ a # "link" /\ a # "create" => calls'[c].saw = calls[c].saw
    BY DEF ContextMoves
  <2>4. a \in {"submit", "release", "done"} /\ calls[c].saw = NoLink => b \in {"submit", "release", "done"}
    BY DEF ContextMoves
  <2>5. LinkerSawNothing'
    BY <1>1, <2>2, <2>3, <2>4 DEF CoverInv, LinkerSawNothing
  <2>6. ASSUME NEW d \in Calls \ {c}
        PROVE  CallCovers(d)'
    <3>1. calls'[d] = calls[d]
      BY <1>1
    <3>2. At(d, "submit") \/ At(d, "handled") => link # NoLink
      BY DEF At, IInv, CallsHold, Holds
    <3>3. calls[d].saw.handled \in Nat /\ Mention(d) \in Nat
      BY ThreadAssumption DEF IInv, TypeOK, CallRows, LinkRows, Mention, Calls, Positions
    <3> QED
      BY <1>4, <3>1, <3>2, <3>3 DEF CoverInv, CallCovers, At
  <2>7. ASSUME a = "read" /\ b \in {"create", "submit"} PROVE CallCovers(c)'
    <3>1. /\ calls'[c].saw = link /\ UNCHANGED <<link, submitted>>
          /\ b = "create" => link = NoLink
          /\ b = "submit" => link # NoLink
      BY <2>7 DEF ContextMoves
    <3>2. link.handled \in Nat
      BY DEF IInv, TypeOK, LinkRows
    <3>3. b = "submit" => link'.handled \in Covered'
      BY <1>4, <3>1, <3>2 DEF CoverInv
    <3> QED
      BY <2>7, <3>1, <3>3 DEF CallCovers, At
  <2>8. ASSUME a = "submit" /\ b = "handled" PROVE CallCovers(c)'
    <3>1. calls[c].saw # NoLink /\ link # NoLink
      BY <2>8 DEF ContextMoves, IInv, CallsHold, Holds
    <3>2. PICK gone \in BOOLEAN : submitted' = submitted \cup {Request(c, gone)}
      BY <2>8 DEF ContextMoves
    <3>3. Mention(c) \in Covered'
      BY <1>4, <2>8, <3>1, <3>2, SubmissionCovers DEF At
    <3> QED
      BY <2>8, <3>3 DEF CallCovers, At
  <2>9. ASSUME a = "create" /\ b = "link" PROVE CallCovers(c)'
    <3>1. calls'[c].saw = NoLink /\ calls'[c].session = c
      BY <2>9 DEF ContextMoves, CoverInv, CallCovers, At
    <3> QED
      BY <2>9, <3>1 DEF CallCovers, At
  <2>10. ASSUME b \notin {"create", "link", "submit", "handled"} PROVE CallCovers(c)'
    BY <2>10 DEF CallCovers, At
  <2>11. CallCovers(c)'
    <3>1. \/ a = "read" /\ b \in {"create", "submit"}
          \/ a = "submit" /\ b = "handled"
          \/ a = "create" /\ b = "link"
          \/ b \notin {"create", "link", "submit", "handled"}
      <4>1. LinkOf(c) # NoLink
        BY <1>2 DEF LinkOf, NoLink, None
      <4> QED
        BY <1>9 DEF ContextMoves
    <3> QED
      BY <2>7, <2>8, <2>9, <2>10, <3>1
  <2>12. link' # NoLink => link'.handled \in Covered'
    <3> SUFFICES ASSUME link' # NoLink PROVE link'.handled \in Covered'
      OBVIOUS
    <3>1. link # NoLink
      BY <2>1
    <3>2. CASE link' = link
      <4>1. link.handled \in Nat
        BY DEF IInv, TypeOK, LinkRows
      <4> QED
        BY <1>4, <3>1, <3>2, <4>1 DEF CoverInv
    <3>3. CASE link' # link
      <4>1. a = "handled" /\ Handled(c)
        BY <1>9, <3>3 DEF ContextMoves
      <4>2. link'.handled = Mention(c)
        BY <4>1 DEF Handled, IInv, TypeOK, LinkRows
      <4>3. Mention(c) \in Covered
        BY <4>1 DEF CoverInv, CallCovers, At
      <4> QED
        BY <1>2, <1>4, <3>1, <4>2, <4>3
    <3> QED
      BY <3>2, <3>3
  <2> QED
    BY <1>1, <1>6, <2>5, <2>6, <2>11, <2>12 DEF CoverInv
<1> QED
  BY <1>8, <1>9

-----------------------------------------------------------------------------
(* Theorems *)

LEMMA InitialThread == Init => IInv
<1> SUFFICES ASSUME Init PROVE IInv
  OBVIOUS
<1>1. NoLink \in LinkRows /\ Idle \in CallRows
  BY DEF NoLink, LinkRows, Idle, CallRows, Steps, None
<1>2. TypeOK
  BY <1>1 DEF Init, TypeOK
<1>3. CallsHold
  BY DEF Init, CallsHold, Holds, Idle
<1> QED
  BY <1>2, <1>3 DEF Init, IInv, SubmittedToLinked

\* The inductive invariant.
THEOREM ThreadInvariant == Spec => []IInv
<1>1. Init => IInv
  BY InitialThread
<1>2. IInv /\ [Next]_vars => IInv'
  <2> SUFFICES ASSUME IInv, [Next]_vars PROVE IInv'
    OBVIOUS
  <2>1. CASE Next
    BY <2>1, SlackSteps, ProceedsHolds, FailsHolds DEF Next
  <2>2. CASE UNCHANGED vars
    BY <2>2 DEF vars, IInv, TypeOK, CallsHold, Holds, SubmittedToLinked
  <2> QED
    BY <2>1, <2>2
<1> QED
  BY <1>1, <1>2, PTL DEF Spec

\* However the mentions of a thread race and fail, and although some of their
\* Sessions are never linked, what is submitted goes to the linked Session.
THEOREM OneSessionIsEverAsked == Spec => []OneSessionIsAsked
<1>1. IInv => OneSessionIsAsked
  BY DEF IInv, SubmittedToLinked, OneSessionIsAsked
<1> QED
  BY <1>1, ThreadInvariant, PTL

\* While a call works on a mention it has it for itself, what was submitted is
\* never released, and what was handled is covered by the requests.
FullInv == IInv /\ DeliveryInv /\ CoverInv

\* A call that works on a mention alone has its row, and handled mentions are said.
THEOREM ThreadIsHandled == Spec => []FullInv
<1>1. Init => FullInv
  <2> SUFFICES ASSUME Init PROVE DeliveryInv /\ CoverInv
    BY InitialThread DEF FullInv
  <2>1. \A c \in Calls : calls[c] = Idle /\ calls[c].at = "idle"
    BY DEF Init, Idle
  <2>2. delivered \in [Positions -> Nat] /\ IsFiniteSet(submitted)
    BY FS_EmptySet DEF Init
  <2>3. NotYet /\ WorkIsClaimed /\ OneWorks /\ HandledWasSent
    BY <2>1 DEF NotYet, At, WorkIsClaimed, OneWorks, HandledWasSent, Works, Working
  <2>4. SentIsKept /\ SentOnce /\ ClaimsHold
    BY DEF Init, SentIsKept, SentOnce, ClaimsHold
  <2>5. DeliveriesCount
    BY DEF Init, DeliveriesCount
  <2>6. DeliveryInv
    BY <2>2, <2>3, <2>4, <2>5 DEF DeliveryInv
  <2>7. thread \in Seq({"chat", "mention", "repo"})
    BY DEF Init
  <2>8. NoSession \notin Calls
    BY DEF NoSession, None, Calls, Positions
  <2>9. Posts /\ LinkerSawNothing /\ (\A c \in Calls : CallCovers(c)) /\ link = NoLink
    BY <2>1, <2>8 DEF Init, Posts, LinkerSawNothing, CallCovers, At, NoLink
  <2> QED
    BY <2>6, <2>7, <2>9 DEF CoverInv
<1>2. FullInv /\ [Next]_vars => FullInv'
  <2> SUFFICES ASSUME FullInv, [Next]_vars PROVE FullInv'
    OBVIOUS
  <2>1. CASE \/ \E message \in {"chat", "mention", "repo"} : Posted(message)
             \/ \E m \in Positions : Delivered(m)
             \/ Command
    BY <2>1, SlackSteps, SlackStepsDeliver, SlackStepsCover DEF FullInv
  <2>2. ASSUME NEW c \in Calls, Proceeds(c) \/ Fails(c) PROVE FullInv'
    <3>1. IInv'
      BY <2>2, ProceedsHolds, FailsHolds DEF FullInv
    <3>2. CallMoves(c) /\ ContextMoves(c, calls[c].at, calls'[c].at)
      BY <2>2, ProceedsMoves, FailsMoves, ProceedsContext, FailsContext DEF FullInv
    <3> QED
      BY <3>1, <3>2, CallStepsDeliver, CallStepsCover DEF FullInv
  <2>3. CASE UNCHANGED vars
    <3>1. IInv'
      BY <2>3 DEF FullInv, vars, IInv, TypeOK, CallsHold, Holds, SubmittedToLinked
    <3>2. DeliveryInv'
      BY <2>3 DEF FullInv, vars, DeliveryInv, NotYet, WorkIsClaimed, OneWorks, SentIsKept, SentOnce,
                  HandledWasSent, ClaimsHold, DeliveriesCount, Works, Settled, Answered, Held,
                  UnderWay, At, OfMention
    <3>3. CoverInv'
      BY <2>3 DEF FullInv, vars, CoverInv, Posts, LinkerSawNothing, CallCovers, Covered, Said,
                  FirstWasSubmitted, At
    <3> QED
      BY <3>1, <3>2, <3>3 DEF FullInv
  <2> QED
    BY <2>1, <2>2, <2>3 DEF Next
<1> QED
  BY <1>1, <1>2, PTL DEF Spec

\* However often a mention is delivered and its calls overlap, it is submitted
\* once, and again only after an answer of the Session was lost.
THEOREM EachMentionOnce == Spec => []SubmittedOnce
<1>1. FullInv => SubmittedOnce
  <2> SUFFICES ASSUME FullInv, NEW m \in Positions
               PROVE  Cardinality(OfMention(m)) <= 1 + Cardinality({r \in OfMention(m) : r.lost})
    BY DEF SubmittedOnce
  <2> DEFINE lostOnes == {r \in OfMention(m) : r.lost}
  <2>1. IsFiniteSet(OfMention(m))
    BY FS_Subset DEF FullInv, DeliveryInv, OfMention
  <2>0. \A i, j \in Nat : j = i \/ j = i + 1 => j <= 1 + i
    OBVIOUS
  <2>2. IsFiniteSet(lostOnes) /\ Cardinality(lostOnes) \in Nat
    BY <2>1, FS_Subset, FS_CardinalityType
  <2>3. CASE \A r \in OfMention(m) : r.lost
    <3>1. Cardinality(OfMention(m)) = Cardinality(lostOnes)
      <4>1. OfMention(m) = lostOnes
        BY <2>3
      <4> QED
        BY <4>1
    <3> QED
      BY <2>2, <3>1, <2>0
  <2>4. CASE \E r \in OfMention(m) : ~r.lost
    <3>1. PICK r \in OfMention(m) : ~r.lost
      BY <2>4
    <3>2. \A s \in OfMention(m) : s.lost \/ s = r
      BY <3>1 DEF FullInv, DeliveryInv, SentOnce, OfMention, SameMention
    <3>3. OfMention(m) = lostOnes \cup {r} /\ r \notin lostOnes
      BY <3>1, <3>2
    <3>4. Cardinality(lostOnes \cup {r}) = Cardinality(lostOnes) + 1
      BY <2>2, <3>3, FS_AddElement
    <3>5. Cardinality(OfMention(m)) = Cardinality(lostOnes) + 1
      BY <3>3, <3>4
    <3> QED
      BY <2>2, <3>5, <2>0
  <2> QED
    BY <2>3, <2>4
<1> QED
  BY <1>1, ThreadIsHandled, PTL

\* The requests leave out nothing of what was handled, but what the page did not
\* reach and what led to a first mention that was never submitted.
THEOREM NothingIsSkipped == Spec => []ContextIsComplete
<1>1. FullInv => ContextIsComplete
  <2> SUFFICES ASSUME FullInv, NEW p \in 1 .. link.handled
               PROVE  \/ \E r \in submitted : p \in r.said
                      \/ p > PageSize
                      \/ p <= Mention(link.session) /\ ~FirstWasSubmitted
    BY DEF ContextIsComplete
  <2>1. link # NoLink
    BY DEF NoLink, None
  <2> QED
    BY <2>1 DEF FullInv, CoverInv, Covered, Said
<1> QED
  BY <1>1, ThreadIsHandled, PTL

\* A mention whose deliveries are over was submitted or answered, or a call of
\* it broke off.
THEOREM NoMentionIsForgotten == Spec => []MentionIsAnswered
<1>1. FullInv => MentionIsAnswered
  BY DEF FullInv, DeliveryInv, DeliveriesCount, UnderWay, Answered, IsOver, MentionIsAnswered
<1> QED
  BY <1>1, ThreadIsHandled, PTL

-----------------------------------------------------------------------------
(***************************************************************************)
(* RunCards. The chunks of a final response arrive in order and once for   *)
(* each answer of Slack, and the row of the run is kept until they did.    *)
(*                                                                         *)
(* A chunk that is done with, because it is in the thread or somebody left *)
(* a claim behind, stays so. A delivery passes over the chunks that are    *)
(* done with, and only one that holds the claim of a chunk posts it.       *)
(***************************************************************************)

By == {"event", "alarm"}
Rows == [status : {"none", "in_progress", "uncertain"}, projected : Nat, delivered : Nat,
         print : Int, pending : BOOLEAN, retry : {"never", "later", "due"}]
Delivering == [at : {"claim", "post", "release"}, chunk : Pieces, attempt : Nat, by : By]
Setting == [at : {"status", "heartbeat"}, read : Rows, text : Int, by : By]

CardTypes ==
    /\ cursor \in Nat
    /\ shown \in [text : Nat, waiting : BOOLEAN, ended : BOOLEAN]
    /\ row \in Rows /\ flush \in {NoFlush} \cup Delivering \cup Setting
    /\ claims \in SUBSET Pieces /\ posts \in [Pieces -> Nat] /\ lost \in Nat

-----------------------------------------------------------------------------
(* The invariant *)

InFlight(c) == flush \in Delivering /\ flush.at \in {"post", "release"} /\ flush.chunk = c
DoneWith(c) == posts[c] > 0 \/ (c \in claims /\ ~InFlight(c))

\* A delivery is of a run that ended, has done with the chunks before its own,
\* and holds the claim of what it posts, of which every answer got lost.
HolderInv ==
    flush \in Delivering =>
        /\ Terminal
        /\ \A b \in Pieces : b < flush.chunk => DoneWith(b)
        /\ flush.at # "claim" => flush.chunk \in claims /\ posts[flush.chunk] <= lost

PostsInv ==
    \A c \in Pieces :
        /\ posts[c] <= 1 + lost
        /\ c \notin claims => posts[c] <= lost
        /\ posts[c] > 0 => Terminal /\ \A b \in Pieces : b < c => DoneWith(b)

\* Who has a row has a run; a run that ended has none only when all is done with.
RowInv ==
    /\ cursor = 0 => row = NoRow /\ flush = NoFlush /\ ~Terminal
    /\ flush \in Setting => flush.read.status # "none"
    /\ cursor > 0 /\ ~Terminal => row.status # "none"
    /\ Terminal /\ row.status = "none" => \A c \in Pieces : DoneWith(c)

CardInv == CardTypes /\ HolderInv /\ PostsInv /\ RowInv

LEMMA Ats ==
  /\ NoFlush \notin Delivering /\ NoFlush \notin Setting
  /\ \A x \in Delivering : x \notin Setting
  /\ \A x \in Delivering : x.at \in {"claim", "post", "release"} /\ x # NoFlush
  /\ \A x \in Setting : x.at \in {"status", "heartbeat"} /\ x # NoFlush
  /\ NoFlush.at = "idle" /\ NoFlush.by = "nobody"
<1>1. \A x \in Delivering : x.at \in {"claim", "post", "release"}
  BY DEF Delivering
<1>2. \A x \in Setting : x.at \in {"status", "heartbeat"}
  BY DEF Setting
<1>3. NoFlush.at = "idle" /\ NoFlush.by = "nobody"
  BY DEF NoFlush
<1>4. \A x : x.at = "idle" => x \notin Delivering /\ x \notin Setting
  BY <1>1, <1>2
<1>5. \A x : ~(x \in Delivering /\ x \in Setting)
  BY <1>1, <1>2
<1>6. NoFlush \notin Delivering /\ NoFlush \notin Setting
  BY <1>3, <1>4
<1>7. (\A x \in Delivering : x # NoFlush) /\ (\A x \in Setting : x # NoFlush)
  BY <1>6
<1> QED
  BY <1>1, <1>2, <1>3, <1>5, <1>6, <1>7

-----------------------------------------------------------------------------
(* flush *)

\* A flush that is allowed to start does: it ends at once, delivers the response
\* of a run that ended, or sets the status of one that did not.
LEMMA FlushStarts ==
  ASSUME CardTypes, NEW r \in Rows, NEW by \in By, Flushes(r, by),
         shown' \in [text : Nat, waiting : BOOLEAN, ended : BOOLEAN]
  PROVE  /\ row' \in Rows /\ row'.status = r.status
         /\ \/ flush' = flush
            \/ flush' = NoFlush
            \/ flush' \in Delivering /\ flush'.at = "claim" /\ flush'.chunk = 1 /\ Terminal'
            \/ flush' \in Setting /\ flush'.read = r /\ ~Terminal'
<1> DEFINE off == [r EXCEPT !.retry = "never"]
<1>1. /\ off \in Rows /\ off.status = r.status
      /\ Seen(r) \in Rows /\ Seen(r).status = r.status
  <2>1. off \in Rows /\ off.status = r.status
    BY DEF Rows
  <2>2. NoText \in Int
    BY DEF NoText
  <2>3. Seen(r) = [r EXCEPT !.delivered = r.projected, !.print = NoText, !.retry = "never"]
    BY DEF Seen
  <2>4. Seen(r) \in Rows /\ Seen(r).status = r.status
    BY <2>2, <2>3 DEF Rows
  <2> QED
    BY <2>1, <2>4
<1>2. 1 \in Pieces /\ 1 \in Nat
  BY CardAssumption DEF Pieces
<1>3. ASSUME NEW q \in Rows, q.status = r.status, Stops(q)
      PROVE  row' \in Rows /\ row'.status = r.status /\ flush' = NoFlush
  BY <1>3 DEF Stops
<1>4. ASSUME NEW q \in Rows, q.status = r.status, DeliversFinal(q, by), Terminal'
      PROVE  /\ row' \in Rows /\ row'.status = r.status
             /\ \/ flush' = NoFlush
                \/ flush' \in Delivering /\ flush'.at = "claim" /\ flush'.chunk = 1 /\ Terminal'
  BY <1>2, <1>4 DEF DeliversFinal, Delivering
<1>5. CASE flush # NoFlush \/ ~IsDue(r)
  BY <1>5 DEF Flushes
<1>6. CASE ~(flush # NoFlush \/ ~IsDue(r))
  <2>1. CASE r.status = "uncertain"
    <3>1. IF Terminal' THEN DeliversFinal(off, by) ELSE Stops(off)
      BY <1>6, <2>1 DEF Flushes
    <3> HIDE DEF off
    <3> QED
      BY <1>1, <1>3, <1>4, <3>1
  <2>2. CASE r.status # "uncertain" /\ Terminal'
    <3>1. DeliversFinal(Seen(r), by)
      BY <1>6, <2>2 DEF Flushes
    <3> QED
      BY <1>1, <1>4, <2>2, <3>1
  <2>3. CASE r.status # "uncertain" /\ ~Terminal' /\ Status' = NoText
    <3>1. Stops(Seen(r))
      BY <1>6, <2>3 DEF Flushes
    <3> QED
      BY <1>1, <1>3, <3>1
  <2>4. CASE r.status # "uncertain" /\ ~Terminal' /\ Status' # NoText
    <3>1. PICK at \in {"heartbeat", "status"} :
            row' = r /\ flush' = [at |-> at, read |-> r, text |-> Status', by |-> by]
      BY <1>6, <2>4 DEF Flushes
    <3>2. Status' \in Int
      BY DEF Status, NoText
    <3> QED
      BY <2>4, <3>1, <3>2 DEF Setting
  <2> QED
    BY <2>1, <2>2, <2>3, <2>4
<1> QED
  BY <1>5, <1>6

-----------------------------------------------------------------------------
(* Steps that leave Slack alone *)

\* How the flush goes on: as it was, not at all, with the response of a run that
\* ended, or with the status of one that did not.
GoesOn ==
    \/ flush' = flush
    \/ flush' = NoFlush
    \/ flush' \in Delivering /\ flush'.at = "claim" /\ flush'.chunk = 1 /\ Terminal'
    \/ flush' \in Setting /\ flush'.read.status # "none"

LEMMA Keeps ==
  ASSUME CardInv, UNCHANGED postVars, GoesOn,
         cursor' \in Nat \ {0}, shown' \in [text : Nat, waiting : BOOLEAN, ended : BOOLEAN],
         Terminal => Terminal',
         row' \in Rows, row'.status # "none" \/ (Terminal /\ row.status = "none")
  PROVE  CardInv'
<1>1. CardTypes'
  BY DEF CardInv, CardTypes, GoesOn, postVars
<1>2. UNCHANGED <<claims, posts, lost>>
  BY DEF postVars
<1>3. \A c \in Pieces : InFlight(c)' => InFlight(c)
  BY Ats DEF GoesOn, InFlight
<1>4. \A c \in Pieces : DoneWith(c) => DoneWith(c)'
  BY <1>2, <1>3 DEF DoneWith
<1>5. HolderInv'
  <2>1. CASE flush' = flush
    BY <1>2, <1>4, <2>1 DEF CardInv, HolderInv
  <2>2. CASE flush' = NoFlush \/ flush' \in Setting
    BY <2>2, Ats DEF HolderInv
  <2>3. CASE flush' \in Delivering /\ flush'.at = "claim" /\ flush'.chunk = 1 /\ Terminal'
    BY <2>3 DEF HolderInv, Pieces
  <2> QED
    BY <2>1, <2>2, <2>3 DEF GoesOn
<1>6. PostsInv'
  BY <1>2, <1>4 DEF CardInv, PostsInv
<1>7. RowInv'
  <2>1. flush' \in Setting => flush'.read.status # "none"
    BY Ats DEF GoesOn, CardInv, RowInv
  <2>2. Terminal' /\ row'.status = "none" => \A c \in Pieces : DoneWith(c)'
    BY <1>4 DEF CardInv, RowInv
  <2>3. cursor' # 0
    OBVIOUS
  <2>4. ~Terminal' => row'.status # "none"
    OBVIOUS
  <2> QED
    BY <2>1, <2>2, <2>3, <2>4 DEF RowInv
<1> QED
  BY <1>1, <1>5, <1>6, <1>7 DEF CardInv

\* An event: the run has a row, and a flush may start.
LEMMA EventKeeps ==
  ASSUME CardInv, NEW r \in Rows, r.status # "none", Flushes(r, "event"), UNCHANGED postVars,
         cursor' \in Nat \ {0}, shown' \in [text : Nat, waiting : BOOLEAN, ended : BOOLEAN],
         Terminal => Terminal'
  PROVE  CardInv'
<1>1. row' \in Rows /\ row'.status # "none" /\ GoesOn
  BY FlushStarts DEF GoesOn, CardInv, By
<1> QED
  BY <1>1, Keeps

LEMMA EventHasRow ==
  ASSUME CardInv, NEW type, NEW r, cursor' \in Nat,
         r = Upserted(type, FALSE) \/ r = Upserted(type, TRUE)
  PROVE  r \in Rows /\ r.status # "none"
<1>1. row \in Rows
  BY DEF CardInv, CardTypes
<1>2. PICK s \in {"in_progress", "uncertain"}, n \in {"due", "later"}, p \in BOOLEAN :
        r = [row EXCEPT !.status = s, !.projected = cursor', !.pending = p, !.retry = n]
  <2>1. PICK n \in {"due", "later"} :
          n = IF type \in Immediate \cup {"request", "end"} THEN "due" ELSE "later"
    OBVIOUS
  <2>2. PICK s \in {"in_progress", "uncertain"} :
          s = IF row.status = "none" THEN "in_progress" ELSE row.status
    BY <1>1 DEF Rows
  <2>3. row.pending \in BOOLEAN
    BY <1>1 DEF Rows
  <2>4. CASE r = Upserted(type, FALSE)
    <3>1. r = [row EXCEPT !.status = s, !.projected = cursor', !.pending = (row.pending \/ FALSE), !.retry = n]
      BY <1>1, <2>1, <2>2, <2>4 DEF Upserted, Rows
    <3> QED
      BY <2>3, <3>1
  <2>5. CASE r = Upserted(type, TRUE)
    <3>1. r = [row EXCEPT !.status = s, !.projected = cursor', !.pending = (row.pending \/ TRUE), !.retry = n]
      BY <1>1, <2>1, <2>2, <2>5 DEF Upserted, Rows
    <3> QED
      BY <2>3, <3>1
  <2> QED
    BY <2>4, <2>5
<1> QED
  BY <1>1, <1>2 DEF Rows

\* Who sets the alarm, or waits for it, changes at most when the row is due.
LEMMA RowsKeep ==
  ASSUME CardInv, UNCHANGED <<eventVars, postVars>>, cursor # 0,
         flush' = flush \/ flush' = NoFlush,
         \E q \in Rows : /\ q.status = row.status \/ (flush \in Setting /\ q.status # "none")
                         /\ row' = q
  PROVE  CardInv'
<1>1. row' \in Rows /\ (row'.status = row.status \/ row'.status # "none")
  BY DEF CardInv, RowInv
<1>2. Terminal' = Terminal /\ cursor' \in Nat \ {0} /\ shown' = shown /\ shown' \in [text : Nat, waiting : BOOLEAN, ended : BOOLEAN]
  BY DEF eventVars, Terminal, CardInv, CardTypes
<1>3. row'.status # "none" \/ (Terminal /\ row.status = "none")
  BY <1>1, <1>2 DEF CardInv, RowInv, CardTypes
<1>4. GoesOn
  BY DEF GoesOn
<1> QED
  BY <1>1, <1>2, <1>3, <1>4, Keeps

LEMMA EventSteps ==
  ASSUME CardInv, Requested \/ (\E type \in Events : Happens(type)) \/ RunEnds
  PROVE  CardInv'
<1> DEFINE Shown == [text : Nat, waiting : BOOLEAN, ended : BOOLEAN]
<1>1. cursor \in Nat /\ shown \in Shown
  BY DEF CardInv, CardTypes
<1>2. ASSUME NEW type, OnEvent(type, FALSE) \/ OnEvent(type, TRUE),
             cursor' = cursor + 1, shown' \in Shown, Terminal => Terminal'
      PROVE  CardInv'
  <2>1. PICK r : /\ r = Upserted(type, FALSE) \/ r = Upserted(type, TRUE)
                 /\ Flushes(r, "event") /\ UNCHANGED postVars
    BY <1>2 DEF OnEvent
  <2>2. cursor' \in Nat \ {0}
    BY <1>1, <1>2
  <2>3. r \in Rows /\ r.status # "none"
    BY <1>2, <2>1, <2>2, EventHasRow
  <2> QED
    BY <1>2, <2>1, <2>2, <2>3, EventKeeps
<1>3. CASE Requested
  <2>1. cursor = 0 /\ cursor' = 1 /\ shown' = [text |-> 1, waiting |-> FALSE, ended |-> FALSE]
    BY <1>3 DEF Requested
  <2>2. OnEvent("request", FALSE)
    BY <1>3 DEF Requested
  <2>3. ~Terminal
    BY <2>1 DEF CardInv, RowInv
  <2>4. cursor' = cursor + 1 /\ shown' \in Shown
    BY <2>1
  <2> QED
    BY <1>2, <2>2, <2>3, <2>4, Zenon
<1>4. ASSUME NEW type \in Events, Happens(type) PROVE CardInv'
  <2>1. OnEvent(type, FALSE) /\ cursor' = cursor + 1
    BY <1>4 DEF Happens
  <2>2. Projected(shown, type) \in Shown
    <3> DEFINE w == [shown EXCEPT !.waiting = FALSE]
    <3>1. w \in Shown /\ [shown EXCEPT !.waiting = TRUE] \in Shown
      BY <1>1
    <3>2. \A x \in Shown : Advanced(x) \in Shown
      BY DEF Advanced
    <3> HIDE DEF Shown, w
    <3>3. CASE type = "progress"
      BY <1>1, <3>2, <3>3 DEF Projected
    <3>4. CASE type \in {"question", "approval"}
      BY <3>1, <3>4 DEF Projected
    <3>5. CASE type = "execution"
      <4>1. Projected(shown, type) = Advanced(w)
        BY <3>5 DEF Projected, w
      <4> QED
        BY <3>1, <3>2, <4>1
    <3>6. CASE type \notin {"progress", "question", "approval", "execution"}
      BY <1>1, <3>6 DEF Projected
    <3> QED
      BY <3>3, <3>4, <3>5, <3>6
  <2>3. shown' \in Shown /\ (Terminal => Terminal')
    <3>1. shown' = IF Terminal THEN shown ELSE Projected(shown, type)
      BY <1>4 DEF Happens
    <3>2. CASE Terminal
      BY <1>1, <3>1, <3>2 DEF Terminal
    <3>3. CASE ~Terminal
      BY <2>2, <3>1, <3>3
    <3> QED
      BY <3>2, <3>3
  <2> QED
    BY <1>2, <2>1, <2>3
<1>5. CASE RunEnds
  <2>1. OnEvent("end", TRUE) /\ cursor' = cursor + 1 /\ ~Terminal /\ shown' \in Shown
    BY <1>1, <1>5 DEF RunEnds
  <2> QED
    BY <1>2, <2>1
<1> QED
  BY <1>3, <1>4, <1>5

LEMMA StatusSteps ==
  ASSUME CardInv, StatusIsSet \/ HeartbeatIsSet \/ StatusFails \/ LookupThrows
  PROVE  CardInv'
<1>1. flush \in Setting /\ flush.read \in Rows /\ flush.text \in Int /\ row \in Rows
  BY Ats DEF CardInv, CardTypes, StatusIsSet, HeartbeatIsSet, StatusFails, LookupThrows, Setting
<1>2. UNCHANGED <<eventVars, postVars>> /\ flush' = NoFlush
  BY DEF StatusIsSet, HeartbeatIsSet, StatusFails, LookupThrows, TriesLater, GivesUp, Stops
<1>3. cursor # 0
  BY <1>1, Ats DEF CardInv, RowInv
<1>4. Later(AsRead) \in Rows /\ Later(AsRead).status # "none"
  <2>1. flush.read.status # "none"
    BY <1>1 DEF CardInv, RowInv
  <2> QED
    BY <1>1, <2>1 DEF Later, AsRead, Rows
<1>5. CASE StatusIsSet
  <2>1. PICK d \in Nat : row' = Later([row EXCEPT !.status = "in_progress", !.print = flush.text, !.delivered = d])
    <3>1. row.delivered \in Nat /\ flush.read.projected \in Nat
      BY <1>1 DEF Rows
    <3> QED
      BY <1>5, <3>1 DEF StatusIsSet, Stops, Current, AsRead
  <2>2. row' \in Rows /\ row'.status # "none"
    BY <1>1, <2>1 DEF Later, Rows
  <2> QED
    BY <1>1, <1>2, <1>3, <2>2, RowsKeep
<1>6. CASE HeartbeatIsSet \/ (StatusFails /\ TriesLater)
  <2>1. row' = Later(AsRead)
    BY <1>6 DEF HeartbeatIsSet, TriesLater, Stops
  <2> QED
    BY <1>1, <1>2, <1>3, <1>4, <2>1, RowsKeep
<1>7. CASE StatusFails /\ GivesUp
  <2>1. row' = [flush.read EXCEPT !.status = "uncertain", !.retry = "never"]
    BY <1>7 DEF GivesUp, Stops, AsRead
  <2>2. row' \in Rows /\ row'.status # "none"
    BY <1>1, <2>1 DEF Rows
  <2> QED
    BY <1>1, <1>2, <1>3, <2>2, RowsKeep
<1>8. CASE LookupThrows
  BY <1>1, <1>2, <1>3, <1>8, RowsKeep DEF LookupThrows, Stops
<1> QED
  BY <1>5, <1>6, <1>7, <1>8 DEF StatusFails

LEMMA AlarmSteps ==
  ASSUME CardInv, RowIsDue \/ AlarmIsDue \/ AlarmRuns \/ AlarmArms
  PROVE  CardInv'
<1>1. row \in Rows /\ cursor \in Nat /\ shown \in [text : Nat, waiting : BOOLEAN, ended : BOOLEAN]
  BY DEF CardInv, CardTypes
<1>2. UNCHANGED <<eventVars, postVars>>
  BY DEF RowIsDue, AlarmIsDue, AlarmRuns, AlarmArms, eventVars, postVars
<1>3. CASE UNCHANGED <<row, flush>>
  <2>1. UNCHANGED <<cursor, shown, row, flush, claims, posts, lost>>
    BY <1>2, <1>3 DEF eventVars, postVars
  <2> QED
    BY <2>1 DEF CardInv, CardTypes, HolderInv, PostsInv, RowInv, DoneWith, InFlight, Terminal
<1>4. CASE RowIsDue
  <2>1. row.retry = "later" /\ row' = [row EXCEPT !.retry = "due"] /\ flush' = flush
    BY <1>4 DEF RowIsDue
  <2>2. cursor # 0
    BY <2>1 DEF CardInv, RowInv, NoRow
  <2>3. row' \in Rows /\ row'.status = row.status
    BY <1>1, <2>1 DEF Rows
  <2> QED
    BY <1>2, <2>1, <2>2, <2>3, RowsKeep
<1>5. CASE AlarmRuns /\ Flushes(row, "alarm") /\ row.retry = "due"
  <2>1. cursor # 0
    BY <1>5 DEF CardInv, RowInv, NoRow
  <2>2. shown' = shown /\ cursor' = cursor /\ Terminal' = Terminal
    BY <1>2 DEF eventVars, Terminal
  <2>3. /\ row' \in Rows /\ row'.status = row.status
        /\ \/ flush' = flush
           \/ flush' = NoFlush
           \/ flush' \in Delivering /\ flush'.at = "claim" /\ flush'.chunk = 1 /\ Terminal'
           \/ flush' \in Setting /\ flush'.read = row /\ ~Terminal'
    BY <1>1, <1>5, <2>2, FlushStarts DEF CardInv, By
  <2>4. ~Terminal => row.status # "none"
    BY <1>1, <2>1 DEF CardInv, RowInv
  <2>5. GoesOn
    BY <2>2, <2>3, <2>4 DEF GoesOn
  <2> QED
    BY <1>1, <1>2, <2>1, <2>2, <2>3, <2>4, <2>5, Keeps
<1> QED
  BY <1>3, <1>4, <1>5 DEF AlarmIsDue, AlarmRuns, AlarmArms

-----------------------------------------------------------------------------
(* Steps of the delivery *)

\* The chunk is done with: the delivery goes on to the next, or forgets the row.
LEMMA NextChunkKeeps ==
  ASSUME CardTypes, RowInv, NextChunk, flush \in Delivering, Terminal,
         UNCHANGED eventVars, claims' \in SUBSET Pieces, posts' \in [Pieces -> Nat], lost' \in Nat,
         \A b \in Pieces : b <= flush.chunk => DoneWith(b)',
         \A b \in Pieces : DoneWith(b) => DoneWith(b)'
  PROVE  CardTypes' /\ HolderInv' /\ RowInv'
<1>1. /\ flush.chunk \in Pieces /\ flush.by \in By /\ Pieces = 1 .. Chunks /\ Chunks \in Nat
      /\ Terminal' /\ cursor' = cursor /\ shown' = shown /\ cursor \in Nat
  BY CardAssumption DEF Delivering, Pieces, eventVars, Terminal, CardTypes
<1>2. cursor > 0
  BY <1>1, Ats DEF RowInv
<1>3. CASE flush.chunk = Chunks
  <2>1. row' = NoRow /\ flush' = NoFlush
    BY <1>3 DEF NextChunk, Finishes
  <2>2. NoRow \in Rows /\ NoRow.status = "none"
    BY DEF NoRow, Rows, NoPrint
  <2>3. \A b \in Pieces : DoneWith(b)'
    BY <1>1, <1>3
  <2>4. CardTypes'
    BY <1>1, <2>1, <2>2 DEF CardTypes
  <2>5. HolderInv' /\ RowInv'
    BY <1>1, <1>2, <2>1, <2>3, Ats DEF HolderInv, RowInv
  <2> QED
    BY <2>4, <2>5
<1>4. CASE flush.chunk # Chunks
  <2>1. row' = row /\ flush' = [flush EXCEPT !.at = "claim", !.chunk = flush.chunk + 1, !.attempt = 1]
    BY <1>4 DEF NextChunk
  <2>2. flush.chunk + 1 \in Pieces
    BY <1>1, <1>4
  <2>3. flush' \in Delivering /\ flush'.at = "claim" /\ flush'.chunk = flush.chunk + 1
    BY <2>1, <2>2 DEF Delivering
  <2>4. CardTypes'
    BY <1>1, <2>1, <2>3 DEF CardTypes
  <2>5. HolderInv'
    BY <1>1, <2>3 DEF HolderInv
  <2>6. RowInv'
    BY <1>1, <1>2, <2>1, <2>3, Ats DEF RowInv
  <2> QED
    BY <2>4, <2>5, <2>6
<1> QED
  BY <1>3, <1>4

\* The delivery goes on with the same chunk, or leaves off.
LEMMA SameChunkKeeps ==
  ASSUME CardTypes, RowInv, HolderInv, flush \in Delivering, UNCHANGED eventVars,
         claims' \in SUBSET Pieces, posts' \in [Pieces -> Nat], lost' \in Nat,
         row' \in Rows, row'.status = row.status,
         \/ flush' = NoFlush
         \/ /\ flush' \in Delivering /\ flush'.chunk = flush.chunk
            /\ flush'.at # "claim" => flush.chunk \in claims' /\ posts'[flush.chunk] <= lost',
         \A b \in Pieces : DoneWith(b) => DoneWith(b)'
  PROVE  CardTypes' /\ HolderInv' /\ RowInv'
<1>1. Terminal /\ Terminal' /\ cursor' = cursor /\ shown' = shown
  BY DEF eventVars, Terminal, HolderInv
<1>2. cursor \in Nat /\ cursor > 0
  BY Ats DEF RowInv, CardTypes
<1>3. CardTypes'
  BY <1>1 DEF CardTypes
<1>4. HolderInv'
  BY <1>1, Ats DEF HolderInv
<1>5. RowInv'
  BY <1>1, <1>2, Ats DEF RowInv
<1> QED
  BY <1>3, <1>4, <1>5

\* The claim of a chunk: passed over, taken, or an error that may have taken it.
LEMMA ClaimStep == ASSUME CardInv, Claim PROVE CardInv'
<1> DEFINE k == flush.chunk
<1>1. /\ flush \in Delivering /\ flush.at = "claim" /\ k \in Pieces
      /\ UNCHANGED <<eventVars, posts, lost>> /\ posts \in [Pieces -> Nat] /\ lost \in Nat
      /\ Terminal /\ row \in Rows
  BY Ats DEF CardInv, CardTypes, Claim, Delivering, HolderInv
<1>2. claims' \in SUBSET Pieces /\ claims \subseteq claims'
  BY <1>1 DEF CardInv, CardTypes, Claim, IsClaimed
<1>3. \A c \in Pieces : ~InFlight(c)
  BY <1>1 DEF InFlight
<1>4. \A c \in Pieces : InFlight(c)' => c = k /\ ~IsClaimed(k)
  <2>1. CASE IsClaimed(k) /\ NextChunk
    BY <1>1, <2>1, Ats DEF NextChunk, Finishes, InFlight, Delivering
  <2>2. CASE ~IsClaimed(k) /\ To("post")
    BY <1>1, <2>2 DEF To, InFlight, Delivering
  <2>3. CASE NotDelivered
    BY <2>3, Ats DEF NotDelivered, Stops, InFlight
  <2> QED
    BY <2>1, <2>2, <2>3 DEF Claim
<1>5. \A c \in Pieces : DoneWith(c) => DoneWith(c)'
  BY <1>1, <1>2, <1>4 DEF DoneWith, IsClaimed
<1>6. CardTypes' /\ HolderInv' /\ RowInv'
  <2>1. CASE IsClaimed(k) /\ NextChunk /\ UNCHANGED claims
    <3>1. \A b \in Pieces : b <= k => DoneWith(b)
      BY <1>1, <1>3, <2>1 DEF CardInv, HolderInv, DoneWith, IsClaimed, Pieces
    <3>2. \A b \in Pieces : b <= k => DoneWith(b)'
      BY <1>5, <3>1
    <3> QED
      BY <1>1, <1>2, <1>5, <2>1, <3>2, NextChunkKeeps DEF CardInv
  <2>2. CASE ~IsClaimed(k) /\ claims' = claims \cup {k} /\ To("post") /\ row' = row
    <3>1. flush' \in Delivering /\ flush'.chunk = k
      BY <1>1, <2>2 DEF To, Delivering
    <3>2. k \in claims' /\ posts'[k] <= lost'
      BY <1>1, <2>2 DEF CardInv, PostsInv, IsClaimed
    <3> QED
      BY <1>1, <1>2, <1>5, <2>2, <3>1, <3>2, SameChunkKeeps DEF CardInv
  <2>3. CASE NotDelivered
    <3>1. row' \in Rows /\ row'.status = row.status /\ flush' = NoFlush
      BY <1>1, <2>3 DEF NotDelivered, Stops, Later, Rows
    <3> QED
      BY <1>1, <1>2, <1>5, <3>1, SameChunkKeeps DEF CardInv
  <2> QED
    BY <2>1, <2>2, <2>3 DEF Claim
<1>7. PostsInv'
  <2>1. Terminal'
    BY <1>1 DEF eventVars, Terminal
  <2> QED
    BY <1>1, <1>2, <1>5, <2>1 DEF CardInv, PostsInv
<1> QED
  BY <1>6, <1>7 DEF CardInv

\* A post that holds the claim: it is in the thread once more, or not.
LEMMA PostKeeps ==
  ASSUME CardInv, flush \in Delivering, flush.at = "post", UNCHANGED eventVars, claims' = claims,
         \/ posts' = [posts EXCEPT ![flush.chunk] = @ + 1] /\ lost' \in {lost, lost + 1}
         \/ posts' = posts /\ lost' = lost,
         \A c \in Pieces : InFlight(c)' => InFlight(c)
  PROVE  /\ PostsInv' /\ claims' \in SUBSET Pieces /\ posts' \in [Pieces -> Nat] /\ lost' \in Nat
         /\ \A c \in Pieces : DoneWith(c) => DoneWith(c)'
<1> DEFINE k == flush.chunk
<1>1. /\ posts \in [Pieces -> Nat] /\ lost \in Nat /\ claims \in SUBSET Pieces /\ k \in Pieces
      /\ Terminal /\ k \in claims /\ posts[k] <= lost
      /\ \A b \in Pieces : b < k => DoneWith(b)
  BY DEF CardInv, CardTypes, HolderInv, Delivering
<1>2. posts' \in [Pieces -> Nat] /\ lost' \in Nat /\ lost' >= lost
  BY <1>1
<1>3. \A c \in Pieces : posts'[c] = posts[c] \/ (c = k /\ posts'[c] = posts[c] + 1)
  BY <1>1
<1>4. \A c \in Pieces : posts[c] \in Nat /\ posts'[c] \in Nat /\ posts'[c] >= posts[c]
  BY <1>1, <1>2, <1>3
<1>5. \A c \in Pieces : DoneWith(c) => DoneWith(c)'
  BY <1>4 DEF DoneWith
<1>6. Terminal'
  BY <1>1 DEF eventVars, Terminal
<1>7. ASSUME NEW c \in Pieces
      PROVE  /\ posts'[c] <= 1 + lost' /\ (c \notin claims' => posts'[c] <= lost')
             /\ posts'[c] > 0 => \A b \in Pieces : b < c => DoneWith(b)'
  <2>1. CASE posts'[c] = posts[c]
    BY <1>1, <1>2, <1>5, <2>1 DEF CardInv, PostsInv
  <2>2. CASE c = k /\ posts'[c] = posts[c] + 1
    BY <1>1, <1>2, <1>4, <1>5, <2>2
  <2> QED
    BY <1>3, <2>1, <2>2
<1> QED
  BY <1>1, <1>2, <1>5, <1>6, <1>7 DEF PostsInv

LEMMA PostStep == ASSUME CardInv, Post PROVE CardInv'
<1> DEFINE k == flush.chunk
<1>1. /\ flush \in Delivering /\ flush.at = "post" /\ k \in Pieces
      /\ UNCHANGED <<eventVars, claims>> /\ lost \in Nat /\ posts \in [Pieces -> Nat]
      /\ Terminal /\ row \in Rows /\ k \in claims /\ posts[k] <= lost
  BY Ats DEF CardInv, CardTypes, Post, Delivering, HolderInv
<1>2. CASE InThread /\ NextChunk /\ lost' = lost
  <2>1. \A c \in Pieces : InFlight(c)' => InFlight(c)
    BY <1>1, <1>2, Ats DEF NextChunk, Finishes, InFlight, Delivering
  <2>2. posts' = [posts EXCEPT ![k] = posts[k] + 1]
    BY <1>2 DEF InThread
  <2>3. /\ PostsInv' /\ claims' \in SUBSET Pieces /\ posts' \in [Pieces -> Nat] /\ lost' \in Nat
        /\ \A c \in Pieces : DoneWith(c) => DoneWith(c)'
    BY <1>1, <1>2, <2>1, <2>2, PostKeeps
  <2>4. \A c \in Pieces : c = k => DoneWith(c)'
    <3>1. posts'[k] = posts[k] + 1 /\ posts[k] \in Nat
      BY <1>1, <2>2
    <3>2. posts'[k] > 0
      BY <3>1
    <3> QED
      BY <3>2 DEF DoneWith
  <2>5. \A b \in Pieces : b <= k => DoneWith(b)'
    <3>1. \A b \in Pieces : b < k => DoneWith(b)'
      BY <1>1, <2>3 DEF CardInv, HolderInv
    <3>2. \A b \in Pieces : b <= k => b < k \/ b = k
      BY <1>1 DEF Pieces
    <3> QED
      BY <2>4, <3>1, <3>2
  <2> QED
    BY <1>1, <1>2, <2>3, <2>5, NextChunkKeeps DEF CardInv
<1>3. CASE /\ UNCHANGED <<posts, lost>> \/ (InThread /\ lost' = lost + 1)
           /\ \/ flush' = [flush EXCEPT !.attempt = @ + 1]
              \/ To("release")
           /\ row' = row
  <2>1. flush' \in Delivering /\ flush'.chunk = k
    BY <1>1, <1>3 DEF To, Delivering
  <2>2. \A c \in Pieces : InFlight(c)' => InFlight(c)
    BY <1>1, <2>1 DEF InFlight
  <2>3. /\ PostsInv' /\ claims' \in SUBSET Pieces /\ posts' \in [Pieces -> Nat] /\ lost' \in Nat
        /\ \A c \in Pieces : DoneWith(c) => DoneWith(c)'
    BY <1>1, <1>3, <2>2, PostKeeps DEF InThread
  <2>4. k \in claims' /\ posts'[k] <= lost'
    BY <1>1, <1>3 DEF InThread
  <2> QED
    BY <1>1, <1>3, <2>1, <2>3, <2>4, SameChunkKeeps DEF CardInv
<1> QED
  BY <1>2, <1>3 DEF Post

\* The claim is given back: only this delivery knows that it was taken.
LEMMA ReleaseStep == ASSUME CardInv, Release PROVE CardInv'
<1> DEFINE k == flush.chunk
<1>1. /\ flush \in Delivering /\ flush.at = "release" /\ k \in Pieces
      /\ UNCHANGED <<eventVars, posts, lost>> /\ posts \in [Pieces -> Nat] /\ lost \in Nat
      /\ Terminal /\ row \in Rows /\ posts[k] <= lost /\ claims \in SUBSET Pieces
  BY Ats DEF CardInv, CardTypes, Release, Delivering, HolderInv
<1>2. claims' \in {claims, claims \ {k}}
  BY DEF Release
<1>3. row' \in Rows /\ row'.status = row.status /\ flush' = NoFlush
  BY <1>1 DEF Release, NotDelivered, Stops, Later, Rows
<1>4. \A c \in Pieces : ~InFlight(c)'
  BY <1>3, Ats DEF InFlight
<1>5. \A c \in Pieces : DoneWith(c) => DoneWith(c)'
  <2>1. InFlight(k)
    BY <1>1 DEF InFlight
  <2> QED
    BY <1>1, <1>2, <1>4, <2>1 DEF DoneWith
<1>6. CardTypes' /\ HolderInv' /\ RowInv'
  <2>1. claims' \in SUBSET Pieces
    BY <1>1, <1>2
  <2> QED
    BY <1>1, <1>3, <1>5, <2>1, SameChunkKeeps DEF CardInv
<1>7. PostsInv'
  <2>1. Terminal'
    BY <1>1 DEF eventVars, Terminal
  <2> QED
    BY <1>1, <1>2, <1>5, <2>1 DEF CardInv, PostsInv
<1> QED
  BY <1>6, <1>7 DEF CardInv

\* A restart: the flush is gone, and what it was waiting for may have happened.
LEMMA RestartStep == ASSUME CardInv, Restart PROVE CardInv'
<1> DEFINE k == flush.chunk
<1>1. /\ flush' = NoFlush /\ row' = row /\ UNCHANGED eventVars
      /\ row \in Rows /\ cursor \in Nat /\ lost \in Nat /\ claims \in SUBSET Pieces
      /\ posts \in [Pieces -> Nat]
  BY DEF Restart, CardInv, CardTypes
<1>2. \A c \in Pieces : ~InFlight(c)'
  BY <1>1, Ats DEF InFlight
<1>3. CASE cursor = 0
  <2>1. flush = NoFlush
    BY <1>3 DEF CardInv, RowInv
  <2>2. UNCHANGED postVars
    BY <2>1, Ats DEF Restart
  <2>3. UNCHANGED <<cursor, shown, row, flush, claims, posts, lost>>
    BY <1>1, <2>1, <2>2 DEF eventVars, postVars
  <2> QED
    BY <2>3 DEF CardInv, CardTypes, HolderInv, PostsInv, RowInv, DoneWith, InFlight, Terminal
<1>4. CASE cursor # 0 /\ UNCHANGED postVars
  BY <1>1, <1>4, RowsKeep
<1>5. CASE flush.at = "claim" /\ claims' = claims \cup {k} /\ UNCHANGED <<posts, lost>>
  <2>1. flush \in Delivering /\ k \in Pieces /\ Terminal
    BY <1>5, Ats DEF CardInv, CardTypes, Delivering, HolderInv
  <2>2. claims' \in SUBSET Pieces /\ claims \subseteq claims'
    BY <1>1, <1>5, <2>1
  <2>3. \A c \in Pieces : DoneWith(c) => DoneWith(c)'
    BY <1>2, <1>5, <2>2 DEF DoneWith
  <2>4. CardTypes' /\ HolderInv' /\ RowInv'
    BY <1>1, <1>5, <2>1, <2>2, <2>3, SameChunkKeeps DEF CardInv
  <2>5. Terminal'
    BY <1>1, <2>1 DEF eventVars, Terminal
  <2>6. PostsInv'
    BY <1>1, <1>5, <2>2, <2>3, <2>5 DEF CardInv, PostsInv
  <2> QED
    BY <2>4, <2>6 DEF CardInv
<1>6. CASE flush.at = "post" /\ InThread /\ lost' = lost + 1 /\ UNCHANGED claims
  <2>1. flush \in Delivering
    BY <1>6, Ats DEF CardInv, CardTypes
  <2>2. posts' = [posts EXCEPT ![flush.chunk] = @ + 1] /\ lost' \in {lost, lost + 1}
    BY <1>6 DEF InThread
  <2>3. \A c \in Pieces : InFlight(c)' => InFlight(c)
    BY <1>2
  <2>4. /\ PostsInv' /\ claims' \in SUBSET Pieces /\ posts' \in [Pieces -> Nat] /\ lost' \in Nat
        /\ \A c \in Pieces : DoneWith(c) => DoneWith(c)'
    BY <1>1, <1>6, <2>1, <2>2, <2>3, PostKeeps
  <2>5. CardTypes' /\ HolderInv' /\ RowInv'
    BY <1>1, <2>1, <2>4, SameChunkKeeps DEF CardInv
  <2> QED
    BY <2>4, <2>5 DEF CardInv
<1> QED
  BY <1>3, <1>4, <1>5, <1>6 DEF Restart

-----------------------------------------------------------------------------
(* Theorems *)

\* Every state is typed, a delivery holds the claim of what it posts and has
\* done with the chunks before, and a run keeps its row until all are done with.
THEOREM CardInvariant == CardsSpec => []CardInv
<1>1. CardsInit => CardInv
  <2> SUFFICES ASSUME CardsInit PROVE CardInv
    OBVIOUS
  <2>1. cursor = 0 /\ ~Terminal /\ shown \in [text : Nat, waiting : BOOLEAN, ended : BOOLEAN]
    BY DEF CardsInit, Terminal, NoText
  <2>2. row = NoRow /\ row \in Rows
    BY DEF CardsInit, NoRow, NoPrint, Rows
  <2>3. flush = NoFlush /\ flush \notin Delivering /\ flush \notin Setting
    BY Ats DEF CardsInit
  <2>4. claims = {} /\ lost = 0 /\ posts \in [Pieces -> Nat] /\ \A c \in Pieces : posts[c] = 0
    BY DEF CardsInit
  <2>5. CardTypes
    BY <2>1, <2>2, <2>3, <2>4 DEF CardTypes
  <2>6. HolderInv /\ RowInv
    BY <2>1, <2>2, <2>3 DEF HolderInv, RowInv
  <2>7. PostsInv
    BY <2>4 DEF PostsInv
  <2> QED
    BY <2>5, <2>6, <2>7 DEF CardInv
<1>2. CardInv /\ [CardsNext]_cardVars => CardInv'
  <2> SUFFICES ASSUME CardInv, [CardsNext]_cardVars PROVE CardInv'
    OBVIOUS
  <2>1. CASE UNCHANGED cardVars
    BY <2>1 DEF cardVars, CardInv, CardTypes, HolderInv, PostsInv, RowInv, DoneWith, InFlight, Terminal
  <2>2. CASE Requested \/ (\E type \in Events : Happens(type)) \/ RunEnds
    BY <2>2, EventSteps
  <2>3. CASE StatusIsSet \/ HeartbeatIsSet \/ StatusFails \/ LookupThrows
    BY <2>3, StatusSteps
  <2>4. CASE Claim
    BY <2>4, ClaimStep
  <2>5. CASE Post
    BY <2>5, PostStep
  <2>6. CASE Release
    BY <2>6, ReleaseStep
  <2>7. CASE RowIsDue \/ AlarmWorks
    BY <2>7, AlarmSteps DEF AlarmWorks
  <2>8. CASE Restart
    BY <2>8, RestartStep
  <2> QED
    BY <2>1, <2>2, <2>3, <2>4, <2>5, <2>6, <2>7, <2>8 DEF CardsNext, SlackAnswers
<1> QED
  BY <1>1, <1>2, PTL DEF CardsSpec

\* A chunk that is done with and not in the thread is one whose claim was left
\* behind.
LEMMA DoneIsPostedOrOrphan ==
  ASSUME CardTypes, NEW c \in Pieces, DoneWith(c)
  PROVE  posts[c] > 0 \/ Orphan(c)
<1>1. posts[c] \in Nat
  BY DEF CardTypes
<1>2. ASSUME flush # NoFlush, flush.at \in {"post", "release"}, flush.chunk = c
      PROVE  InFlight(c)
  BY <1>2, Ats DEF CardTypes, InFlight
<1> QED
  BY <1>1, <1>2 DEF DoneWith, Orphan

\* The messages of a response arrive after the run ended and in order, and one
\* arrives again only when Slack's answer to it got lost.
THEOREM ChunksInOrder == CardsSpec => []ChunksArriveOnce
<1>1. CardInv => ChunksArriveOnce
  <2> SUFFICES ASSUME CardInv, NEW c \in Pieces
               PROVE  /\ posts[c] <= 1 + lost
                      /\ posts[c] > 0 => Terminal
                      /\ posts[c] > 0 => \A b \in 1 .. c - 1 : posts[b] > 0 \/ Orphan(b)
    BY DEF ChunksArriveOnce
  <2>1. \A b \in 1 .. c - 1 : b \in Pieces /\ b < c
    BY CardAssumption DEF Pieces
  <2>2. \A b \in Pieces : DoneWith(b) => posts[b] > 0 \/ Orphan(b)
    BY DoneIsPostedOrOrphan DEF CardInv
  <2> QED
    BY <2>1, <2>2 DEF CardInv, PostsInv
<1> QED
  BY <1>1, CardInvariant, PTL

\* No run loses the row that asks for its response before all of it is done
\* with, whatever fails.
THEOREM RowsAreKept == CardsSpec => []RowIsKeptUntilPosted
<1>1. CardInv => RowIsKeptUntilPosted
  BY DoneIsPostedOrOrphan DEF CardInv, RowInv, RowIsKeptUntilPosted, NoRow
<1> QED
  BY <1>1, CardInvariant, PTL
=============================================================================
