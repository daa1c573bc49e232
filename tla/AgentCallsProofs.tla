------------------------- MODULE AgentCallsProofs --------------------------
(***************************************************************************)
(* What becomes of a question and of a pull request, for any number of     *)
(* runs, questions, pull requests, attempts and faults.                    *)
(*                                                                         *)
(* A question or a pull request is in one place at a time: on its way to   *)
(* the object, in its row or at GitHub, on its way back.  The invariant    *)
(* says what holds in each of these places, and that what is on its way    *)
(* back agrees with what the object has decided.                           *)
(***************************************************************************)
EXTENDS AgentCalls, FiniteSetTheorems, SequenceTheorems, TLAPS

-----------------------------------------------------------------------------
(* Types *)

Answers == [by : People \cup {Nobody}, chosen : Selections \cup {"nothing"}]
Rows == [run : Runs \cup {0}, status : {"none", "open", "answered", "cancelled"},
         policy : Policies, assigned : Web \cup {Nobody},
         shape : Shapes \cup {CHOOSE s \in Shapes : TRUE}, answer : Answers, late : BOOLEAN]
AskRows == [state : {"unasked", "waiting", "told", "cancelled", "timedOut", "killed"},
            answer : Answers]
PullStates == {"unasked", "waiting", "told", "failed", "timedOut", "killed"}
CallRows == [id : Pulls, attempt : Nat, here : BOOLEAN]

AskMessages == [type : {"ask"}, id : Asking, run : Runs, policy : Policies, shape : Shapes]
PullMessages == [type : {"pull"}, id : Pulls, run : Runs]
OutcomeMessages == [type : {"completed", "failed"}, run : Runs]
Up == AskMessages \cup PullMessages \cup OutcomeMessages

TurnMessages == [type : {"turn"}, run : Runs]
AnswerMessages == [type : {"answer"}, id : Asking, answer : Answers]
CancelMessages == [type : {"cancel"}, id : Asking]
PulledMessages == [type : {"pulled"}, id : Pulls, url : BOOLEAN]
Down == TurnMessages \cup AnswerMessages \cup CancelMessages \cup PulledMessages

RunTypeOK == active \in Runs \cup {0} /\ over \in SUBSET Runs /\ closed \in BOOLEAN
SandboxTypeOK == work \in Seq(Runs) /\ agent \in Runs \cup {0} /\ asks \in [Asking -> AskRows]
PullTypeOK ==
    /\ pulls \in [Pulls -> PullStates] /\ calls \in SUBSET CallRows
    /\ opened \in [Pulls -> {"no", "heard", "unheard"}]
SocketTypeOK ==
    /\ toObject \in Seq(Up) /\ outbox \in Seq(Up) /\ toSandbox \in Seq(Down)
    /\ wire \in BOOLEAN /\ live \in BOOLEAN /\ open \in BOOLEAN
SlackTypeOK ==
    /\ cards \in [Asking -> [shows : {"nothing", "controls", "answer"}, answer : Answers]]
    /\ modals \in SUBSET Asking /\ updates \in SUBSET [question : Asking, answer : Answers]
TypeOK ==
    /\ RunTypeOK /\ SandboxTypeOK /\ PullTypeOK /\ SocketTypeOK /\ SlackTypeOK
    /\ rows \in [Asking -> Rows] /\ faults \in Nat

-----------------------------------------------------------------------------
(* The inductive invariant *)

In(s) == {s[i] : i \in 1 .. Len(s)}

\* What is on its way to the object, on the socket or kept for the next one.
Sent == In(toObject) \cup In(outbox)

\* No call is on its way twice.
Once(s) ==
    \A i, j \in 1 .. Len(s) :
        /\ s[i].type = s[j].type /\ s[i].type \in {"ask", "pull"}
        /\ s[i].id = s[j].id
        => i = j

\* The socket: nothing is on a broken one, and what the sandbox keeps, it keeps
\* while it has none.
SocketInv ==
    /\ Once(toObject) /\ Once(outbox)
    /\ wire => live /\ open
    /\ open => outbox = <<>>
    /\ ~wire => toObject = <<>> /\ toSandbox = <<>> /\ \A c \in calls : ~c.here
    /\ faults = 0 => wire \/ closed
ClosedInv ==
    closed => /\ active = 0 /\ ~wire /\ ~live /\ work = <<>>
              /\ \A q \in Asking : ~Waits(q)

\* A question that is on its way has no row yet; once it has one, the row
\* decides, and what was told or shown of it is what the row says.
AskSent(q) == \E m \in Sent : m.type = "ask" /\ m.id = q
RightfulAnswer(q) ==
    rows[q].status = "answered" =>
        /\ Valid(rows[q].answer.chosen, rows[q].shape)
        /\ rows[q].answer.by \in Web => CanAnswer(rows[q].answer.by, rows[q])
QuestionOK(q) ==
    /\ asks[q].state = "unasked" => rows[q].status = "none" /\ ~AskSent(q)
    /\ AskSent(q) => rows[q].status = "none"
    /\ asks[q].state = "told" => rows[q].status = "answered" /\ asks[q].answer = rows[q].answer
    /\ asks[q].state = "cancelled" => rows[q].status = "cancelled"
    /\ cards[q].shows = "answer" => rows[q].status = "answered" /\ cards[q].answer = rows[q].answer
    /\ RightfulAnswer(q)
ReplyOK(m) ==
    /\ m.type = "answer" => rows[m.id].status = "answered" /\ m.answer = rows[m.id].answer
    /\ m.type = "cancel" => rows[m.id].status = "cancelled"
UpdateOK(u) == rows[u.question].status = "answered" /\ u.answer = rows[u.question].answer
QuestionsInv ==
    /\ \A q \in Asking : QuestionOK(q)
    /\ \A m \in In(toSandbox) : ReplyOK(m)
    /\ \A u \in updates : UpdateOK(u)
    /\ IsFiniteSet({q \in Asking : IsOpen(q)})

\* While no socket broke, the outcome of a question the agent waits for is on
\* its way.
Outcome(q) == IF rows[q].status = "answered" THEN "answer" ELSE "cancel"
Decided(q) == rows[q].status \in {"answered", "cancelled"}
OnItsWay(q) == \E m \in In(toSandbox) : m.type = Outcome(q) /\ m.id = q
WayInv == \A q \in Asking : Waits(q) /\ Decided(q) /\ faults = 0 => OnItsWay(q)

\* The turn of the active run is the last one the sandbox has, and nothing runs
\* behind the report that it is complete.
NoTurn == \A m \in In(toSandbox) : m.type # "turn"
Known(r) == r \in over \/ r = active
NoneBehind(s, r) == \A i, j \in 1 .. Len(s) : i < j => s[i] # r
NoTurnBehind(s, r) ==
    \A i, j \in 1 .. Len(s) :
        i < j /\ s[i].type = "turn" /\ s[j].type = "turn" => s[i].run # r
LastTurn ==
    /\ NoneBehind(work, active) /\ NoTurnBehind(toSandbox, active)
    /\ active \in In(work) => NoTurn
Complete == \E m \in Sent : m.type = "completed" /\ m.run = active
TurnInv ==
    /\ active \notin over
    /\ \A r \in In(work) : Known(r)
    /\ \A m \in In(toSandbox) : m.type = "turn" => Known(m.run)
    /\ \A m \in Sent : IsOutcome(m) => Known(m.run)
    /\ LastTurn
    /\ Complete => work = <<>> /\ NoTurn /\ \A q \in Asking : ~Waits(q)

\* A pull request is on its way, at GitHub, or answered.
PullSent(i) == \E m \in Sent : m.type = "pull" /\ m.id = i
AtGitHub(i) == \E c \in calls : c.id = i
Pulled(i, url) == \E m \in In(toSandbox) : m.type = "pulled" /\ m.id = i /\ m.url = url
PullOK(i) ==
    /\ PullSent(i) => ~AtGitHub(i) /\ opened[i] = "no"
    /\ PullSent(i) \/ AtGitHub(i) => ~Pulled(i, TRUE) /\ ~Pulled(i, FALSE)
                                     /\ pulls[i] \notin {"told", "failed"}
    /\ AtGitHub(i) => opened[i] # "heard"
    /\ pulls[i] = "unasked" => /\ ~PullSent(i) /\ ~AtGitHub(i) /\ opened[i] = "no"
                               /\ ~Pulled(i, TRUE) /\ ~Pulled(i, FALSE)
    /\ Pulled(i, TRUE) \/ pulls[i] = "told" => opened[i] = "heard"
    /\ Pulled(i, FALSE) \/ pulls[i] = "failed" => opened[i] # "heard"
PullsInv ==
    /\ \A i \in Pulls : PullOK(i)
    /\ \A c, d \in calls : c.id = d.id => c = d

Inv ==
    /\ TypeOK /\ SocketInv /\ ClosedInv /\ QuestionsInv /\ WayInv /\ TurnInv
    /\ OverRunsAskNothing /\ PullsInv

-----------------------------------------------------------------------------
(* Messages *)

LEMMA InProperties ==
    ASSUME NEW S, NEW s \in Seq(S)
    PROVE  /\ In(s) \subseteq S
           /\ \A i \in 1 .. Len(s) : s[i] \in In(s)
           /\ \A m \in In(s) : \E i \in 1 .. Len(s) : m = s[i]
BY DEF In

LEMMA InEmpty == In(<<>>) = {}
BY DEF In

LEMMA InOne == ASSUME NEW m PROVE In(<<m>>) = {m} /\ Len(<<m>>) = 1
BY DEF In

LEMMA InAppend ==
    ASSUME NEW S, NEW s \in Seq(S), NEW m \in S
    PROVE  In(Append(s, m)) = In(s) \cup {m}
<1> DEFINE x == Append(s, m)
<1>1. /\ Len(s) \in Nat /\ Len(x) = Len(s) + 1 /\ x[Len(s) + 1] = m
      /\ \A i \in 1 .. Len(s) : x[i] = s[i]
  BY AppendProperties, LenProperties
<1> HIDE DEF x
<1>2. \A i \in 1 .. Len(x) : i \in 1 .. Len(s) \/ i = Len(s) + 1
  BY <1>1
<1>3. \A i \in 1 .. Len(s) : i \in 1 .. Len(x)
  BY <1>1
<1>4. Len(s) + 1 \in 1 .. Len(x)
  BY <1>1
<1>5. In(x) \subseteq In(s) \cup {m}
  BY <1>1, <1>2 DEF In
<1>6. In(s) \cup {m} \subseteq In(x)
  BY <1>1, <1>3, <1>4 DEF In
<1> QED
  BY <1>5, <1>6 DEF x

LEMMA InConcat ==
    ASSUME NEW S, NEW s \in Seq(S), NEW t \in Seq(S)
    PROVE  In(s \o t) = In(s) \cup In(t)
<1> DEFINE x == s \o t
<1>1. /\ Len(s) \in Nat /\ Len(t) \in Nat /\ Len(x) = Len(s) + Len(t)
      /\ \A i \in 1 .. Len(s) : x[i] = s[i]
      /\ \A i \in Len(s) + 1 .. Len(s) + Len(t) : x[i] = t[i - Len(s)]
  BY ConcatProperties, LenProperties
<1> HIDE DEF x
<1>2. ASSUME NEW i \in 1 .. Len(x)
      PROVE  x[i] \in In(s) \cup In(t)
  <2>1. CASE i \in 1 .. Len(s)
    BY <1>1, <2>1 DEF In
  <2>2. CASE i > Len(s)
    <3>1. i - Len(s) \in 1 .. Len(t) /\ x[i] = t[i - Len(s)]
      BY <1>1, <2>2
    <3> QED
      BY <3>1 DEF In
  <2> QED
    BY <1>1, <2>1, <2>2
<1>3. ASSUME NEW i \in 1 .. Len(t)
      PROVE  t[i] \in In(x)
  <2>1. /\ Len(s) + i \in 1 .. Len(x) /\ (Len(s) + i) - Len(s) = i
        /\ Len(s) + i \in Len(s) + 1 .. Len(s) + Len(t)
    BY <1>1
  <2>2. x[Len(s) + i] = t[i]
    BY <1>1, <2>1
  <2> QED
    BY <2>1, <2>2 DEF In
<1>4. \A i \in 1 .. Len(s) : i \in 1 .. Len(x) /\ x[i] = s[i]
  BY <1>1
<1>5. In(x) \subseteq In(s) \cup In(t)
  BY <1>2 DEF In
<1>6. In(s) \cup In(t) \subseteq In(x)
  BY <1>3, <1>4 DEF In
<1> QED
  BY <1>5, <1>6 DEF x

LEMMA InTail ==
    ASSUME NEW S, NEW s \in Seq(S), s # <<>>
    PROVE  /\ Head(s) \in In(s) /\ Head(s) \in S /\ Tail(s) \in Seq(S)
           /\ In(s) = In(Tail(s)) \cup {Head(s)}
<1> DEFINE x == Tail(s)
<1>1. /\ Len(s) \in Nat \ {0} /\ x \in Seq(S) /\ Len(x) = Len(s) - 1 /\ Head(s) = s[1] /\ Head(s) \in S
      /\ \A i \in 1 .. Len(s) - 1 : x[i] = s[i + 1]
  BY HeadTailProperties, EmptySeq, LenProperties
<1> HIDE DEF x
<1>2. 1 \in 1 .. Len(s) /\ \A i \in 1 .. Len(x) : i + 1 \in 1 .. Len(s) /\ x[i] = s[i + 1]
  BY <1>1
<1>3. ASSUME NEW i \in 1 .. Len(s)
      PROVE  s[i] \in In(x) \cup {Head(s)}
  <2>1. CASE i = 1
    BY <1>1, <2>1
  <2>2. CASE i # 1
    <3>1. i - 1 \in 1 .. Len(x) /\ i - 1 \in 1 .. Len(s) - 1 /\ (i - 1) + 1 = i
      BY <1>1, <2>2
    <3>2. x[i - 1] = s[i]
      BY <1>1, <3>1
    <3> QED
      BY <3>1, <3>2 DEF In
  <2> QED
    BY <2>1, <2>2
<1>4. In(s) \subseteq In(x) \cup {Head(s)}
  BY <1>3 DEF In
<1>5. In(x) \cup {Head(s)} \subseteq In(s)
  BY <1>1, <1>2 DEF In
<1> QED
  BY <1>1, <1>4, <1>5 DEF x

\* A call in front is not on its way a second time.
LEMMA OnceTail ==
    ASSUME NEW S, NEW s \in Seq(S), s # <<>>, Once(s)
    PROVE  /\ Once(Tail(s))
           /\ Head(s).type \in {"ask", "pull"} =>
                \A m \in In(Tail(s)) : m.type = Head(s).type => m.id # Head(s).id
<1> DEFINE x == Tail(s)
<1>1. /\ Len(s) \in Nat \ {0} /\ Len(x) = Len(s) - 1 /\ Head(s) = s[1]
      /\ \A i \in 1 .. Len(s) - 1 : x[i] = s[i + 1]
  BY HeadTailProperties, EmptySeq, LenProperties
<1> HIDE DEF x
<1>2. \A i \in 1 .. Len(x) : i \in Nat \ {0} /\ i + 1 \in 1 .. Len(s) /\ i + 1 # 1 /\ x[i] = s[i + 1]
  BY <1>1
<1>3. Once(x)
  <2>1. ASSUME NEW i \in 1 .. Len(x), NEW j \in 1 .. Len(x),
               x[i].type = x[j].type, x[i].type \in {"ask", "pull"}, x[i].id = x[j].id
        PROVE  i = j
    <3>1. i + 1 = j + 1
      BY <1>2, <2>1 DEF Once
    <3> QED
      BY <1>2, <3>1
  <2> QED
    BY <2>1 DEF Once
<1>4. ASSUME NEW m \in In(x), Head(s).type \in {"ask", "pull"}, m.type = Head(s).type,
             m.id = Head(s).id
      PROVE  FALSE
  <2>1. PICK i \in 1 .. Len(x) : m = x[i]
    BY DEF In
  <2>2. i + 1 \in 1 .. Len(s) /\ i + 1 # 1 /\ m = s[i + 1] /\ 1 \in 1 .. Len(s)
    BY <1>1, <1>2, <2>1
  <2>3. \A a, b \in 1 .. Len(s) :
           /\ s[a].type = s[b].type /\ s[a].type \in {"ask", "pull"}
           /\ s[a].id = s[b].id
           => a = b
    BY DEF Once
  <2>4. /\ s[1].type = s[i + 1].type /\ s[1].type \in {"ask", "pull"}
        /\ s[1].id = s[i + 1].id
    BY <1>1, <1>4, <2>2
  <2>5. 1 = i + 1
    BY <2>2, <2>3, <2>4
  <2> QED
    BY <2>2, <2>5
<1> QED
  BY <1>3, <1>4 DEF x

LEMMA OnceAppend ==
    ASSUME NEW S, NEW s \in Seq(S), NEW m \in S, Once(s),
           m.type \in {"ask", "pull"} => \A n \in In(s) : n.type = m.type => n.id # m.id
    PROVE  Once(Append(s, m))
<1> DEFINE x == Append(s, m)
<1>1. /\ Len(s) \in Nat /\ Len(x) = Len(s) + 1 /\ x[Len(s) + 1] = m
      /\ \A i \in 1 .. Len(s) : x[i] = s[i]
  BY AppendProperties, LenProperties
<1> HIDE DEF x
<1>2. ASSUME NEW i \in 1 .. Len(x), NEW j \in 1 .. Len(x),
             x[i].type = x[j].type, x[i].type \in {"ask", "pull"}, x[i].id = x[j].id
      PROVE  i = j
  <2>1. i \in 1 .. Len(s) \/ (i = Len(s) + 1 /\ x[i] = m)
    BY <1>1
  <2>2. j \in 1 .. Len(s) \/ (j = Len(s) + 1 /\ x[j] = m)
    BY <1>1
  <2>3. CASE i \in 1 .. Len(s) /\ j \in 1 .. Len(s)
    BY <1>1, <1>2, <2>3 DEF Once
  <2>4. CASE i \in 1 .. Len(s) /\ x[j] = m
    <3>1. x[i] = s[i] /\ s[i] \in In(s)
      BY <1>1, <2>4 DEF In
    <3> QED
      BY <1>2, <2>4, <3>1
  <2>5. CASE x[i] = m /\ j \in 1 .. Len(s)
    <3>1. x[j] = s[j] /\ s[j] \in In(s)
      BY <1>1, <2>5 DEF In
    <3> QED
      BY <1>2, <2>5, <3>1
  <2>6. CASE i = Len(s) + 1 /\ j = Len(s) + 1
    BY <2>6
  <2> QED
    BY <2>1, <2>2, <2>3, <2>4, <2>5, <2>6
<1>3. Once(x)
  BY <1>2 DEF Once
<1> QED
  BY <1>3 DEF x

LEMMA UpFields ==
    ASSUME NEW m \in Up
    PROVE  /\ m.type \in {"ask", "pull", "completed", "failed"} /\ m.run \in Runs
           /\ m.type = "ask" => m.id \in Asking /\ m.policy \in Policies /\ m.shape \in Shapes
           /\ m.type = "pull" => m.id \in Pulls
BY DEF Up, AskMessages, PullMessages, OutcomeMessages

LEMMA DownFields ==
    ASSUME NEW m \in Down
    PROVE  /\ m.type \in {"turn", "answer", "cancel", "pulled"}
           /\ m.type = "turn" => m.run \in Runs
           /\ m.type = "answer" => m.id \in Asking /\ m.answer \in Answers
           /\ m.type = "cancel" => m.id \in Asking
           /\ m.type = "pulled" => m.id \in Pulls /\ m.url \in BOOLEAN
BY DEF Down, TurnMessages, AnswerMessages, CancelMessages, PulledMessages

\* sendToSandbox.
LEMMA SentDown ==
    ASSUME toSandbox \in Seq(Down), NEW msgs \in Seq(Down), Sends(msgs)
    PROVE  /\ toSandbox' \in Seq(Down)
           /\ In(toSandbox) \subseteq In(toSandbox')
           /\ In(toSandbox') \subseteq In(toSandbox) \cup In(msgs)
           /\ live /\ wire => In(msgs) \subseteq In(toSandbox')
           /\ ~wire => toSandbox' = toSandbox
<1>1. CASE live /\ wire
  <2>1. toSandbox' = toSandbox \o msgs
    BY <1>1 DEF Sends
  <2>2. toSandbox \o msgs \in Seq(Down) /\ In(toSandbox \o msgs) = In(toSandbox) \cup In(msgs)
    BY ConcatProperties, InConcat
  <2> QED
    BY <1>1, <2>1, <2>2
<1>2. CASE ~(live /\ wire)
  BY <1>2 DEF Sends
<1> QED
  BY <1>1, <1>2

\* ReconnectingWebSocketClient.send.
LEMMA SentUp ==
    ASSUME toObject \in Seq(Up), outbox \in Seq(Up), NEW m \in Up, Reports(m)
    PROVE  /\ toObject' \in Seq(Up) /\ outbox' \in Seq(Up)
           /\ In(toObject') \subseteq In(toObject) \cup {m}
           /\ In(outbox') \subseteq In(outbox) \cup {m}
           /\ Sent' \subseteq Sent \cup {m}
           /\ open => outbox' = outbox
           /\ ~wire => toObject' = toObject
<1>1. toObject' = toObject \/ toObject' = Append(toObject, m)
  BY DEF Reports
<1>2. outbox' = outbox \/ outbox' = Append(outbox, m)
  BY DEF Reports
<1>3. /\ Append(toObject, m) \in Seq(Up) /\ In(Append(toObject, m)) = In(toObject) \cup {m}
      /\ Append(outbox, m) \in Seq(Up) /\ In(Append(outbox, m)) = In(outbox) \cup {m}
  BY InAppend, AppendProperties
<1>4. /\ In(toObject') \subseteq In(toObject) \cup {m}
      /\ In(outbox') \subseteq In(outbox) \cup {m}
  BY <1>1, <1>2, <1>3
<1>5. open => outbox' = outbox
  BY DEF Reports
<1>6. ~wire => toObject' = toObject
  BY DEF Reports
<1> QED
  BY <1>1, <1>2, <1>3, <1>4, <1>5, <1>6 DEF Sent

LEMMA SentUpOnce ==
    ASSUME toObject \in Seq(Up), outbox \in Seq(Up), NEW m \in Up, Reports(m),
           Once(toObject), Once(outbox),
           m.type \in {"ask", "pull"} => \A n \in Sent : n.type = m.type => n.id # m.id
    PROVE  Once(toObject') /\ Once(outbox')
<1>1. toObject' = toObject \/ toObject' = Append(toObject, m)
  BY DEF Reports
<1>2. outbox' = outbox \/ outbox' = Append(outbox, m)
  BY DEF Reports
<1>3. Once(Append(toObject, m)) /\ Once(Append(outbox, m))
  BY OnceAppend DEF Sent
<1> QED
  BY <1>1, <1>2, <1>3

LEMMA EveryoneIsListed ==
    ASSUME NEW S, IsFiniteSet(S)
    PROVE  /\ SetToSeq(S) \in Seq(S)
           /\ \A x \in S : \E i \in 1 .. Len(SetToSeq(S)) : SetToSeq(S)[i] = x
<1> DEFINE n == Cardinality(S)
           f == SetToSeq(S)
<1>1. n \in Nat /\ ExistsBijection(1 .. n, S)
  BY FS_CardinalityType
<1>2. PICK g \in Bijection(1 .. n, S) : TRUE
  BY <1>1 DEF ExistsBijection
<1>3. g \in [1 .. n -> S] /\ IsInjective(g)
  BY <1>2 DEF Bijection, Injection, Surjection
<1>4. f \in [1 .. n -> S] /\ IsInjective(f)
  BY <1>3 DEF SetToSeq
<1>5. f \in Injection(1 .. n, S)
  BY <1>4 DEF Injection
<1>6. IsFiniteSet(1 .. n) /\ Cardinality(1 .. n) = n
  BY <1>1, FS_Interval
<1>7. f \in Surjection(1 .. n, S)
  BY <1>5, <1>6, FS_Injection
<1>8. \A x \in S : \E i \in 1 .. n : f[i] = x
  BY <1>7 DEF Surjection
<1>9. f \in Seq(S) /\ Len(f) = n
  BY <1>1, <1>4
<1> QED
  BY <1>8, <1>9

\* cancelOpenQuestions tells the sandbox of every question it cancels.
LEMMA CancellationsSent ==
    ASSUME NEW r, IsFiniteSet({q \in Asking : IsOpen(q)})
    PROVE  /\ Cancellations(r) \in Seq(Down)
           /\ \A q \in OpenOf(r) : [type |-> "cancel", id |-> q] \in In(Cancellations(r))
           /\ \A m \in In(Cancellations(r)) : m.type = "cancel" /\ m.id \in OpenOf(r)
<1> DEFINE ids == SetToSeq(OpenOf(r))
           ms == [i \in 1 .. Len(ids) |-> [type |-> "cancel", id |-> ids[i]]]
<1>1. IsFiniteSet(OpenOf(r)) /\ OpenOf(r) \subseteq Asking
  <2>1. OpenOf(r) \subseteq {q \in Asking : IsOpen(q)}
    BY DEF OpenOf, IsOpen
  <2> QED
    BY <2>1, FS_Subset
<1>2. ids \in Seq(OpenOf(r)) /\ \A q \in OpenOf(r) : \E i \in 1 .. Len(ids) : ids[i] = q
  BY <1>1, EveryoneIsListed
<1> HIDE DEF ids
<1>3. /\ Len(ids) \in Nat /\ DOMAIN ids = 1 .. Len(ids)
      /\ \A i \in 1 .. Len(ids) : ids[i] \in OpenOf(r)
  BY <1>2, LenProperties
<1>4. \A i \in 1 .. Len(ids) : [type |-> "cancel", id |-> ids[i]] \in Down
  BY <1>1, <1>3 DEF Down, CancelMessages
<1>5. ms \in Seq(Down) /\ Len(ms) = Len(ids)
  BY <1>3, <1>4
<1>6. Cancellations(r) = ms
  BY <1>3 DEF Cancellations, ids
<1>7. \A q \in OpenOf(r) : [type |-> "cancel", id |-> q] \in In(ms)
  <2> SUFFICES ASSUME NEW q \in OpenOf(r) PROVE [type |-> "cancel", id |-> q] \in In(ms)
    OBVIOUS
  <2>1. PICK i \in 1 .. Len(ids) : ids[i] = q
    BY <1>2
  <2>2. ms[i] = [type |-> "cancel", id |-> q] /\ i \in 1 .. Len(ms)
    BY <1>5, <2>1
  <2> QED
    BY <2>2 DEF In
<1>8. \A m \in In(ms) : m.type = "cancel" /\ m.id \in OpenOf(r)
  <2> SUFFICES ASSUME NEW m \in In(ms) PROVE m.type = "cancel" /\ m.id \in OpenOf(r)
    OBVIOUS
  <2>1. PICK i \in 1 .. Len(ms) : m = ms[i]
    BY DEF In
  <2>2. i \in 1 .. Len(ids) /\ m = [type |-> "cancel", id |-> ids[i]]
    BY <1>5, <2>1
  <2> QED
    BY <1>3, <2>2
<1> QED
  BY <1>5, <1>6, <1>7, <1>8

-----------------------------------------------------------------------------
(* Type correctness *)

LEMMA InitialTypes == Init => TypeOK
<1> SUFFICES ASSUME Init PROVE TypeOK
  OBVIOUS
<1>1. NoAnswer \in Answers /\ Nobody \in Web \cup {Nobody}
  BY DEF NoAnswer, Answers
<1>2. NoRow \in Rows
  BY <1>1 DEF NoRow, Rows, Policies
<1>3. Unasked \in AskRows
  BY <1>1 DEF Unasked, AskRows
<1>4. <<>> \in Seq(Up) /\ <<>> \in Seq(Down) /\ <<>> \in Seq(Runs)
  BY EmptySeq
<1>5. RunTypeOK /\ PullTypeOK
  BY DEF Init, RunTypeOK, PullTypeOK, PullStates
<1>6. SandboxTypeOK /\ SocketTypeOK
  BY <1>3, <1>4 DEF Init, SandboxTypeOK, SocketTypeOK
<1>7. SlackTypeOK /\ rows \in [Asking -> Rows] /\ faults \in Nat
  BY <1>1, <1>2 DEF Init, SlackTypeOK
<1> QED
  BY <1>5, <1>6, <1>7 DEF TypeOK

\* The messages the model makes.
LEMMA Messages ==
    /\ \A r \in Runs : [type |-> "turn", run |-> r] \in Down
    /\ \A q \in Asking, a \in Answers : [type |-> "answer", id |-> q, answer |-> a] \in Down
    /\ \A i \in Pulls, u \in BOOLEAN : [type |-> "pulled", id |-> i, url |-> u] \in Down
    /\ \A r \in Runs, type \in {"completed", "failed"} : [type |-> type, run |-> r] \in Up
    /\ \A r \in Runs, i \in Pulls : [type |-> "pull", id |-> i, run |-> r] \in Up
    /\ \A q \in Asking, r \in Runs, p \in Policies, s \in Shapes :
          [type |-> "ask", id |-> q, run |-> r, policy |-> p, shape |-> s] \in Up
BY DEF Up, AskMessages, PullMessages, OutcomeMessages,
       Down, TurnMessages, AnswerMessages, CancelMessages, PulledMessages

\* cancelOpenQuestions closes the open rows of the run.
LEMMA CancelledRows ==
    ASSUME rows \in [Asking -> Rows], NEW r
    PROVE  /\ Cancelled(r) \in [Asking -> Rows]
           /\ \A q \in Asking :
                 /\ q \in OpenOf(r) => Cancelled(r)[q] = [rows[q] EXCEPT !.status = "cancelled"]
                 /\ q \in OpenOf(r) => rows[q].status = "open" /\ rows[q].run = r
                 /\ q \notin OpenOf(r) => Cancelled(r)[q] = rows[q]
                                          /\ (rows[q].status = "open" => rows[q].run # r)
<1>1. \A q \in Asking : [rows[q] EXCEPT !.status = "cancelled"] \in Rows
  BY DEF Rows
<1> QED
  BY <1>1 DEF Cancelled, OpenOf

\* The rest of the variables of a group is as it was.
LEMMA CutOffCalls ==
    ASSUME calls \in SUBSET CallRows
    PROVE  /\ CutOff \in SUBSET CallRows
           /\ \A c \in CutOff : ~c.here /\ \E d \in calls : d.id = c.id /\ c = [d EXCEPT !.here = FALSE]
BY DEF CutOff, CallRows

LEMMA RunSteps ==
    ASSUME TypeOK, IsFiniteSet({q \in Asking : IsOpen(q)}),
           Aborts \/ SessionEnds \/ \E r \in Runs : Starts(r)
    PROVE  TypeOK'
<1>0. RunTypeOK /\ SandboxTypeOK /\ PullTypeOK /\ SocketTypeOK /\ SlackTypeOK
      /\ rows \in [Asking -> Rows] /\ faults \in Nat
  BY DEF TypeOK
<1>1. CASE Aborts
  <2>1. active \in Runs /\ rows' = Cancelled(active) /\ Finished(active) /\ Sends(Cancellations(active))
        /\ UNCHANGED <<closed, sandboxVars, pullVars, toObject, outbox, socketVars, slackVars, faults>>
    BY <1>0, <1>1 DEF Aborts, RunTypeOK
  <2>2. rows' \in [Asking -> Rows]
    BY <1>0, <2>1, CancelledRows
  <2>3. toSandbox' \in Seq(Down)
    BY <1>0, <2>1, CancellationsSent, SentDown DEF SocketTypeOK
  <2>4. RunTypeOK'
    BY <1>0, <2>1 DEF RunTypeOK, Finished
  <2>5. SocketTypeOK'
    BY <1>0, <2>1, <2>3 DEF SocketTypeOK, socketVars
  <2>6. SandboxTypeOK' /\ PullTypeOK' /\ SlackTypeOK' /\ faults' \in Nat
    BY <1>0, <2>1 DEF SandboxTypeOK, PullTypeOK, SlackTypeOK, sandboxVars, pullVars, slackVars
  <2> QED
    BY <2>2, <2>4, <2>5, <2>6 DEF TypeOK
<1>2. CASE SessionEnds
  <2>1. rows' \in [Asking -> Rows]
    BY <1>0, <1>2, CancelledRows DEF SessionEnds
  <2>2. \A q \in Asking : asks[q] \in AskRows /\ [asks[q] EXCEPT !.state = "killed"] \in AskRows
    BY <1>0 DEF SandboxTypeOK, AskRows
  <2>3. SandboxTypeOK'
    BY <1>0, <1>2, <2>2, EmptySeq DEF SandboxTypeOK, SessionEnds
  <2>4. PullTypeOK'
    BY <1>0, <1>2, CutOffCalls DEF PullTypeOK, SessionEnds, PullStates
  <2>5. RunTypeOK'
    BY <1>0, <1>2 DEF RunTypeOK, SessionEnds
  <2>6. SocketTypeOK'
    BY <1>0, <1>2, EmptySeq DEF SocketTypeOK, SessionEnds
  <2>7. SlackTypeOK' /\ faults' \in Nat
    BY <1>0, <1>2 DEF SlackTypeOK, slackVars, SessionEnds
  <2> QED
    BY <2>1, <2>3, <2>4, <2>5, <2>6, <2>7 DEF TypeOK
<1>3. ASSUME NEW r \in Runs, Starts(r)
      PROVE  TypeOK'
  <2>1. /\ active' = r /\ Sends(<<[type |-> "turn", run |-> r]>>)
        /\ UNCHANGED <<over, closed, sandboxVars, pullVars, rows, toObject, outbox, socketVars, slackVars, faults>>
    BY <1>3 DEF Starts
  <2>2. <<[type |-> "turn", run |-> r]>> \in Seq(Down)
    BY Messages
  <2>3. toSandbox' \in Seq(Down)
    BY <1>0, <2>1, <2>2, SentDown DEF SocketTypeOK
  <2>4. RunTypeOK'
    BY <1>0, <2>1 DEF RunTypeOK
  <2>5. SocketTypeOK'
    BY <1>0, <2>1, <2>3 DEF SocketTypeOK, socketVars
  <2>6. SandboxTypeOK' /\ PullTypeOK' /\ SlackTypeOK' /\ faults' \in Nat /\ rows' \in [Asking -> Rows]
    BY <1>0, <2>1 DEF SandboxTypeOK, PullTypeOK, SlackTypeOK, sandboxVars, pullVars, slackVars
  <2> QED
    BY <2>4, <2>5, <2>6 DEF TypeOK
<1> QED
  BY <1>1, <1>2, <1>3

LEMMA SocketSteps ==
    ASSUME TypeOK, Breaks \/ SocketRecovers
    PROVE  TypeOK'
<1>0. RunTypeOK /\ SandboxTypeOK /\ PullTypeOK /\ SocketTypeOK /\ SlackTypeOK
      /\ rows \in [Asking -> Rows] /\ faults \in Nat
  BY DEF TypeOK
<1>1. UNCHANGED <<runVars, sandboxVars, pulls, opened, rows, slackVars>>
  BY DEF Breaks, SocketRecovers, ObjectNotices, SandboxNotices, Reconnects, pullVars
<1>2. RunTypeOK' /\ SandboxTypeOK' /\ SlackTypeOK' /\ rows' \in [Asking -> Rows]
  BY <1>0, <1>1 DEF RunTypeOK, SandboxTypeOK, SlackTypeOK, runVars, sandboxVars, slackVars
<1>3. faults' \in Nat /\ (calls' = calls \/ calls' = CutOff)
  BY <1>0 DEF Breaks, SocketRecovers, ObjectNotices, SandboxNotices, Reconnects, Fault, pullVars
<1>4. PullTypeOK'
  BY <1>0, <1>1, <1>3, CutOffCalls DEF PullTypeOK
<1>5. toObject' \in Seq(Up) /\ outbox' \in Seq(Up) /\ toSandbox' \in Seq(Down)
  BY <1>0, EmptySeq DEF Breaks, SocketRecovers, ObjectNotices, SandboxNotices, Reconnects, SocketTypeOK
<1>6. wire' \in BOOLEAN /\ live' \in BOOLEAN /\ open' \in BOOLEAN
  BY <1>0 DEF Breaks, SocketRecovers, ObjectNotices, SandboxNotices, Reconnects, SocketTypeOK
<1> QED
  BY <1>2, <1>3, <1>4, <1>5, <1>6 DEF TypeOK, SocketTypeOK

LEMMA SandboxSteps ==
    ASSUME TypeOK,
           \/ \E r \in Runs, type \in {"completed", "failed"} : TurnEnds(r, type)
           \/ \E q \in Asking, policy \in Policies, shape \in Shapes : q \in Runs /\ Asks(q, policy, shape)
           \/ \E r \in Runs, i \in Pulls : AsksForPull(r, i)
    PROVE  TypeOK'
<1>0. RunTypeOK /\ SandboxTypeOK /\ PullTypeOK /\ SocketTypeOK /\ SlackTypeOK
      /\ rows \in [Asking -> Rows] /\ faults \in Nat
  BY DEF TypeOK
<1>1. /\ UNCHANGED <<runVars, calls, opened, rows, toSandbox, socketVars, slackVars, faults>>
      /\ \E m \in Up : Reports(m)
  <2>1. \A r \in Runs : AgentOf(r) \in Runs
    BY <1>0 DEF AgentOf, SandboxTypeOK
  <2>2. ASSUME NEW r \in Runs, NEW type \in {"completed", "failed"}, TurnEnds(r, type)
        PROVE  /\ UNCHANGED <<runVars, calls, opened, rows, toSandbox, socketVars, slackVars, faults>>
               /\ \E m \in Up : Reports(m)
    BY <2>2, Messages DEF TurnEnds, pullVars
  <2>3. ASSUME NEW q \in Asking, q \in Runs, NEW policy \in Policies, NEW shape \in Shapes, Asks(q, policy, shape)
        PROVE  /\ UNCHANGED <<runVars, calls, opened, rows, toSandbox, socketVars, slackVars, faults>>
               /\ \E m \in Up : Reports(m)
    BY <2>1, <2>3, Messages DEF Asks, pullVars
  <2>4. ASSUME NEW r \in Runs, NEW i \in Pulls, AsksForPull(r, i)
        PROVE  /\ UNCHANGED <<runVars, calls, opened, rows, toSandbox, socketVars, slackVars, faults>>
               /\ \E m \in Up : Reports(m)
    BY <2>4, Messages DEF AsksForPull
  <2> QED
    BY <2>2, <2>3, <2>4
<1>2. toObject' \in Seq(Up) /\ outbox' \in Seq(Up)
  BY <1>0, <1>1, SentUp DEF SocketTypeOK
<1>3. RunTypeOK' /\ SocketTypeOK' /\ SlackTypeOK' /\ rows' \in [Asking -> Rows] /\ faults' \in Nat
  BY <1>0, <1>1, <1>2 DEF RunTypeOK, SocketTypeOK, SlackTypeOK, runVars, socketVars, slackVars
<1>4. /\ \A r \in Runs : AgentOf(r) \in Runs
      /\ \A a \in Answers : [state |-> "waiting", answer |-> a] \in AskRows
      /\ NoAnswer \in Answers
  BY <1>0 DEF AgentOf, SandboxTypeOK, AskRows, NoAnswer, Answers
<1>5. SandboxTypeOK'
  <2>1. work' \in Seq(Runs)
    BY <1>0, HeadTailProperties DEF TurnEnds, Asks, AsksForPull, Working, SandboxTypeOK
  <2>2. agent' \in Runs \cup {0}
    BY <1>4 DEF TurnEnds, Asks, AsksForPull
  <2>3. asks' \in [Asking -> AskRows]
    BY <1>0, <1>4 DEF TurnEnds, Asks, AsksForPull, Ends, SandboxTypeOK
  <2> QED
    BY <2>1, <2>2, <2>3 DEF SandboxTypeOK
<1>6. PullTypeOK'
  <2>1. pulls' \in [Pulls -> PullStates]
    BY <1>0 DEF TurnEnds, Asks, AsksForPull, PullTypeOK, PullStates, pullVars
  <2> QED
    BY <1>0, <1>1, <2>1 DEF PullTypeOK
<1> QED
  BY <1>3, <1>5, <1>6 DEF TypeOK

LEMMA SandboxReceivesTyped ==
    ASSUME TypeOK, SandboxReceives
    PROVE  TypeOK'
<1>0. RunTypeOK /\ SandboxTypeOK /\ PullTypeOK /\ SocketTypeOK /\ SlackTypeOK
      /\ rows \in [Asking -> Rows] /\ faults \in Nat
  BY DEF TypeOK
<1> DEFINE m == Head(toSandbox)
<1>1. m \in Down /\ toSandbox' \in Seq(Down)
  BY <1>0, InTail DEF SandboxReceives, SocketTypeOK
<1>2. /\ m.type = "turn" => m.run \in Runs
      /\ m.type = "answer" => m.id \in Asking /\ m.answer \in Answers
      /\ m.type = "cancel" => m.id \in Asking
  BY <1>1, DownFields
<1>3. /\ \/ m.type = "turn" /\ work' = Append(work, m.run) /\ UNCHANGED <<asks, pulls>>
         \/ m.type \in {"answer", "cancel"} /\ Resolved(m) /\ UNCHANGED <<work, pulls>>
         \/ m.type = "pulled" /\ PullResolved(m) /\ UNCHANGED <<work, asks>>
      /\ UNCHANGED <<runVars, agent, calls, opened, rows, toObject, outbox, socketVars, slackVars, faults>>
  BY DEF SandboxReceives
<1> HIDE DEF m
<1>4. NoAnswer \in Answers
  BY DEF NoAnswer, Answers
<1>5. m.type \in {"answer", "cancel"} /\ Resolved(m) => asks' \in [Asking -> AskRows]
  <2> SUFFICES ASSUME m.type \in {"answer", "cancel"}, Resolved(m) PROVE asks' \in [Asking -> AskRows]
    OBVIOUS
  <2>1. \A a \in Answers : [state |-> "told", answer |-> a] \in AskRows
                          /\ [state |-> "cancelled", answer |-> a] \in AskRows
    BY DEF AskRows
  <2> QED
    BY <1>0, <1>2, <1>4, <2>1 DEF Resolved, Ends, SandboxTypeOK
<1>6. PullResolved(m) => pulls' \in [Pulls -> PullStates]
  BY <1>0 DEF PullResolved, PullTypeOK, PullStates
<1>7. SandboxTypeOK'
  BY <1>0, <1>2, <1>3, <1>5, AppendProperties DEF SandboxTypeOK
<1>8. PullTypeOK'
  BY <1>0, <1>3, <1>6 DEF PullTypeOK
<1>9. RunTypeOK' /\ SocketTypeOK' /\ SlackTypeOK' /\ rows' \in [Asking -> Rows] /\ faults' \in Nat
  BY <1>0, <1>1, <1>3 DEF RunTypeOK, SocketTypeOK, SlackTypeOK, runVars, socketVars, slackVars
<1> QED
  BY <1>7, <1>8, <1>9 DEF TypeOK

\* handleAskQuestionRequest, handleCreatePullRequestRequest and the reports of
\* a turn, one at a time.
TakesNext == toObject # <<>> /\ toObject' = Tail(toObject)
Before == <<sandboxVars, pulls, opened, outbox, socketVars, slackVars, faults>>
HearsAsk(m) ==
    m.type = "ask" /\ Raised(m) /\ UNCHANGED <<runVars, calls, toSandbox>>
HearsPull(m) ==
    m.type = "pull" /\ PullAsked(m) /\ UNCHANGED <<runVars, rows>>
HearsComplete(m) ==
    /\ m.type = "completed" /\ m.run = active /\ Finished(active)
    /\ UNCHANGED <<closed, calls, rows, toSandbox>>
HearsFailed(m) ==
    /\ m.type = "failed" /\ m.run = active /\ Finished(active) /\ UNCHANGED <<closed, calls>>
    /\ rows' = Cancelled(active) /\ Sends(Cancellations(active))
HearsOld(m) ==
    IsOutcome(m) /\ m.run # active /\ UNCHANGED <<runVars, calls, rows, toSandbox>>

LEMMA ObjectHears ==
    ASSUME ObjectReceives
    PROVE  /\ TakesNext /\ UNCHANGED Before
           /\ LET m == Head(toObject)
              IN  HearsAsk(m) \/ HearsPull(m) \/ HearsComplete(m) \/ HearsFailed(m) \/ HearsOld(m)
<1> DEFINE m == Head(toObject)
<1>1. TakesNext /\ UNCHANGED Before
  BY DEF ObjectReceives, TakesNext, Before
<1>2. HearsAsk(m) \/ HearsPull(m) \/ HearsComplete(m) \/ HearsFailed(m) \/ HearsOld(m)
  BY DEF ObjectReceives, HearsAsk, HearsPull, HearsComplete, HearsFailed, HearsOld
<1> QED
  BY <1>1, <1>2

LEMMA ObjectReceivesTyped ==
    ASSUME TypeOK, IsFiniteSet({q \in Asking : IsOpen(q)}), ObjectReceives
    PROVE  TypeOK'
<1>0. RunTypeOK /\ SandboxTypeOK /\ PullTypeOK /\ SocketTypeOK /\ SlackTypeOK
      /\ rows \in [Asking -> Rows] /\ faults \in Nat
  BY DEF TypeOK
<1> DEFINE m == Head(toObject)
<1>1. TakesNext /\ UNCHANGED Before
      /\ (HearsAsk(m) \/ HearsPull(m) \/ HearsComplete(m) \/ HearsFailed(m) \/ HearsOld(m))
  BY ObjectHears
<1>2. m \in Up /\ toObject' \in Seq(Up)
  BY <1>0, <1>1, InTail DEF TakesNext, SocketTypeOK
<1> HIDE DEF m
<1>3. /\ m.run \in Runs
      /\ m.type = "ask" => m.id \in Asking /\ m.policy \in Policies /\ m.shape \in Shapes
      /\ m.type = "pull" => m.id \in Pulls
  BY <1>2, UpFields
<1>4. SandboxTypeOK' /\ SlackTypeOK' /\ faults' \in Nat /\ pulls' \in [Pulls -> PullStates]
      /\ opened' \in [Pulls -> {"no", "heard", "unheard"}] /\ outbox' \in Seq(Up)
      /\ wire' \in BOOLEAN /\ live' \in BOOLEAN /\ open' \in BOOLEAN
  BY <1>0, <1>1 DEF Before, SandboxTypeOK, SlackTypeOK, PullTypeOK, SocketTypeOK,
                    sandboxVars, socketVars, slackVars
<1>5. RunTypeOK'
  BY <1>0, <1>1, <1>3 DEF HearsAsk, HearsPull, HearsComplete, HearsFailed, HearsOld, Finished,
                          RunTypeOK, runVars
<1>6. rows' \in [Asking -> Rows]
  <2>1. HearsAsk(m) => rows' \in [Asking -> Rows]
    <3>1. NoAnswer \in Answers
      BY DEF NoAnswer, Answers
    <3> QED
      BY <1>0, <1>3, <3>1 DEF HearsAsk, Raised, Rows, Web
  <2>2. HearsFailed(m) => rows' \in [Asking -> Rows]
    BY <1>0, CancelledRows DEF HearsFailed
  <2> QED
    BY <1>0, <1>1, <2>1, <2>2 DEF HearsPull, HearsComplete, HearsOld
<1>7. calls' \in SUBSET CallRows
  <2>1. HearsPull(m) => calls' \in SUBSET CallRows
    <3>1. m.type = "pull" => [id |-> m.id, attempt |-> 1, here |-> TRUE] \in CallRows
      BY <1>3 DEF CallRows
    <3>2. calls \in SUBSET CallRows
      BY <1>0 DEF PullTypeOK
    <3>3. HearsPull(m) => calls' = calls \/ calls' = calls \cup {[id |-> m.id, attempt |-> 1, here |-> TRUE]}
      BY DEF HearsPull, PullAsked
    <3>4. HearsPull(m) => m.type = "pull"
      BY DEF HearsPull
    <3> QED
      BY <3>1, <3>2, <3>3, <3>4
  <2> QED
    BY <1>0, <1>1, <2>1 DEF HearsAsk, HearsComplete, HearsFailed, HearsOld, PullTypeOK
<1>8. toSandbox' \in Seq(Down)
  <2>1. HearsPull(m) => toSandbox' \in Seq(Down)
    <3> DEFINE p == [type |-> "pulled", id |-> m.id, url |-> FALSE]
    <3>1. m.type = "pull" => p \in Down
      BY <1>3, Messages
    <3>2. HearsPull(m) => m.type = "pull" /\ (toSandbox' = toSandbox \/ Sends(<<p>>))
      BY DEF HearsPull, PullAsked
    <3> HIDE DEF p
    <3>3. m.type = "pull" => <<p>> \in Seq(Down)
      BY <3>1
    <3> QED
      BY <1>0, <3>2, <3>3, SentDown DEF SocketTypeOK
  <2>2. HearsFailed(m) => toSandbox' \in Seq(Down)
    BY <1>0, CancellationsSent, SentDown DEF HearsFailed, SocketTypeOK
  <2> QED
    BY <1>0, <1>1, <2>1, <2>2 DEF HearsAsk, HearsComplete, HearsOld, SocketTypeOK
<1> QED
  BY <1>2, <1>4, <1>5, <1>6, <1>7, <1>8 DEF TypeOK, PullTypeOK, SocketTypeOK

\* applyQuestionAnswer closes one open row, and says so.
Answered(q, a) == [rows[q] EXCEPT !.status = "answered", !.answer = a]
LEMMA AnswerAccepted ==
    ASSUME TypeOK, NEW p \in People, NEW q \in Asking, NEW chosen \in Selections, Accepts(p, q, chosen)
    PROVE  LET a == [by |-> p, chosen |-> chosen]
               m == [type |-> "answer", id |-> q, answer |-> a]
           IN  /\ a \in Answers /\ m \in Down /\ Answered(q, a) \in Rows
               /\ IsOpen(q) /\ live /\ Valid(chosen, rows[q].shape)
               /\ rows' = [rows EXCEPT ![q] = Answered(q, a)]
               /\ Sends(<<m>>) /\ <<m>> \in Seq(Down)
<1> DEFINE a == [by |-> p, chosen |-> chosen]
           m == [type |-> "answer", id |-> q, answer |-> a]
<1>1. a \in Answers
  BY DEF Answers
<1>2. m \in Down
  BY <1>1, Messages
<1>3. rows \in [Asking -> Rows]
  BY DEF TypeOK
<1>4. Answered(q, a) \in Rows
  BY <1>1, <1>3 DEF Answered, Rows
<1>5. /\ IsOpen(q) /\ live /\ Valid(chosen, rows[q].shape)
      /\ rows' = [rows EXCEPT ![q].status = "answered", ![q].answer = a]
      /\ Sends(<<m>>)
  BY DEF Accepts
<1>6. rows' = [rows EXCEPT ![q] = Answered(q, a)]
  BY <1>3, <1>5 DEF Answered, Rows
<1>7. <<m>> \in Seq(Down)
  <2> HIDE DEF m
  <2> QED
    BY <1>2
<1> QED
  BY <1>1, <1>2, <1>4, <1>5, <1>6, <1>7

\* Whoever answers, and whatever Slack hears of it.
SomebodyAnswers ==
    \/ \E p \in Web, q \in Asking, chosen \in Selections : WebAnswers(p, q, chosen)
    \/ \E q \in Asking : ButtonIsPressed(q) \/ TextIsSubmitted(q)
LEMMA AnswerSteps ==
    ASSUME SomebodyAnswers
    PROVE  /\ UNCHANGED <<runVars, sandboxVars, pullVars, toObject, outbox, socketVars, cards>>
           /\ modals' \in SUBSET modals
           /\ \/ rows' = rows /\ toSandbox' = toSandbox /\ updates' = updates
              \/ /\ rows' = rows /\ toSandbox' = toSandbox
                 /\ \E q \in Asking :
                       /\ rows[q].status = "answered"
                       /\ updates' \in SUBSET (updates \cup {[question |-> q, answer |-> rows[q].answer]})
              \/ \E p \in People, q \in Asking, chosen \in Selections :
                    /\ Accepts(p, q, chosen) /\ (p \in Web => CanAnswer(p, rows[q]))
                    /\ updates' \in SUBSET (updates \cup
                          {[question |-> q, answer |-> [by |-> p, chosen |-> chosen]]})
           /\ faults' = faults \/ faults' = faults + 1
<1>1. ASSUME NEW p \in Web, NEW q \in Asking, NEW chosen \in Selections, WebAnswers(p, q, chosen)
      PROVE  /\ UNCHANGED <<runVars, sandboxVars, pullVars, toObject, outbox, socketVars, cards, modals,
                            updates, faults>>
             /\ p \in People /\ Accepts(p, q, chosen) /\ CanAnswer(p, rows[q])
  BY <1>1 DEF WebAnswers, slackVars, People
<1>2. ASSUME NEW q \in Asking, NEW chosen \in Selections, SlackAnswers(q, chosen)
      PROVE  /\ \/ /\ rows' = rows /\ toSandbox' = toSandbox /\ rows[q].status = "answered"
                   /\ updates' \in SUBSET (updates \cup {[question |-> q, answer |-> rows[q].answer]})
                \/ /\ Accepts(Slack, q, chosen)
                   /\ updates' \in SUBSET (updates \cup
                          {[question |-> q, answer |-> [by |-> Slack, chosen |-> chosen]]})
             /\ faults' = faults \/ faults' = faults + 1
  BY <1>2 DEF SlackAnswers, Heard, Fault
<1>3. Slack \in People /\ (Slack \in Web => FALSE) /\ "options" \in Selections /\ "text" \in Selections
  <2>1. Slack \notin Web
    <3> SUFFICES ASSUME Slack \in Web PROVE FALSE
      OBVIOUS
    <3>1. People = {Creator} \cup {Member}
      BY DEF People, Web
    <3>2. IsFiniteSet({Creator}) /\ Cardinality({Creator}) = 1
          /\ IsFiniteSet({Member}) /\ Cardinality({Member}) = 1
      BY FS_Singleton
    <3>3. Cardinality({Creator} \cup {Member}) =
             1 + 1 - Cardinality({Creator} \cap {Member})
          /\ Cardinality({Creator} \cap {Member}) \in Nat
      BY <3>2, FS_Union, FS_Intersection, FS_CardinalityType
    <3> QED
      BY <3>1, <3>3, QuestionAssumption
  <2> QED
    BY <2>1 DEF People, Selections
<1>4. ASSUME NEW q \in Asking, ButtonIsPressed(q)
      PROVE  SlackAnswers(q, "options") /\ modals' = modals
             /\ UNCHANGED <<runVars, sandboxVars, pullVars, toObject, outbox, socketVars, cards>>
  BY <1>4 DEF ButtonIsPressed
<1>5. ASSUME NEW q \in Asking, TextIsSubmitted(q)
      PROVE  (SlackAnswers(q, "text") \/ Ignored) /\ modals' \in SUBSET modals
             /\ UNCHANGED <<runVars, sandboxVars, pullVars, toObject, outbox, socketVars, cards>>
  BY <1>5 DEF TextIsSubmitted
<1>6. Ignored => UNCHANGED <<rows, toSandbox, updates, faults>>
  BY DEF Ignored
<1>7. CASE \E p \in Web, q \in Asking, chosen \in Selections : WebAnswers(p, q, chosen)
  BY <1>1, <1>7
<1>8. CASE \E q \in Asking : ButtonIsPressed(q) \/ TextIsSubmitted(q)
  <2>1. PICK q \in Asking : ButtonIsPressed(q) \/ TextIsSubmitted(q)
    BY <1>8
  <2>2. /\ \E chosen \in Selections : SlackAnswers(q, chosen)
        \/ Ignored
    BY <1>3, <1>4, <1>5, <2>1
  <2>3. /\ UNCHANGED <<runVars, sandboxVars, pullVars, toObject, outbox, socketVars, cards>>
        /\ modals' \in SUBSET modals
    BY <1>4, <1>5, <2>1
  <2>4. CASE Ignored
    BY <1>6, <2>3, <2>4
  <2>5. ASSUME NEW chosen \in Selections, SlackAnswers(q, chosen)
        PROVE  /\ \/ /\ rows' = rows /\ toSandbox' = toSandbox /\ rows[q].status = "answered"
                     /\ updates' \in SUBSET (updates \cup {[question |-> q, answer |-> rows[q].answer]})
                  \/ /\ Accepts(Slack, q, chosen) /\ (Slack \in Web => CanAnswer(Slack, rows[q]))
                     /\ updates' \in SUBSET (updates \cup
                            {[question |-> q, answer |-> [by |-> Slack, chosen |-> chosen]]})
               /\ faults' = faults \/ faults' = faults + 1
    BY <1>2, <1>3, <2>5
  <2> QED
    BY <1>3, <2>2, <2>3, <2>4, <2>5
<1> QED
  BY <1>7, <1>8 DEF SomebodyAnswers

LEMMA AnswersTyped ==
    ASSUME TypeOK, SomebodyAnswers
    PROVE  TypeOK'
<1>0. RunTypeOK /\ SandboxTypeOK /\ PullTypeOK /\ SocketTypeOK /\ SlackTypeOK
      /\ rows \in [Asking -> Rows] /\ faults \in Nat
  BY DEF TypeOK
<1>1. /\ UNCHANGED <<runVars, sandboxVars, pullVars, toObject, outbox, socketVars, cards>>
      /\ modals' \in SUBSET modals /\ faults' \in Nat
  BY <1>0, AnswerSteps
<1>2. RunTypeOK' /\ SandboxTypeOK' /\ PullTypeOK'
  BY <1>0, <1>1 DEF RunTypeOK, SandboxTypeOK, PullTypeOK, runVars, sandboxVars, pullVars
<1>3. /\ rows' \in [Asking -> Rows] /\ toSandbox' \in Seq(Down)
      /\ updates' \in SUBSET [question : Asking, answer : Answers]
  <2>1. updates \in SUBSET [question : Asking, answer : Answers] /\ toSandbox \in Seq(Down)
    BY <1>0 DEF SlackTypeOK, SocketTypeOK
  <2>2. ASSUME NEW q \in Asking,
               updates' \in SUBSET (updates \cup {[question |-> q, answer |-> rows[q].answer]})
        PROVE  updates' \in SUBSET [question : Asking, answer : Answers]
    <3>1. rows[q].answer \in Answers
      BY <1>0 DEF Rows
    <3> QED
      BY <2>1, <2>2, <3>1
  <2>3. ASSUME NEW p \in People, NEW q \in Asking, NEW chosen \in Selections, Accepts(p, q, chosen),
               updates' \in SUBSET (updates \cup
                  {[question |-> q, answer |-> [by |-> p, chosen |-> chosen]]})
        PROVE  /\ rows' \in [Asking -> Rows] /\ toSandbox' \in Seq(Down)
               /\ updates' \in SUBSET [question : Asking, answer : Answers]
    <3> DEFINE a == [by |-> p, chosen |-> chosen]
               m == [type |-> "answer", id |-> q, answer |-> a]
    <3>1. /\ a \in Answers /\ Answered(q, a) \in Rows
          /\ rows' = [rows EXCEPT ![q] = Answered(q, a)]
          /\ Sends(<<m>>) /\ <<m>> \in Seq(Down)
      BY <2>3, AnswerAccepted
    <3> HIDE DEF m
    <3>2. toSandbox' \in Seq(Down)
      BY <2>1, <3>1, SentDown
    <3> QED
      BY <1>0, <2>1, <2>3, <3>1, <3>2
  <2> QED
    BY <1>0, <2>1, <2>2, <2>3, AnswerSteps
<1>4. SocketTypeOK' /\ SlackTypeOK'
  BY <1>0, <1>1, <1>3 DEF SocketTypeOK, SlackTypeOK, socketVars
<1> QED
  BY <1>1, <1>2, <1>3, <1>4 DEF TypeOK

\* What else there is: time, the owner, GitHub and the messages in Slack.
LEMMA OtherSteps ==
    ASSUME TypeOK,
           \/ \E q \in Asking : TimesOut(q) \/ CardAppears(q) \/ ModalOpens(q)
           \/ \E q \in Asking, p \in Web, to \in Web : Assigns(p, q, to)
           \/ \E i \in Pulls : PullTimesOut(i)
           \/ \E u \in updates : CardIsUpdated(u)
           \/ \E c \in calls : GitHubAnswers(c)
    PROVE  TypeOK'
<1>0. RunTypeOK /\ SandboxTypeOK /\ PullTypeOK /\ SocketTypeOK /\ SlackTypeOK
      /\ rows \in [Asking -> Rows] /\ faults \in Nat
  BY DEF TypeOK
<1>1. ASSUME NEW q \in Asking, TimesOut(q)
      PROVE  TypeOK'
  <2>1. [state |-> "timedOut", answer |-> NoAnswer] \in AskRows
    BY DEF AskRows, NoAnswer, Answers
  <2>2. UNCHANGED <<runVars, work, agent, pullVars, rows, toObject, toSandbox, outbox, socketVars, slackVars, faults>>
        /\ asks' \in [Asking -> AskRows]
    BY <1>0, <1>1, <2>1 DEF TimesOut, Ends, SandboxTypeOK
  <2> QED
    BY <1>0, <2>2 DEF TypeOK, RunTypeOK, SandboxTypeOK, PullTypeOK, SocketTypeOK, SlackTypeOK,
                      runVars, pullVars, socketVars, slackVars
<1>2. ASSUME NEW i \in Pulls, PullTimesOut(i)
      PROVE  TypeOK'
  <2>1. UNCHANGED <<runVars, sandboxVars, calls, opened, rows, toObject, toSandbox, outbox, socketVars, slackVars, faults>>
        /\ pulls' \in [Pulls -> PullStates]
    BY <1>0, <1>2 DEF PullTimesOut, PullTypeOK, PullStates
  <2> QED
    BY <1>0, <2>1 DEF TypeOK, RunTypeOK, SandboxTypeOK, PullTypeOK, SocketTypeOK, SlackTypeOK,
                      runVars, sandboxVars, socketVars, slackVars
<1>3. ASSUME NEW q \in Asking, NEW p \in Web, NEW to \in Web, Assigns(p, q, to)
      PROVE  TypeOK'
  <2>1. rows' = [rows EXCEPT ![q] = [rows[q] EXCEPT !.policy = "assigned", !.assigned = to]]
        /\ [rows[q] EXCEPT !.policy = "assigned", !.assigned = to] \in Rows
    BY <1>0, <1>3 DEF Assigns, Rows, Policies
  <2>2. UNCHANGED <<runVars, sandboxVars, pullVars, toObject, toSandbox, outbox, socketVars, slackVars, faults>>
        /\ rows' \in [Asking -> Rows]
    BY <1>0, <1>3, <2>1 DEF Assigns
  <2> QED
    BY <1>0, <2>2 DEF TypeOK, RunTypeOK, SandboxTypeOK, PullTypeOK, SocketTypeOK, SlackTypeOK,
                      runVars, sandboxVars, pullVars, socketVars, slackVars
<1>4. ASSUME NEW q \in Asking, CardAppears(q) \/ ModalOpens(q)
      PROVE  TypeOK'
  <2>1. UNCHANGED <<runVars, sandboxVars, pullVars, rows, toObject, toSandbox, outbox, socketVars, updates, faults>>
    BY <1>4 DEF CardAppears, ModalOpens
  <2>2. /\ cards' \in [Asking -> [shows : {"nothing", "controls", "answer"}, answer : Answers]]
        /\ modals' \in SUBSET Asking
    BY <1>0, <1>4 DEF CardAppears, ModalOpens, SlackTypeOK
  <2> QED
    BY <1>0, <2>1, <2>2 DEF TypeOK, RunTypeOK, SandboxTypeOK, PullTypeOK, SocketTypeOK, SlackTypeOK,
                      runVars, sandboxVars, pullVars, socketVars
<1>5. ASSUME NEW u \in updates, CardIsUpdated(u)
      PROVE  TypeOK'
  <2>1. /\ UNCHANGED <<runVars, sandboxVars, pullVars, rows, toObject, toSandbox, outbox, socketVars, modals>>
        /\ updates' \in SUBSET updates /\ u.question \in Asking /\ u.answer \in Answers
        /\ \/ cards' = [cards EXCEPT ![u.question] = [shows |-> "answer", answer |-> u.answer]]
           \/ cards' = cards
        /\ faults' \in Nat
    BY <1>0, <1>5 DEF CardIsUpdated, SlackTypeOK, Fault
  <2>2. /\ cards' \in [Asking -> [shows : {"nothing", "controls", "answer"}, answer : Answers]]
        /\ updates' \in SUBSET [question : Asking, answer : Answers]
    BY <1>0, <2>1 DEF SlackTypeOK
  <2> QED
    BY <1>0, <2>1, <2>2 DEF TypeOK, RunTypeOK, SandboxTypeOK, PullTypeOK, SocketTypeOK, SlackTypeOK,
                      runVars, sandboxVars, pullVars, socketVars
<1>6. ASSUME NEW c \in calls, GitHubAnswers(c)
      PROVE  TypeOK'
  <2>1. c \in CallRows /\ c.id \in Pulls /\ [c EXCEPT !.attempt = @ + 1] \in CallRows
    BY <1>0 DEF PullTypeOK, CallRows
  <2>2. \A url \in BOOLEAN : Append(toSandbox, [type |-> "pulled", id |-> c.id, url |-> url]) \in Seq(Down)
    BY <1>0, <2>1, Messages, AppendProperties DEF SocketTypeOK
  <2>3. calls' \in SUBSET CallRows /\ toSandbox' \in Seq(Down)
    <3>1. calls \in SUBSET CallRows /\ toSandbox \in Seq(Down)
      BY <1>0 DEF PullTypeOK, SocketTypeOK
    <3>2. \A url \in BOOLEAN : Replies(c, url) => calls' \in SUBSET CallRows /\ toSandbox' \in Seq(Down)
      BY <2>2, <3>1 DEF Replies
    <3>3. TriesAgain(c) => calls' \in SUBSET CallRows /\ toSandbox' \in Seq(Down)
      BY <2>1, <3>1, <3>2 DEF TriesAgain
    <3>4. Replies(c, TRUE) \/ TriesAgain(c)
      BY <1>6 DEF GitHubAnswers
    <3> QED
      BY <3>2, <3>3, <3>4
  <2>4. opened' \in [Pulls -> {"no", "heard", "unheard"}] /\ faults' \in Nat
    <3>1. opened \in [Pulls -> {"no", "heard", "unheard"}] /\ faults \in Nat
      BY <1>0 DEF PullTypeOK
    <3>2. \/ opened' = [opened EXCEPT ![c.id] = "heard"]
          \/ opened' = [opened EXCEPT ![c.id] = "unheard"]
          \/ opened' = opened
      BY <1>6 DEF GitHubAnswers
    <3>3. faults' = faults \/ faults' = faults + 1
      BY <1>6 DEF GitHubAnswers, Fault
    <3>4. opened' \in [Pulls -> {"no", "heard", "unheard"}]
      BY <3>1, <3>2
    <3> QED
      BY <3>1, <3>3, <3>4
  <2>5. UNCHANGED <<runVars, sandboxVars, pulls, rows, toObject, outbox, socketVars, slackVars>>
    BY <1>6 DEF GitHubAnswers
  <2> QED
    BY <1>0, <2>3, <2>4, <2>5 DEF TypeOK, RunTypeOK, SandboxTypeOK, PullTypeOK, SocketTypeOK, SlackTypeOK,
                      runVars, sandboxVars, socketVars, slackVars
<1> QED
  BY <1>1, <1>2, <1>3, <1>4, <1>5, <1>6

\* The steps of the system, as the proofs take them.
StepCases ==
    \/ Breaks \/ SocketRecovers
    \/ SandboxReceives \/ ObjectReceives \/ Aborts \/ SessionEnds
    \/ \E r \in Runs : Starts(r)
    \/ \E r \in Runs, type \in {"completed", "failed"} : TurnEnds(r, type)
    \/ \E q \in Asking, policy \in Policies, shape \in Shapes : q \in Runs /\ Asks(q, policy, shape)
    \/ \E r \in Runs, i \in Pulls : AsksForPull(r, i)
    \/ \E q \in Asking : TimesOut(q) \/ CardAppears(q) \/ ModalOpens(q)
    \/ \E q \in Asking, p \in Web, to \in Web : Assigns(p, q, to)
    \/ SomebodyAnswers
    \/ \E i \in Pulls : PullTimesOut(i)
    \/ \E u \in updates : CardIsUpdated(u)
    \/ \E c \in calls : GitHubAnswers(c)

LEMMA EveryStep ==
    ASSUME Next
    PROVE  StepCases
<1>1. Asking \subseteq Runs /\ Pulling \subseteq Runs
  BY QuestionAssumption
<1> QED
  BY <1>1 DEF Next, Delivers, TurnsEnd, StepCases, SomebodyAnswers

LEMMA StepTyped ==
    ASSUME TypeOK, IsFiniteSet({q \in Asking : IsOpen(q)}), StepCases
    PROVE  TypeOK'
BY RunSteps, SocketSteps, SandboxSteps, SandboxReceivesTyped, ObjectReceivesTyped, AnswersTyped,
   OtherSteps DEF StepCases

-----------------------------------------------------------------------------
(* The socket *)

Quiet ==
    /\ UNCHANGED <<toObject, outbox, wire, live, open, closed>>
    /\ closed => active' = 0 /\ work' = <<>> /\ \A q \in Asking : ~Waits(q)'
    /\ ~wire => toSandbox' = toSandbox /\ \A c \in calls' : ~c.here
    /\ faults' = 0 => faults = 0

LEMMA QuietSteps ==
    ASSUME SocketInv, ClosedInv, Quiet
    PROVE  SocketInv' /\ ClosedInv'
<1>1. SocketInv'
  BY DEF SocketInv, Quiet
<1>2. ClosedInv'
  BY DEF ClosedInv, Quiet
<1> QED
  BY <1>1, <1>2

LEMMA OnceEmpty == Once(<<>>)
BY DEF Once

LEMMA BroughtBack ==
    ASSUME TypeOK, SocketInv, ClosedInv, Breaks \/ SocketRecovers \/ SessionEnds
    PROVE  SocketInv' /\ ClosedInv'
<1>0. faults \in Nat /\ calls \in SUBSET CallRows /\ active \in Runs \cup {0}
  BY DEF TypeOK, PullTypeOK, RunTypeOK
<1>1. CASE Breaks
  <2>1. /\ wire /\ wire' = FALSE /\ toObject' = <<>> /\ toSandbox' = <<>> /\ calls' = CutOff
        /\ UNCHANGED <<outbox, live, open, closed>> /\ faults' = faults + 1
    BY <1>1 DEF Breaks, Fault, runVars
  <2>2. \A c \in calls' : ~c.here
    BY <1>0, <2>1, CutOffCalls
  <2>3. faults' # 0
    BY <1>0, <2>1
  <2>4. SocketInv'
    BY <2>1, <2>2, <2>3, OnceEmpty DEF SocketInv
  <2>5. ~closed'
    BY <2>1 DEF ClosedInv
  <2> QED
    BY <2>4, <2>5 DEF ClosedInv
<1>2. CASE ObjectNotices \/ SandboxNotices
  <2>1. /\ ~wire /\ UNCHANGED <<runVars, sandboxVars, calls, toObject, toSandbox, outbox, wire, faults>>
        /\ (open' = open \/ open' = FALSE) /\ (live' = live \/ live' = FALSE)
    BY <1>2 DEF ObjectNotices, SandboxNotices, pullVars
  <2>2. SocketInv'
    BY <2>1 DEF SocketInv, runVars
  <2>3. ClosedInv'
    BY <2>1, <1>2 DEF ClosedInv, runVars, sandboxVars, Waits, ObjectNotices, SandboxNotices
  <2> QED
    BY <2>2, <2>3
<1>3. CASE Reconnects
  <2>1. SocketInv'
    BY <1>3, OnceEmpty DEF SocketInv, Reconnects
  <2>2. ~closed'
    BY <1>3 DEF Reconnects, runVars
  <2> QED
    BY <2>1, <2>2 DEF ClosedInv
<1>4. CASE SessionEnds
  <2>1. \A c \in calls' : ~c.here
    BY <1>0, <1>4, CutOffCalls DEF SessionEnds
  <2>2. SocketInv'
    BY <1>4, <2>1, OnceEmpty DEF SocketInv, SessionEnds
  <2>3. \A q \in Asking : ~Waits(q)'
    <3>1. \A q \in Asking : asks'[q] = IF asks[q].state = "waiting" THEN [asks[q] EXCEPT !.state = "killed"] ELSE asks[q]
      BY <1>4 DEF SessionEnds
    <3>2. \A q \in Asking : asks[q] \in AskRows
      BY DEF TypeOK, SandboxTypeOK
    <3>3. \A q \in Asking : asks'[q].state # "waiting"
      BY <3>1, <3>2 DEF AskRows
    <3> QED
      BY <3>3 DEF Waits
  <2>4. ClosedInv'
    BY <1>4, <2>3 DEF ClosedInv, SessionEnds
  <2> QED
    BY <2>2, <2>4
<1> QED
  BY <1>1, <1>2, <1>3, <1>4 DEF SocketRecovers

\* A turn says something new.
Speaks ==
    /\ work # <<>>
    /\ UNCHANGED <<closed, wire, live, open, calls, toSandbox, faults>>
    /\ \E m \in Up :
          /\ Reports(m)
          /\ m.type \in {"ask", "pull"} => \A n \in Sent : n.type = m.type => n.id # m.id
LEMMA SandboxReports ==
    ASSUME TypeOK, SocketInv, ClosedInv, QuestionsInv, PullsInv,
           \/ \E r \in Runs, type \in {"completed", "failed"} : TurnEnds(r, type)
           \/ \E q \in Asking, policy \in Policies, shape \in Shapes : q \in Runs /\ Asks(q, policy, shape)
           \/ \E r \in Runs, i \in Pulls : AsksForPull(r, i)
    PROVE  SocketInv' /\ ClosedInv'
<1>0. /\ toObject \in Seq(Up) /\ outbox \in Seq(Up)
      /\ \A r \in Runs : AgentOf(r) \in Runs
  BY DEF TypeOK, SocketTypeOK, SandboxTypeOK, AgentOf
<1>1. Speaks
  <2>1. ASSUME NEW r \in Runs, NEW type \in {"completed", "failed"}, TurnEnds(r, type)
        PROVE  Speaks
    <3> DEFINE m == [type |-> type, run |-> r]
    <3>1. m \in Up /\ m.type \notin {"ask", "pull"} /\ Reports(m)
      BY <2>1, Messages DEF TurnEnds
    <3>2. work # <<>> /\ UNCHANGED <<closed, wire, live, open, calls, toSandbox, faults>>
      BY <2>1 DEF TurnEnds, Working, runVars, socketVars, pullVars
    <3> HIDE DEF m
    <3> QED
      BY <3>1, <3>2 DEF Speaks
  <2>2. ASSUME NEW q \in Asking, q \in Runs, NEW policy \in Policies, NEW shape \in Shapes, Asks(q, policy, shape)
        PROVE  Speaks
    <3> DEFINE m == [type |-> "ask", id |-> q, run |-> AgentOf(q), policy |-> policy, shape |-> shape]
    <3>1. m \in Up /\ m.type = "ask" /\ m.id = q /\ Reports(m)
      BY <1>0, <2>2, Messages DEF Asks
    <3>2. work # <<>> /\ UNCHANGED <<closed, wire, live, open, calls, toSandbox, faults>>
      BY <2>2 DEF Asks, Working, runVars, socketVars, pullVars
    <3>3. ~AskSent(q)
      BY <2>2 DEF Asks, QuestionsInv, QuestionOK
    <3> HIDE DEF m
    <3>4. \A n \in Sent : n.type = m.type => n.id # m.id
      BY <3>1, <3>3 DEF AskSent
    <3> QED
      BY <3>1, <3>2, <3>4 DEF Speaks
  <2>3. ASSUME NEW r \in Runs, NEW i \in Pulls, AsksForPull(r, i)
        PROVE  Speaks
    <3> DEFINE m == [type |-> "pull", id |-> i, run |-> r]
    <3>1. m \in Up /\ m.type = "pull" /\ m.id = i /\ Reports(m)
      BY <2>3, Messages DEF AsksForPull
    <3>2. work # <<>> /\ UNCHANGED <<closed, wire, live, open, calls, toSandbox, faults>>
      BY <2>3 DEF AsksForPull, Working, runVars, socketVars
    <3>3. ~PullSent(i)
      BY <2>3 DEF AsksForPull, PullsInv, PullOK
    <3> HIDE DEF m
    <3>4. \A n \in Sent : n.type = m.type => n.id # m.id
      BY <3>1, <3>3 DEF PullSent
    <3> QED
      BY <3>1, <3>2, <3>4 DEF Speaks
  <2> QED
    BY <2>1, <2>2, <2>3
<1>2. /\ Once(toObject') /\ Once(outbox') /\ (open => outbox' = outbox) /\ (~wire => toObject' = toObject)
  BY <1>0, <1>1, SentUp, SentUpOnce DEF SocketInv, Speaks
<1>3. ~closed
  BY <1>1 DEF ClosedInv, Speaks
<1>4. SocketInv'
  BY <1>1, <1>2 DEF SocketInv, Speaks
<1> QED
  BY <1>1, <1>3, <1>4 DEF ClosedInv, Speaks

LEMMA SocketKept ==
    ASSUME Inv, StepCases
    PROVE  SocketInv' /\ ClosedInv'
<1>0. TypeOK /\ SocketInv /\ ClosedInv /\ QuestionsInv /\ PullsInv
  BY DEF Inv
<1>1. CASE Breaks \/ SocketRecovers \/ SessionEnds
  BY <1>0, <1>1, BroughtBack
<1>2. CASE \/ \E r \in Runs, type \in {"completed", "failed"} : TurnEnds(r, type)
           \/ \E q \in Asking, policy \in Policies, shape \in Shapes : q \in Runs /\ Asks(q, policy, shape)
           \/ \E r \in Runs, i \in Pulls : AsksForPull(r, i)
  BY <1>0, <1>2, SandboxReports
<1>3. CASE ObjectReceives
  <2> DEFINE m == Head(toObject)
  <2>1. TakesNext /\ UNCHANGED Before
        /\ (HearsAsk(m) \/ HearsPull(m) \/ HearsComplete(m) \/ HearsFailed(m) \/ HearsOld(m))
    BY <1>3, ObjectHears
  <2>2. wire /\ ~closed
    BY <1>0, <2>1 DEF TakesNext, SocketInv, ClosedInv
  <2>3. Once(toObject')
    <3>1. toObject \in Seq(Up) /\ Once(toObject)
      BY <1>0 DEF TypeOK, SocketTypeOK, SocketInv
    <3> QED
      BY <2>1, <3>1, OnceTail DEF TakesNext
  <2>4. closed' = closed
    BY <2>1 DEF HearsAsk, HearsPull, HearsComplete, HearsFailed, HearsOld, runVars
  <2>5. SocketInv'
    BY <1>0, <2>1, <2>2, <2>3, <2>4 DEF SocketInv, Before, socketVars
  <2> QED
    BY <2>2, <2>4, <2>5 DEF ClosedInv
<1>4. CASE SandboxReceives
  <2>1. wire /\ ~closed
    BY <1>0, <1>4 DEF SandboxReceives, SocketInv, ClosedInv
  <2>2. Quiet
    BY <1>4, <2>1 DEF SandboxReceives, Quiet, runVars, socketVars
  <2> QED
    BY <1>0, <2>2, QuietSteps
<1>5. CASE Aborts \/ \E r \in Runs : Starts(r)
  <2>1. ~closed
    BY <1>0, <1>5 DEF Aborts, Starts, ClosedInv
  <2>2. /\ UNCHANGED <<toObject, outbox, wire, live, open, closed, calls, faults>>
        /\ ~wire => toSandbox' = toSandbox
    BY <1>5 DEF Aborts, Starts, Sends, pullVars, socketVars
  <2>3. Quiet
    BY <1>0, <2>1, <2>2 DEF Quiet, SocketInv
  <2> QED
    BY <1>0, <2>3, QuietSteps
<1>6. CASE \/ \E q \in Asking : TimesOut(q) \/ CardAppears(q) \/ ModalOpens(q)
           \/ \E q \in Asking, p \in Web, to \in Web : Assigns(p, q, to)
           \/ \E i \in Pulls : PullTimesOut(i)
           \/ \E u \in updates : CardIsUpdated(u)
  <2>1. /\ UNCHANGED <<toObject, toSandbox, outbox, wire, live, open, closed, active, work, calls>>
        /\ (faults' = faults \/ faults' = faults + 1)
    BY <1>6 DEF TimesOut, CardAppears, ModalOpens, Assigns, PullTimesOut, CardIsUpdated, Fault,
                runVars, sandboxVars, pullVars, socketVars
  <2>2. \A q \in Asking : asks'[q] = asks[q] \/ asks'[q].state = "timedOut"
    <3>1. asks' = asks \/ \E q \in Asking : asks' = [asks EXCEPT ![q] = [state |-> "timedOut", answer |-> NoAnswer]]
      BY <1>6 DEF TimesOut, CardAppears, ModalOpens, Assigns, PullTimesOut, CardIsUpdated, Ends, sandboxVars
    <3>2. DOMAIN asks = Asking
      BY <1>0 DEF TypeOK, SandboxTypeOK
    <3> QED
      BY <3>1, <3>2
  <2>3. faults \in Nat
    BY <1>0 DEF TypeOK
  <2>4. faults' = 0 => faults = 0
    BY <2>1, <2>3
  <2>5. Quiet
    BY <1>0, <2>1, <2>2, <2>4 DEF Quiet, SocketInv, ClosedInv, Waits
  <2> QED
    BY <1>0, <2>5, QuietSteps
<1>7. CASE SomebodyAnswers
  <2>1. /\ UNCHANGED <<toObject, outbox, wire, live, open, closed, active, work, asks, calls>>
        /\ (faults' = faults \/ faults' = faults + 1)
        /\ (toSandbox' = toSandbox \/ \E p \in People, q \in Asking, chosen \in Selections : Accepts(p, q, chosen))
    BY <1>7, AnswerSteps DEF runVars, sandboxVars, pullVars, socketVars
  <2>2. ~wire => toSandbox' = toSandbox
    BY <2>1 DEF Accepts, Sends
  <2>3. faults \in Nat
    BY <1>0 DEF TypeOK
  <2>4. faults' = 0 => faults = 0
    BY <2>1, <2>3
  <2>5. Quiet
    BY <1>0, <2>1, <2>2, <2>4 DEF Quiet, SocketInv, ClosedInv, Waits
  <2> QED
    BY <1>0, <2>5, QuietSteps
<1>8. ASSUME NEW c \in calls, GitHubAnswers(c)
      PROVE  SocketInv' /\ ClosedInv'
  <2>1. UNCHANGED <<toObject, outbox, wire, live, open, closed, active, work, asks>>
    BY <1>8 DEF GitHubAnswers, runVars, sandboxVars, socketVars
  <2>2. Replies(c, TRUE) \/ Replies(c, FALSE)
        \/ (calls' = (calls \ {c}) \cup {[c EXCEPT !.attempt = @ + 1]} /\ UNCHANGED toSandbox)
    BY <1>8 DEF GitHubAnswers, TriesAgain
  <2>3. c \in CallRows /\ [c EXCEPT !.attempt = @ + 1].here = c.here
    BY <1>0 DEF TypeOK, PullTypeOK, CallRows
  <2>4. ~wire => toSandbox' = toSandbox /\ \A d \in calls' : ~d.here
    BY <1>0, <2>2, <2>3 DEF SocketInv, Replies
  <2>5. faults' = faults \/ faults' = faults + 1
    BY <1>8 DEF GitHubAnswers, Fault
  <2>6. faults' = 0 => faults = 0
    <3>1. faults \in Nat
      BY <1>0 DEF TypeOK
    <3> QED
      BY <2>5, <3>1
  <2>7. Quiet
    BY <1>0, <2>1, <2>4, <2>6 DEF Quiet, ClosedInv, Waits
  <2> QED
    BY <1>0, <2>7, QuietSteps
<1> QED
  BY <1>1, <1>2, <1>3, <1>4, <1>5, <1>6, <1>7, <1>8 DEF StepCases

-----------------------------------------------------------------------------
(* What a step does to a question *)

\* Its call.
AsksMove(q) ==
    \/ asks'[q] = asks[q]
    \/ asks[q].state = "unasked" /\ asks'[q].state = "waiting" /\ UNCHANGED rows /\ work # <<>>
    \/ Waits(q) /\ asks'[q].state \in {"timedOut", "killed"}
    \/ Waits(q) /\ asks'[q].state = "told" /\ rows[q].status = "answered" /\ asks'[q].answer = rows[q].answer
    \/ Waits(q) /\ asks'[q].state = "cancelled" /\ rows[q].status = "cancelled"

LEMMA AsksMoves ==
    ASSUME TypeOK, QuestionsInv, StepCases
    PROVE  \A q \in Asking : AsksMove(q)
<1>0. asks \in [Asking -> AskRows] /\ toSandbox \in Seq(Down)
  BY DEF TypeOK, SandboxTypeOK, SocketTypeOK
<1>1. CASE asks' = asks
  BY <1>1 DEF AsksMove
<1>2. CASE SandboxReceives
  <2> DEFINE m == Head(toSandbox)
  <2>1. /\ m \in In(toSandbox) /\ m \in Down
        /\ asks' = asks \/ (m.type \in {"answer", "cancel"} /\ Resolved(m))
    BY <1>0, <1>2, InTail DEF SandboxReceives
  <2> HIDE DEF m
  <2>2. CASE m.type = "answer" /\ Resolved(m)
    <3>1. m.id \in Asking /\ rows[m.id].status = "answered" /\ m.answer = rows[m.id].answer
      BY <2>1, <2>2, DownFields DEF QuestionsInv, ReplyOK
    <3>2. asks' = asks \/ (Waits(m.id) /\ asks' = [asks EXCEPT ![m.id] = [state |-> "told", answer |-> m.answer]])
      BY <2>2 DEF Resolved, Ends
    <3> QED
      BY <1>0, <3>1, <3>2 DEF AsksMove
  <2>3. CASE m.type = "cancel" /\ Resolved(m)
    <3>1. m.id \in Asking /\ rows[m.id].status = "cancelled"
      BY <2>1, <2>3, DownFields DEF QuestionsInv, ReplyOK
    <3>2. asks' = asks \/ (Waits(m.id) /\ asks' = [asks EXCEPT ![m.id] = [state |-> "cancelled", answer |-> NoAnswer]])
      BY <2>3 DEF Resolved, Ends
    <3> QED
      BY <1>0, <3>1, <3>2 DEF AsksMove
  <2> QED
    BY <1>1, <2>1, <2>2, <2>3
<1>3. CASE SessionEnds
  <2>1. \A q \in Asking : asks'[q] = IF asks[q].state = "waiting" THEN [asks[q] EXCEPT !.state = "killed"] ELSE asks[q]
    BY <1>3 DEF SessionEnds
  <2>2. \A q \in Asking : asks[q] \in AskRows
    BY <1>0
  <2> QED
    BY <2>1, <2>2 DEF AsksMove, AskRows, Waits
<1>4. ASSUME NEW r \in Asking, NEW policy \in Policies, NEW shape \in Shapes, Asks(r, policy, shape)
      PROVE  \A q \in Asking : AsksMove(q)
  <2>1. asks[r].state = "unasked" /\ rows' = rows /\ work # <<>>
        /\ asks' = [asks EXCEPT ![r] = [state |-> "waiting", answer |-> NoAnswer]]
    BY <1>4 DEF Asks, Ends, Working
  <2> QED
    BY <1>0, <2>1 DEF AsksMove
<1>5. ASSUME NEW r \in Asking, TimesOut(r)
      PROVE  \A q \in Asking : AsksMove(q)
  <2>1. Waits(r) /\ asks' = [asks EXCEPT ![r] = [state |-> "timedOut", answer |-> NoAnswer]]
    BY <1>5 DEF TimesOut, Ends
  <2> QED
    BY <1>0, <2>1 DEF AsksMove
<1>6. \/ asks' = asks
      \/ SandboxReceives \/ SessionEnds
      \/ \E r \in Asking, policy \in Policies, shape \in Shapes : Asks(r, policy, shape)
      \/ \E r \in Asking : TimesOut(r)
  <2>1. SomebodyAnswers => asks' = asks
    BY AnswerSteps DEF sandboxVars
  <2>2. ObjectReceives => asks' = asks
    BY DEF ObjectReceives, sandboxVars
  <2>3. Breaks \/ SocketRecovers => asks' = asks
    BY DEF Breaks, SocketRecovers, ObjectNotices, SandboxNotices, Reconnects, sandboxVars
  <2>4. Aborts \/ (\E r \in Runs : Starts(r)) => asks' = asks
    BY DEF Aborts, Starts, sandboxVars
  <2>5. (\E r \in Runs, type \in {"completed", "failed"} : TurnEnds(r, type)) => asks' = asks
    BY DEF TurnEnds
  <2>6. (\E r \in Runs, i \in Pulls : AsksForPull(r, i)) => asks' = asks
    BY DEF AsksForPull
  <2>7. (\E q \in Asking : CardAppears(q) \/ ModalOpens(q)) => asks' = asks
    BY DEF CardAppears, ModalOpens, sandboxVars
  <2>8. (\E q \in Asking, p \in Web, to \in Web : Assigns(p, q, to)) => asks' = asks
    BY DEF Assigns, sandboxVars
  <2>9. (\E i \in Pulls : PullTimesOut(i)) \/ (\E u \in updates : CardIsUpdated(u))
        \/ (\E c \in calls : GitHubAnswers(c)) => asks' = asks
    BY DEF PullTimesOut, CardIsUpdated, GitHubAnswers, sandboxVars
  <2> QED
    BY <2>1, <2>2, <2>3, <2>4, <2>5, <2>6, <2>7, <2>8, <2>9 DEF StepCases
<1> QED
  BY <1>1, <1>2, <1>3, <1>4, <1>5, <1>6

\* What is on its way to the object: only a turn that runs adds to it.
SentMove(m) ==
    \/ m \in Sent
    \/ /\ m.type = "ask" /\ m.id \in Asking
       /\ asks[m.id].state = "unasked" /\ asks'[m.id].state = "waiting"
       /\ UNCHANGED <<rows, runVars, work>>
    \/ /\ m.type = "pull" /\ m.id \in Pulls /\ pulls[m.id] = "unasked"
       /\ UNCHANGED <<calls, opened, toSandbox>> /\ pulls' = [pulls EXCEPT ![m.id] = "waiting"]
    \/ /\ IsOutcome(m) /\ m.run \in Runs /\ Working(m.run) /\ work' = Tail(work)
       /\ UNCHANGED <<runVars, asks, toSandbox>>

LEMMA SentMoves ==
    ASSUME TypeOK, StepCases
    PROVE  \A m \in Sent' : SentMove(m)
<1>0. /\ toObject \in Seq(Up) /\ outbox \in Seq(Up) /\ asks \in [Asking -> AskRows]
      /\ \A r \in Runs : AgentOf(r) \in Runs
  BY DEF TypeOK, SocketTypeOK, SandboxTypeOK, AgentOf
<1>1. CASE Sent' \subseteq Sent
  BY <1>1 DEF SentMove
<1>2. ASSUME NEW r \in Runs, NEW type \in {"completed", "failed"}, TurnEnds(r, type)
      PROVE  \A m \in Sent' : SentMove(m)
  <2> DEFINE n == [type |-> type, run |-> r]
  <2>1. /\ n \in Up /\ n.run = r /\ n.type = type /\ Reports(n)
        /\ Working(r) /\ work' = Tail(work) /\ UNCHANGED <<runVars, asks, toSandbox>>
    BY <1>2, Messages DEF TurnEnds
  <2> HIDE DEF n
  <2>2. \A m \in Sent' : m \in Sent \/ m = n
    BY <1>0, <2>1, SentUp
  <2>3. SentMove(n)
    BY <2>1 DEF SentMove, IsOutcome
  <2>4. \A m \in Sent : SentMove(m)
    BY DEF SentMove
  <2> QED
    BY <2>2, <2>3, <2>4
<1>3. ASSUME NEW q \in Asking, q \in Runs, NEW policy \in Policies, NEW shape \in Shapes, Asks(q, policy, shape)
      PROVE  \A m \in Sent' : SentMove(m)
  <2> DEFINE n == [type |-> "ask", id |-> q, run |-> AgentOf(q), policy |-> policy, shape |-> shape]
  <2>1. /\ n \in Up /\ n.type = "ask" /\ n.id = q /\ Reports(n)
        /\ asks[q].state = "unasked" /\ UNCHANGED <<rows, runVars, work>>
        /\ asks' = [asks EXCEPT ![q] = [state |-> "waiting", answer |-> NoAnswer]]
    BY <1>0, <1>3, Messages DEF Asks, Ends
  <2> HIDE DEF n
  <2>2. \A m \in Sent' : m \in Sent \/ m = n
    BY <1>0, <2>1, SentUp
  <2>3. asks'[q].state = "waiting"
    BY <1>0, <2>1
  <2>4. SentMove(n)
    BY <2>1, <2>3 DEF SentMove
  <2>5. \A m \in Sent : SentMove(m)
    BY DEF SentMove
  <2> QED
    BY <2>2, <2>4, <2>5
<1>4. ASSUME NEW r \in Runs, NEW i \in Pulls, AsksForPull(r, i)
      PROVE  \A m \in Sent' : SentMove(m)
  <2> DEFINE n == [type |-> "pull", id |-> i, run |-> r]
  <2>1. /\ n \in Up /\ n.type = "pull" /\ n.id = i /\ Reports(n)
        /\ pulls[i] = "unasked" /\ UNCHANGED <<calls, opened, toSandbox>>
        /\ pulls' = [pulls EXCEPT ![i] = "waiting"]
    BY <1>4, Messages DEF AsksForPull
  <2> HIDE DEF n
  <2>2. \A m \in Sent' : m \in Sent \/ m = n
    BY <1>0, <2>1, SentUp
  <2>3. SentMove(n)
    BY <2>1 DEF SentMove
  <2>4. \A m \in Sent : SentMove(m)
    BY DEF SentMove
  <2> QED
    BY <2>2, <2>3, <2>4
<1>5. CASE Breaks \/ SocketRecovers \/ SessionEnds
  <2>1. /\ toObject' \in {toObject, outbox, <<>>} /\ outbox' \in {outbox, <<>>}
    BY <1>5 DEF Breaks, SocketRecovers, ObjectNotices, SandboxNotices, Reconnects, SessionEnds
  <2>2. Sent' \subseteq Sent
    BY <2>1, InEmpty DEF Sent
  <2> QED
    BY <1>1, <2>2
<1>6. CASE ObjectReceives
  <2>1. toObject # <<>> /\ toObject' = Tail(toObject) /\ outbox' = outbox
    BY <1>6 DEF ObjectReceives
  <2>2. In(toObject') \subseteq In(toObject)
    BY <1>0, <2>1, InTail
  <2>3. Sent' \subseteq Sent
    BY <2>1, <2>2 DEF Sent
  <2> QED
    BY <1>1, <2>3
<1>7. UNCHANGED <<toObject, outbox>> => \A m \in Sent' : SentMove(m)
  BY <1>1 DEF Sent
<1>8. SomebodyAnswers => UNCHANGED <<toObject, outbox>>
  BY AnswerSteps
<1>9. SandboxReceives \/ Aborts \/ (\E r \in Runs : Starts(r)) => UNCHANGED <<toObject, outbox>>
  BY DEF SandboxReceives, Aborts, Starts
<1>10. \/ \E q \in Asking : TimesOut(q) \/ CardAppears(q) \/ ModalOpens(q)
       \/ \E q \in Asking, p \in Web, to \in Web : Assigns(p, q, to)
       => UNCHANGED <<toObject, outbox>>
  BY DEF TimesOut, CardAppears, ModalOpens, Assigns
<1>11. \/ \E i \in Pulls : PullTimesOut(i)
       \/ \E u \in updates : CardIsUpdated(u)
       \/ \E c \in calls : GitHubAnswers(c)
       => UNCHANGED <<toObject, outbox>>
  BY DEF PullTimesOut, CardIsUpdated, GitHubAnswers
<1> QED
  BY <1>2, <1>3, <1>4, <1>5, <1>6, <1>7, <1>8, <1>9, <1>10, <1>11 DEF StepCases

\* Its row.
Arrives(q) ==
    /\ q = Head(toObject).id /\ rows[q].status = "none" /\ AskSent(q) /\ ~AskSent(q)' /\ IsOpen(q)'
    /\ rows'[q].run \in over => rows'[q].late
    /\ UNCHANGED over
IsReassigned(q) ==
    /\ IsOpen(q) /\ IsOpen(q)' /\ rows'[q].run = rows[q].run /\ rows'[q].late = rows[q].late
    /\ UNCHANGED over
Told(q) == (live /\ wire => OnItsWay(q)') \/ ~Waits(q)'
IsDecided(q) == IsOpen(q) /\ Decided(q)' /\ RightfulAnswer(q)' /\ Told(q)
RowsMove(q) == rows'[q] = rows[q] \/ Arrives(q) \/ IsReassigned(q) \/ IsDecided(q)

LEMMA RunsAsk ==
    ASSUME TypeOK, QuestionsInv, NEW r, rows' = Cancelled(r),
           Sends(Cancellations(r)) \/ \A q \in Asking : ~Waits(q)'
    PROVE  \A q \in Asking : RowsMove(q)
<1> SUFFICES ASSUME NEW q \in Asking PROVE RowsMove(q)
  OBVIOUS
<1>0. rows \in [Asking -> Rows] /\ toSandbox \in Seq(Down) /\ IsFiniteSet({p \in Asking : IsOpen(p)})
  BY DEF TypeOK, SocketTypeOK, QuestionsInv
<1>1. CASE q \notin OpenOf(r)
  BY <1>0, <1>1, CancelledRows DEF RowsMove
<1>2. CASE q \in OpenOf(r)
  <2>1. IsOpen(q) /\ rows'[q] = [rows[q] EXCEPT !.status = "cancelled"]
    BY <1>0, <1>2, CancelledRows DEF IsOpen
  <2>2. rows'[q].status = "cancelled"
    BY <1>0, <2>1 DEF Rows
  <2>3. Told(q)
    <3>1. CASE \A p \in Asking : ~Waits(p)'
      BY <3>1 DEF Told
    <3>2. CASE Sends(Cancellations(r))
      <4> DEFINE m == [type |-> "cancel", id |-> q]
      <4>1. Cancellations(r) \in Seq(Down) /\ m \in In(Cancellations(r))
        BY <1>0, <1>2, CancellationsSent
      <4>2. live /\ wire => m \in In(toSandbox')
        BY <1>0, <3>2, <4>1, SentDown
      <4>3. m.type = Outcome(q)' /\ m.id = q
        BY <2>2 DEF Outcome
      <4> HIDE DEF m
      <4> QED
        BY <4>2, <4>3 DEF Told, OnItsWay
    <3> QED
      BY <3>1, <3>2
  <2> QED
    BY <2>1, <2>2, <2>3 DEF RowsMove, IsDecided, Decided, RightfulAnswer
<1> QED
  BY <1>1, <1>2

LEMMA RowsMoves ==
    ASSUME TypeOK, SocketInv, QuestionsInv, StepCases
    PROVE  \A q \in Asking : RowsMove(q)
<1>0. rows \in [Asking -> Rows] /\ toSandbox \in Seq(Down) /\ toObject \in Seq(Up)
      /\ asks \in [Asking -> AskRows]
  BY DEF TypeOK, SocketTypeOK, SandboxTypeOK
<1>1. CASE rows' = rows
  BY <1>1 DEF RowsMove
<1>2. CASE ObjectReceives
  <2> DEFINE m == Head(toObject)
  <2>1. TakesNext /\ UNCHANGED Before
        /\ (HearsAsk(m) \/ HearsPull(m) \/ HearsComplete(m) \/ HearsFailed(m) \/ HearsOld(m))
    BY <1>2, ObjectHears
  <2>2. m \in Up /\ m \in Sent
    BY <1>0, <2>1, InTail DEF TakesNext, Sent
  <2>3. /\ Sent' = In(Tail(toObject))
        /\ m.type \in {"ask", "pull"} =>
              \A n \in In(Tail(toObject)) : n.type = m.type => n.id # m.id
    <3>1. toObject # <<>> /\ toObject' = Tail(toObject) /\ outbox' = <<>>
      BY <2>1 DEF TakesNext, Before, SocketInv
    <3>2. Once(toObject)
      BY DEF SocketInv
    <3> QED
      BY <1>0, <3>1, <3>2, OnceTail, InEmpty DEF Sent
  <2> HIDE DEF m
  <2>4. CASE HearsAsk(m)
    <3>1. PICK r \in Asking : m.type = "ask" /\ m.id = r /\ Raised(m) /\ over' = over
      BY <2>2, <2>4, UpFields DEF HearsAsk, runVars
    <3>2. rows[r].status = "none" /\ AskSent(r)
      BY <2>2, <3>1 DEF QuestionsInv, QuestionOK, AskSent
    <3>3. ~AskSent(r)'
      BY <2>3, <3>1 DEF AskSent
    <3>4. rows'[r].status = "open" /\ (rows'[r].run \in over => rows'[r].late)
      <4> DEFINE isLate == m.run \in over
      <4>1. rows'[r] = [run |-> m.run, status |-> "open", policy |-> m.policy, shape |-> m.shape, answer |-> NoAnswer,
                        assigned |-> IF m.policy = "assigned" THEN Member ELSE Nobody, late |-> isLate]
        BY <1>0, <3>1 DEF Raised
      <4>2. rows'[r].status = "open" /\ rows'[r].run = m.run
        BY <4>1
      <4>3. CASE m.run \in over
        <5>1. isLate = TRUE
          BY <4>3
        <5> HIDE DEF isLate
        <5>2. rows'[r].late = TRUE
          BY <4>1, <5>1
        <5> QED
          BY <4>2, <5>2
      <4> QED
        BY <4>2, <4>3
    <3>5. \A q \in Asking : q # r => rows'[q] = rows[q]
      BY <1>0, <3>1 DEF Raised
    <3>6. RowsMove(r)
      BY <3>1, <3>2, <3>3, <3>4 DEF RowsMove, Arrives, IsOpen, m
    <3> QED
      BY <3>5, <3>6 DEF RowsMove
  <2>5. CASE HearsFailed(m)
    BY <2>5, RunsAsk DEF HearsFailed
  <2>6. CASE HearsPull(m) \/ HearsComplete(m) \/ HearsOld(m)
    BY <1>1, <2>6 DEF HearsPull, HearsComplete, HearsOld
  <2> QED
    BY <2>1, <2>4, <2>5, <2>6
<1>3. CASE Aborts
  BY <1>3, RunsAsk DEF Aborts
<1>4. CASE SessionEnds
  <2>1. \A q \in Asking : asks'[q] = IF asks[q].state = "waiting" THEN [asks[q] EXCEPT !.state = "killed"] ELSE asks[q]
    BY <1>4 DEF SessionEnds
  <2>2. \A q \in Asking : ~Waits(q)'
    BY <1>0, <2>1 DEF Waits, AskRows
  <2>3. rows' = Cancelled(active)
    BY <1>4 DEF SessionEnds
  <2> QED
    BY <2>2, <2>3, RunsAsk
<1>5. ASSUME NEW r \in Asking, NEW p \in Web, NEW to \in Web, Assigns(p, r, to)
      PROVE  \A q \in Asking : RowsMove(q)
  <2>1. rows[r].status = "open" /\ over' = over
        /\ rows' = [rows EXCEPT ![r] = [rows[r] EXCEPT !.policy = "assigned", !.assigned = to]]
    BY <1>0, <1>5 DEF Assigns, Rows, runVars
  <2>2. rows'[r] = [rows[r] EXCEPT !.policy = "assigned", !.assigned = to]
    BY <1>0, <2>1
  <2>3. rows'[r].status = "open" /\ rows'[r].run = rows[r].run /\ rows'[r].late = rows[r].late
    BY <1>0, <2>1, <2>2 DEF Rows
  <2>4. RowsMove(r)
    BY <2>1, <2>3 DEF RowsMove, IsReassigned, IsOpen
  <2>5. \A q \in Asking : q # r => rows'[q] = rows[q]
    BY <1>0, <2>1
  <2> QED
    BY <2>4, <2>5 DEF RowsMove
<1>6. ASSUME NEW p \in People, NEW r \in Asking, NEW chosen \in Selections,
             Accepts(p, r, chosen), p \in Web => CanAnswer(p, rows[r])
      PROVE  \A q \in Asking : RowsMove(q)
  <2> DEFINE a == [by |-> p, chosen |-> chosen]
             m == [type |-> "answer", id |-> r, answer |-> a]
  <2>1. /\ a \in Answers /\ IsOpen(r) /\ live /\ Valid(chosen, rows[r].shape)
        /\ rows' = [rows EXCEPT ![r] = Answered(r, a)]
        /\ Sends(<<m>>) /\ <<m>> \in Seq(Down)
    BY <1>6, AnswerAccepted
  <2>2. \A q \in Asking : q # r => rows'[q] = rows[q]
    BY <1>0, <2>1
  <2>3. /\ rows'[r].status = "answered" /\ rows'[r].answer = a /\ rows'[r].shape = rows[r].shape
        /\ rows'[r].policy = rows[r].policy /\ rows'[r].assigned = rows[r].assigned
    BY <1>0, <2>1 DEF Answered, Rows
  <2>4. a.by = p /\ a.chosen = chosen /\ m.type = "answer" /\ m.id = r
    OBVIOUS
  <2> HIDE DEF a, m
  <2>5. RightfulAnswer(r)'
    BY <1>6, <2>1, <2>3, <2>4 DEF RightfulAnswer, CanAnswer
  <2>6. live /\ wire => m \in In(toSandbox')
    BY <1>0, <2>1, SentDown, InOne
  <2>7. m.type = Outcome(r)'
    BY <2>3, <2>4 DEF Outcome
  <2>8. Told(r)
    BY <2>4, <2>6, <2>7 DEF Told, OnItsWay
  <2>9. RowsMove(r)
    BY <2>1, <2>3, <2>5, <2>8 DEF RowsMove, IsDecided, Decided
  <2> QED
    BY <2>2, <2>9 DEF RowsMove
<1>7. SomebodyAnswers =>
        \/ rows' = rows
        \/ \E p \in People, r \in Asking, chosen \in Selections :
              Accepts(p, r, chosen) /\ (p \in Web => CanAnswer(p, rows[r]))
  BY AnswerSteps
<1>8. Breaks \/ SocketRecovers \/ SandboxReceives => rows' = rows
  BY DEF Breaks, SocketRecovers, ObjectNotices, SandboxNotices, Reconnects, SandboxReceives
<1>9. \/ \E r \in Runs : Starts(r)
      \/ \E r \in Runs, type \in {"completed", "failed"} : TurnEnds(r, type)
      \/ \E q \in Asking, policy \in Policies, shape \in Shapes : q \in Runs /\ Asks(q, policy, shape)
      \/ \E r \in Runs, i \in Pulls : AsksForPull(r, i)
      => rows' = rows
  BY DEF Starts, TurnEnds, Asks, AsksForPull
<1>10. \/ \E q \in Asking : TimesOut(q) \/ CardAppears(q) \/ ModalOpens(q)
       \/ \E i \in Pulls : PullTimesOut(i)
       \/ \E u \in updates : CardIsUpdated(u)
       \/ \E c \in calls : GitHubAnswers(c)
       => rows' = rows
  BY DEF TimesOut, CardAppears, ModalOpens, PullTimesOut, CardIsUpdated, GitHubAnswers
<1> QED
  BY <1>1, <1>2, <1>3, <1>4, <1>5, <1>6, <1>7, <1>8, <1>9, <1>10 DEF StepCases

\* What is on its way to the sandbox.
GitHubIsAsked == ObjectReceives /\ HearsPull(Head(toObject))
ReplyMove(m) ==
    \/ m \in In(toSandbox)
    \/ m.type = "turn" /\ active = 0 /\ m.run = active' /\ active' \in Runs \ over
    \/ m.type = "answer" /\ rows'[m.id].status = "answered" /\ m.answer = rows'[m.id].answer
    \/ m.type = "cancel" /\ rows'[m.id].status = "cancelled"
    \/ m.type = "pulled" /\ (GitHubIsAsked \/ \E c \in calls : GitHubAnswers(c))

LEMMA CancelsMove ==
    ASSUME TypeOK, QuestionsInv, NEW r, rows' = Cancelled(r), Sends(Cancellations(r))
    PROVE  \A m \in In(toSandbox') : ReplyMove(m)
<1>1. rows \in [Asking -> Rows] /\ toSandbox \in Seq(Down) /\ IsFiniteSet({p \in Asking : IsOpen(p)})
  BY DEF TypeOK, SocketTypeOK, QuestionsInv
<1>2. Cancellations(r) \in Seq(Down)
      /\ \A m \in In(Cancellations(r)) : m.type = "cancel" /\ m.id \in OpenOf(r)
  BY <1>1, CancellationsSent
<1>3. In(toSandbox') \subseteq In(toSandbox) \cup In(Cancellations(r))
  BY <1>1, <1>2, SentDown
<1>4. ASSUME NEW q \in OpenOf(r)
      PROVE  q \in Asking /\ rows'[q].status = "cancelled"
  <2>1. q \in Asking
    BY DEF OpenOf
  <2>2. rows'[q] = [rows[q] EXCEPT !.status = "cancelled"] /\ rows[q] \in Rows
    BY <1>1, <2>1, CancelledRows
  <2> QED
    BY <2>1, <2>2 DEF Rows
<1> QED
  BY <1>2, <1>3, <1>4 DEF ReplyMove

LEMMA RepliesMove ==
    ASSUME TypeOK, SocketInv, QuestionsInv, StepCases
    PROVE  \A m \in In(toSandbox') : ReplyMove(m)
<1>0. rows \in [Asking -> Rows] /\ toSandbox \in Seq(Down) /\ toObject \in Seq(Up) /\ calls \in SUBSET CallRows
  BY DEF TypeOK, SocketTypeOK, PullTypeOK
<1>1. CASE In(toSandbox') \subseteq In(toSandbox)
  BY <1>1 DEF ReplyMove
<1>2. CASE ObjectReceives
  <2> DEFINE m == Head(toObject)
  <2>1. TakesNext /\ UNCHANGED Before
        /\ (HearsAsk(m) \/ HearsPull(m) \/ HearsComplete(m) \/ HearsFailed(m) \/ HearsOld(m))
    BY <1>2, ObjectHears
  <2>2. m \in Up
    BY <1>0, <2>1, InTail DEF TakesNext
  <2> HIDE DEF m
  <2>3. CASE HearsFailed(m)
    BY <2>3, CancelsMove DEF HearsFailed
  <2>4. CASE HearsPull(m)
    <3> DEFINE p == [type |-> "pulled", id |-> m.id, url |-> FALSE]
    <3>1. p \in Down /\ p.type = "pulled"
      BY <2>2, <2>4, UpFields, Messages DEF HearsPull
    <3>2. toSandbox' = toSandbox \/ Sends(<<p>>)
      BY <2>4 DEF HearsPull, PullAsked
    <3> HIDE DEF p
    <3>3. <<p>> \in Seq(Down)
      BY <3>1
    <3>4. In(toSandbox') \subseteq In(toSandbox) \cup {p}
      BY <1>0, <3>2, <3>3, SentDown, InOne
    <3>5. GitHubIsAsked
      BY <1>2, <2>4 DEF GitHubIsAsked, m
    <3> QED
      BY <3>1, <3>4, <3>5 DEF ReplyMove
  <2>5. CASE HearsAsk(m) \/ HearsComplete(m) \/ HearsOld(m)
    BY <1>1, <2>5 DEF HearsAsk, HearsComplete, HearsOld
  <2> QED
    BY <2>1, <2>3, <2>4, <2>5
<1>3. CASE Aborts
  BY <1>3, CancelsMove DEF Aborts
<1>4. ASSUME NEW r \in Runs, Starts(r)
      PROVE  \A m \in In(toSandbox') : ReplyMove(m)
  <2> DEFINE p == [type |-> "turn", run |-> r]
  <2>1. /\ p \in Down /\ p.type = "turn" /\ p.run = r /\ Sends(<<p>>)
        /\ active = 0 /\ active' = r /\ r \in Runs \ over
    BY <1>4, Messages DEF Starts
  <2> HIDE DEF p
  <2>2. <<p>> \in Seq(Down)
    BY <2>1
  <2>3. In(toSandbox') \subseteq In(toSandbox) \cup {p}
    BY <1>0, <2>1, <2>2, SentDown, InOne
  <2> QED
    BY <2>1, <2>3 DEF ReplyMove
<1>5. ASSUME NEW p \in People, NEW r \in Asking, NEW chosen \in Selections, Accepts(p, r, chosen)
      PROVE  \A m \in In(toSandbox') : ReplyMove(m)
  <2> DEFINE a == [by |-> p, chosen |-> chosen]
             n == [type |-> "answer", id |-> r, answer |-> a]
  <2>1. /\ a \in Answers
        /\ rows' = [rows EXCEPT ![r] = Answered(r, a)]
        /\ Sends(<<n>>) /\ <<n>> \in Seq(Down)
    BY <1>5, AnswerAccepted
  <2>2. rows'[r].status = "answered" /\ rows'[r].answer = a
    BY <1>0, <2>1 DEF Answered, Rows
  <2>3. n.type = "answer" /\ n.id = r /\ n.answer = a
    OBVIOUS
  <2> HIDE DEF a, n
  <2>4. In(toSandbox') \subseteq In(toSandbox) \cup {n}
    BY <1>0, <2>1, SentDown, InOne
  <2> QED
    BY <2>2, <2>3, <2>4 DEF ReplyMove
<1>6. ASSUME NEW c \in calls, GitHubAnswers(c)
      PROVE  \A m \in In(toSandbox') : ReplyMove(m)
  <2>1. PICK url \in BOOLEAN : toSandbox' = toSandbox
            \/ toSandbox' = Append(toSandbox, [type |-> "pulled", id |-> c.id, url |-> url])
    BY <1>6 DEF GitHubAnswers, TriesAgain, Replies
  <2> DEFINE p == [type |-> "pulled", id |-> c.id, url |-> url]
  <2>2. p \in Down /\ p.type = "pulled"
    BY <1>0, Messages DEF CallRows
  <2> HIDE DEF p
  <2>3. In(toSandbox') \subseteq In(toSandbox) \cup {p}
    BY ZenonT(30), <1>0, <2>1, <2>2, InAppend DEF p
  <2> QED
    BY <1>6, <2>2, <2>3 DEF ReplyMove
<1>7. CASE SandboxReceives
  <2>1. In(toSandbox') \subseteq In(toSandbox)
    BY <1>0, <1>7, InTail DEF SandboxReceives
  <2> QED
    BY <1>1, <2>1
<1>8. CASE Breaks \/ SessionEnds
  <2>1. toSandbox' = <<>>
    BY <1>8 DEF Breaks, SessionEnds
  <2> QED
    BY <1>1, <2>1, InEmpty
<1>9. SomebodyAnswers =>
        \/ toSandbox' = toSandbox
        \/ \E p \in People, r \in Asking, chosen \in Selections : Accepts(p, r, chosen)
  BY AnswerSteps
<1>10. SocketRecovers => toSandbox' = toSandbox
  BY DEF SocketRecovers, ObjectNotices, SandboxNotices, Reconnects
<1>11. \/ \E r \in Runs, type \in {"completed", "failed"} : TurnEnds(r, type)
       \/ \E q \in Asking, policy \in Policies, shape \in Shapes : q \in Runs /\ Asks(q, policy, shape)
       \/ \E r \in Runs, i \in Pulls : AsksForPull(r, i)
       => toSandbox' = toSandbox
  BY DEF TurnEnds, Asks, AsksForPull
<1>12. \/ \E q \in Asking : TimesOut(q) \/ CardAppears(q) \/ ModalOpens(q)
       \/ \E q \in Asking, p \in Web, to \in Web : Assigns(p, q, to)
       \/ \E i \in Pulls : PullTimesOut(i)
       \/ \E u \in updates : CardIsUpdated(u)
       => toSandbox' = toSandbox
  BY DEF TimesOut, CardAppears, ModalOpens, Assigns, PullTimesOut, CardIsUpdated
<1>13. toSandbox' = toSandbox => \A m \in In(toSandbox') : ReplyMove(m)
  BY <1>1
<1> QED
  BY <1>2, <1>3, <1>4, <1>5, <1>6, <1>7, <1>8, <1>9, <1>10, <1>11, <1>12, <1>13 DEF StepCases

\* Its message in Slack.
CardMove(q) ==
    cards'[q].shows = "answer" =>
        \/ cards[q].shows = "answer" /\ cards'[q].answer = cards[q].answer
        \/ \E u \in updates : u.question = q /\ cards'[q].answer = u.answer
UpdateMove(u) ==
    u \in updates \/ (u.question \in Asking /\ rows'[u.question].status = "answered"
                      /\ u.answer = rows'[u.question].answer)

LEMMA SlackMoves ==
    ASSUME TypeOK, StepCases
    PROVE  /\ \A q \in Asking : CardMove(q)
           /\ \A u \in updates' : UpdateMove(u)
<1>0. /\ cards \in [Asking -> [shows : {"nothing", "controls", "answer"}, answer : Answers]]
      /\ updates \in SUBSET [question : Asking, answer : Answers] /\ rows \in [Asking -> Rows]
  BY DEF TypeOK, SlackTypeOK
<1>1. UNCHANGED cards => \A q \in Asking : CardMove(q)
  BY DEF CardMove
<1>2. updates' \in SUBSET updates => \A u \in updates' : UpdateMove(u)
  BY DEF UpdateMove
<1>3. ASSUME NEW q \in Asking, CardAppears(q)
      PROVE  (\A p \in Asking : CardMove(p)) /\ \A u \in updates' : UpdateMove(u)
  <2>1. cards' = [cards EXCEPT ![q] = [cards[q] EXCEPT !.shows = "controls"]] /\ updates' = updates
    BY <1>3 DEF CardAppears
  <2>2. [cards[q] EXCEPT !.shows = "controls"].shows # "answer"
    BY <1>0
  <2>3. \A p \in Asking : cards'[p] = cards[p] \/ cards'[p].shows # "answer"
    BY <1>0, <2>1, <2>2
  <2> QED
    BY <1>2, <2>1, <2>3 DEF CardMove
<1>4. ASSUME NEW u \in updates, CardIsUpdated(u)
      PROVE  (\A p \in Asking : CardMove(p)) /\ \A v \in updates' : UpdateMove(v)
  <2>1. /\ updates' \in SUBSET updates /\ u.question \in Asking
        /\ \/ cards' = [cards EXCEPT ![u.question] = [shows |-> "answer", answer |-> u.answer]]
           \/ cards' = cards
    BY <1>0, <1>4 DEF CardIsUpdated
  <2>2. \A p \in Asking : cards'[p] = cards[p] \/ (p = u.question /\ cards'[p].answer = u.answer)
    BY <1>0, <2>1
  <2>3. \A p \in Asking : CardMove(p)
    BY <2>2 DEF CardMove
  <2> QED
    BY <1>2, <2>1, <2>3
<1>5. CASE SomebodyAnswers
  <2>1. UNCHANGED cards
    BY <1>5, AnswerSteps
  <2>2. ASSUME NEW q \in Asking, rows' = rows, rows[q].status = "answered",
               updates' \in SUBSET (updates \cup {[question |-> q, answer |-> rows[q].answer]})
        PROVE  \A u \in updates' : UpdateMove(u)
    BY <2>2 DEF UpdateMove
  <2>3. ASSUME NEW p \in People, NEW q \in Asking, NEW chosen \in Selections, Accepts(p, q, chosen),
               updates' \in SUBSET (updates \cup
                  {[question |-> q, answer |-> [by |-> p, chosen |-> chosen]]})
        PROVE  \A u \in updates' : UpdateMove(u)
    <3> DEFINE a == [by |-> p, chosen |-> chosen]
    <3>1. rows' = [rows EXCEPT ![q] = Answered(q, a)]
      BY <2>3, AnswerAccepted
    <3> HIDE DEF a
    <3>2. rows'[q].status = "answered" /\ rows'[q].answer = a
      BY <1>0, <3>1 DEF Answered, Rows
    <3>3. \A u \in updates' : u \in updates \/ u = [question |-> q, answer |-> a]
      BY <2>3 DEF a
    <3> QED
      BY <3>2, <3>3 DEF UpdateMove
  <2> QED
    BY <1>1, <1>2, <1>5, <2>1, <2>2, <2>3, AnswerSteps
<1>6. Breaks \/ SocketRecovers \/ SandboxReceives \/ ObjectReceives \/ Aborts \/ SessionEnds
      => UNCHANGED <<cards, updates>>
  BY DEF Breaks, SocketRecovers, ObjectNotices, SandboxNotices, Reconnects, SandboxReceives,
         ObjectReceives, Aborts, SessionEnds, slackVars
<1>7. \/ \E r \in Runs : Starts(r)
      \/ \E r \in Runs, type \in {"completed", "failed"} : TurnEnds(r, type)
      \/ \E q \in Asking, policy \in Policies, shape \in Shapes : q \in Runs /\ Asks(q, policy, shape)
      \/ \E r \in Runs, i \in Pulls : AsksForPull(r, i)
      => UNCHANGED <<cards, updates>>
  BY DEF Starts, TurnEnds, Asks, AsksForPull, slackVars
<1>8. \/ \E q \in Asking : TimesOut(q) \/ ModalOpens(q)
      \/ \E q \in Asking, p \in Web, to \in Web : Assigns(p, q, to)
      \/ \E i \in Pulls : PullTimesOut(i)
      \/ \E c \in calls : GitHubAnswers(c)
      => UNCHANGED <<cards, updates>>
  BY DEF TimesOut, ModalOpens, Assigns, PullTimesOut, GitHubAnswers, slackVars
<1>9. UNCHANGED <<cards, updates>>
      => (\A q \in Asking : CardMove(q)) /\ \A u \in updates' : UpdateMove(u)
  BY <1>1, <1>2
<1> QED
  BY <1>3, <1>4, <1>5, <1>6, <1>7, <1>8, <1>9 DEF StepCases

LEMMA QuestionsKept ==
    ASSUME TypeOK, SocketInv, QuestionsInv, StepCases
    PROVE  QuestionsInv'
<1>0. rows \in [Asking -> Rows] /\ asks \in [Asking -> AskRows] /\ toSandbox' \in Seq(Down)
  BY StepTyped DEF TypeOK, SandboxTypeOK, SocketTypeOK, QuestionsInv
<1>1. /\ \A q \in Asking : AsksMove(q) /\ RowsMove(q) /\ CardMove(q)
      /\ \A m \in Sent' : SentMove(m)
      /\ \A m \in In(toSandbox') : ReplyMove(m)
      /\ \A u \in updates' : UpdateMove(u)
  BY AsksMoves, RowsMoves, SlackMoves, SentMoves, RepliesMove
\* What is decided stays so.
<1>2. \A q \in Asking : Decided(q) => rows'[q] = rows[q]
  BY <1>1 DEF RowsMove, Arrives, IsReassigned, IsDecided, Decided, IsOpen
<1>3. ASSUME NEW q \in Asking
      PROVE  QuestionOK(q)'
  <2>1. QuestionOK(q) /\ AsksMove(q) /\ RowsMove(q) /\ CardMove(q)
    BY <1>1 DEF QuestionsInv
  <2>2. AskSent(q)' => AskSent(q) \/ (asks[q].state = "unasked" /\ asks'[q].state = "waiting" /\ UNCHANGED rows)
    BY <1>1 DEF AskSent, SentMove, IsOutcome
  <2>3. asks'[q].state = "unasked" => rows'[q].status = "none" /\ ~AskSent(q)'
    <3>1. asks'[q].state = "unasked" => asks'[q] = asks[q]
      BY <2>1 DEF AsksMove
    <3>2. asks'[q].state = "unasked" => rows[q].status = "none" /\ ~AskSent(q) /\ ~AskSent(q)'
      BY <2>1, <2>2, <3>1 DEF QuestionOK
    <3>3. ~AskSent(q) /\ rows[q].status = "none" => rows'[q] = rows[q]
      BY <2>1 DEF RowsMove, Arrives, IsReassigned, IsDecided, IsOpen
    <3> QED
      BY <3>2, <3>3
  <2>4. AskSent(q)' => rows'[q].status = "none"
    <3>1. AskSent(q)' => rows[q].status = "none"
      BY <2>1, <2>2 DEF QuestionOK
    <3>2. AskSent(q)' /\ rows[q].status = "none" => rows'[q] = rows[q]
      BY <2>1 DEF RowsMove, Arrives, IsReassigned, IsDecided, IsOpen
    <3> QED
      BY <3>1, <3>2
  <2>5. asks'[q].state = "told" => rows'[q].status = "answered" /\ asks'[q].answer = rows'[q].answer
    <3>1. asks'[q].state = "told" => rows[q].status = "answered" /\ asks'[q].answer = rows[q].answer
      BY <2>1 DEF AsksMove, QuestionOK
    <3> QED
      BY <1>2, <3>1 DEF Decided
  <2>6. asks'[q].state = "cancelled" => rows'[q].status = "cancelled"
    <3>1. asks'[q].state = "cancelled" => rows[q].status = "cancelled"
      BY <2>1 DEF AsksMove, QuestionOK
    <3> QED
      BY <1>2, <3>1 DEF Decided
  <2>7. cards'[q].shows = "answer" => rows'[q].status = "answered" /\ cards'[q].answer = rows'[q].answer
    <3>1. cards'[q].shows = "answer" => rows[q].status = "answered" /\ cards'[q].answer = rows[q].answer
      BY <2>1 DEF CardMove, QuestionOK, QuestionsInv, UpdateOK
    <3> QED
      BY <1>2, <3>1 DEF Decided
  <2>8. RightfulAnswer(q)'
    <3>1. rows'[q] = rows[q] => RightfulAnswer(q)'
      BY <2>1 DEF RightfulAnswer, QuestionOK, CanAnswer
    <3>2. Arrives(q) \/ IsReassigned(q) => RightfulAnswer(q)'
      BY DEF Arrives, IsReassigned, RightfulAnswer, IsOpen
    <3>3. IsDecided(q) => RightfulAnswer(q)'
      BY DEF IsDecided
    <3> QED
      BY <2>1, <3>1, <3>2, <3>3 DEF RowsMove
  <2> QED
    BY <2>3, <2>4, <2>5, <2>6, <2>7, <2>8 DEF QuestionOK
<1>4. ASSUME NEW m \in In(toSandbox')
      PROVE  ReplyOK(m)'
  <2>1. ReplyMove(m) /\ m \in Down
    BY <1>0, <1>1, InProperties
  <2>2. (m.type = "answer" => m.id \in Asking) /\ (m.type = "cancel" => m.id \in Asking)
    BY <2>1, DownFields
  <2>3. m \in In(toSandbox) => ReplyOK(m)
    BY DEF QuestionsInv
  <2>4. m \in In(toSandbox) => ReplyOK(m)'
    BY <1>2, <2>2, <2>3 DEF ReplyOK, Decided
  <2> QED
    BY <2>1, <2>4 DEF ReplyOK, ReplyMove
<1>5. ASSUME NEW u \in updates'
      PROVE  UpdateOK(u)'
  <2>1. UpdateMove(u)
    BY <1>1
  <2>2. u \in updates => u.question \in Asking /\ UpdateOK(u)
    BY DEF QuestionsInv, TypeOK, SlackTypeOK
  <2> QED
    BY <1>2, <2>1, <2>2 DEF UpdateOK, UpdateMove, Decided
<1>6. IsFiniteSet({q \in Asking : IsOpen(q)})'
  <2> DEFINE O == {q \in Asking : IsOpen(q)}
             P == {q \in Asking : rows'[q].status = "open"}
             x == Head(toObject).id
  <2>1. IsFiniteSet(O)
    BY DEF QuestionsInv
  <2>2. P \subseteq O \cup {x}
    <3> SUFFICES ASSUME NEW q \in Asking, rows'[q].status = "open", q # x PROVE IsOpen(q)
      OBVIOUS
    <3> QED
      BY <1>1 DEF RowsMove, Arrives, IsReassigned, IsDecided, Decided, IsOpen
  <2> HIDE DEF O, x
  <2>3. IsFiniteSet(O \cup {x})
    BY <2>1, FS_AddElement
  <2>4. IsFiniteSet(P)
    BY <2>2, <2>3, FS_Subset
  <2>5. P = {q \in Asking : IsOpen(q)'}
    BY DEF IsOpen
  <2> QED
    BY <2>4, <2>5
<1> QED
  BY <1>3, <1>4, <1>5, <1>6 DEF QuestionsInv

\* What is on its way to the sandbox arrives, is lost with the socket, or nobody
\* waits for it.
ReplyStays(m) ==
    \/ m \in In(toSandbox') \/ faults' # 0
    \/ m.type \in {"answer", "cancel"} => ~Waits(m.id)'

LEMMA RepliesStay ==
    ASSUME TypeOK, QuestionsInv, StepCases
    PROVE  \A m \in In(toSandbox) : ReplyStays(m)
<1>0. /\ asks \in [Asking -> AskRows] /\ toSandbox \in Seq(Down) /\ faults \in Nat /\ calls \in SUBSET CallRows
      /\ IsFiniteSet({p \in Asking : IsOpen(p)}) /\ toObject \in Seq(Up)
      /\ \A m \in In(toSandbox) : m \in Down
  BY InProperties DEF TypeOK, SandboxTypeOK, SocketTypeOK, QuestionsInv, PullTypeOK
<1>1. CASE In(toSandbox) \subseteq In(toSandbox')
  BY <1>1 DEF ReplyStays
<1>2. CASE Breaks
  <2>1. faults' = faults + 1
    BY <1>2 DEF Breaks, Fault
  <2> QED
    BY <1>0, <2>1 DEF ReplyStays
<1>3. CASE SessionEnds
  <2>1. \A q \in Asking : asks'[q] = IF asks[q].state = "waiting" THEN [asks[q] EXCEPT !.state = "killed"] ELSE asks[q]
    BY <1>3 DEF SessionEnds
  <2>2. \A q \in Asking : ~Waits(q)'
    BY <1>0, <2>1 DEF Waits, AskRows
  <2>3. \A m \in In(toSandbox) : m.type \in {"answer", "cancel"} => m.id \in Asking
    BY <1>0, DownFields
  <2> QED
    BY <2>2, <2>3 DEF ReplyStays
<1>4. CASE SandboxReceives
  <2> DEFINE m == Head(toSandbox)
  <2>1. /\ m \in Down /\ In(toSandbox) = In(toSandbox') \cup {m}
        /\ m.type \in {"answer", "cancel"} => Resolved(m)
    BY <1>0, <1>4, InTail DEF SandboxReceives
  <2> HIDE DEF m
  <2>2. m.type \in {"answer", "cancel"} => m.id \in Asking
    BY <2>1, DownFields
  <2>3. PICK n : n = m
    OBVIOUS
  <2>4. n.type \in {"answer", "cancel"} => ~Waits(n.id)'
    BY <1>0, <2>1, <2>2, <2>3 DEF Resolved, Waits, Ends
  <2> QED
    BY <2>1, <2>3, <2>4 DEF ReplyStays
<1>5. ASSUME NEW msgs \in Seq(Down), Sends(msgs)
      PROVE  In(toSandbox) \subseteq In(toSandbox')
  BY <1>0, <1>5, SentDown
<1>6. CASE ObjectReceives
  <2> DEFINE m == Head(toObject)
  <2>1. TakesNext
        /\ (HearsAsk(m) \/ HearsPull(m) \/ HearsComplete(m) \/ HearsFailed(m) \/ HearsOld(m))
    BY <1>6, ObjectHears
  <2>2. m \in Up
    BY <1>0, <2>1, InTail DEF TakesNext
  <2> HIDE DEF m
  <2>3. CASE HearsPull(m)
    <3> DEFINE p == [type |-> "pulled", id |-> m.id, url |-> FALSE]
    <3>1. p \in Down
      BY <2>2, <2>3, UpFields, Messages DEF HearsPull
    <3>2. toSandbox' = toSandbox \/ Sends(<<p>>)
      BY <2>3 DEF HearsPull, PullAsked
    <3> HIDE DEF p
    <3>3. <<p>> \in Seq(Down)
      BY <3>1
    <3> QED
      BY <1>1, <1>5, <3>2, <3>3
  <2>4. CASE HearsFailed(m)
    <3>1. Cancellations(active) \in Seq(Down) /\ Sends(Cancellations(active))
      BY <1>0, <2>4, CancellationsSent DEF HearsFailed
    <3> QED
      BY <1>1, <1>5, <3>1
  <2>5. CASE HearsAsk(m) \/ HearsComplete(m) \/ HearsOld(m)
    BY <1>1, <2>5 DEF HearsAsk, HearsComplete, HearsOld
  <2> QED
    BY <2>1, <2>3, <2>4, <2>5
<1>7. CASE Aborts
  <2>1. Cancellations(active) \in Seq(Down) /\ Sends(Cancellations(active))
    BY <1>0, <1>7, CancellationsSent DEF Aborts
  <2> QED
    BY <1>1, <1>5, <2>1
<1>8. ASSUME NEW r \in Runs, Starts(r)
      PROVE  \A m \in In(toSandbox) : ReplyStays(m)
  <2> DEFINE p == [type |-> "turn", run |-> r]
  <2>1. p \in Down /\ Sends(<<p>>)
    BY <1>8, Messages DEF Starts
  <2> HIDE DEF p
  <2>2. <<p>> \in Seq(Down)
    BY <2>1
  <2> QED
    BY <1>1, <1>5, <2>1, <2>2
<1>9. ASSUME NEW p \in People, NEW r \in Asking, NEW chosen \in Selections, Accepts(p, r, chosen)
      PROVE  \A m \in In(toSandbox) : ReplyStays(m)
  <2>1. \E msgs \in Seq(Down) : Sends(msgs)
    BY <1>9, AnswerAccepted
  <2> QED
    BY <1>1, <1>5, <2>1
<1>10. ASSUME NEW c \in calls, GitHubAnswers(c)
       PROVE  \A m \in In(toSandbox) : ReplyStays(m)
  <2>1. PICK url \in BOOLEAN : toSandbox' = toSandbox
            \/ toSandbox' = Append(toSandbox, [type |-> "pulled", id |-> c.id, url |-> url])
    BY <1>10 DEF GitHubAnswers, TriesAgain, Replies
  <2> DEFINE p == [type |-> "pulled", id |-> c.id, url |-> url]
  <2>2. p \in Down /\ (toSandbox' = toSandbox \/ toSandbox' = Append(toSandbox, p))
    BY <1>0, <2>1, Messages DEF CallRows
  <2> HIDE DEF p
  <2>3. In(Append(toSandbox, p)) = In(toSandbox) \cup {p}
    BY <1>0, <2>2, InAppend
  <2>4. In(toSandbox) \subseteq In(toSandbox')
    BY <2>2, <2>3
  <2> QED
    BY <1>1, <2>4
<1>11. SomebodyAnswers =>
        \/ toSandbox' = toSandbox
        \/ \E p \in People, r \in Asking, chosen \in Selections : Accepts(p, r, chosen)
  BY AnswerSteps
<1>12. SocketRecovers => toSandbox' = toSandbox
  BY DEF SocketRecovers, ObjectNotices, SandboxNotices, Reconnects
<1>13. \/ \E r \in Runs, type \in {"completed", "failed"} : TurnEnds(r, type)
       \/ \E q \in Asking, policy \in Policies, shape \in Shapes : q \in Runs /\ Asks(q, policy, shape)
       \/ \E r \in Runs, i \in Pulls : AsksForPull(r, i)
       => toSandbox' = toSandbox
  BY DEF TurnEnds, Asks, AsksForPull
<1>14. \/ \E q \in Asking : TimesOut(q) \/ CardAppears(q) \/ ModalOpens(q)
       \/ \E q \in Asking, p \in Web, to \in Web : Assigns(p, q, to)
       \/ \E i \in Pulls : PullTimesOut(i)
       \/ \E u \in updates : CardIsUpdated(u)
       => toSandbox' = toSandbox
  BY DEF TimesOut, CardAppears, ModalOpens, Assigns, PullTimesOut, CardIsUpdated
<1>15. toSandbox' = toSandbox => \A m \in In(toSandbox) : ReplyStays(m)
  BY <1>1
<1> QED
  BY <1>2, <1>3, <1>4, <1>6, <1>7, <1>8, <1>9, <1>10, <1>11, <1>12, <1>13, <1>14, <1>15 DEF StepCases

LEMMA FaultsStay ==
    ASSUME TypeOK, StepCases, faults' = 0
    PROVE  faults = 0
<1>1. faults \in Nat
  BY DEF TypeOK
<1>2. SomebodyAnswers => faults' = faults \/ faults' = faults + 1
  BY AnswerSteps
<1>3. Breaks \/ SocketRecovers \/ SandboxReceives \/ ObjectReceives \/ Aborts \/ SessionEnds
      => faults' = faults \/ faults' = faults + 1
  BY DEF Breaks, SocketRecovers, ObjectNotices, SandboxNotices, Reconnects, SandboxReceives,
         ObjectReceives, Aborts, SessionEnds, Fault
<1>4. \/ \E r \in Runs : Starts(r)
      \/ \E r \in Runs, type \in {"completed", "failed"} : TurnEnds(r, type)
      \/ \E q \in Asking, policy \in Policies, shape \in Shapes : q \in Runs /\ Asks(q, policy, shape)
      \/ \E r \in Runs, i \in Pulls : AsksForPull(r, i)
      => faults' = faults \/ faults' = faults + 1
  BY DEF Starts, TurnEnds, Asks, AsksForPull
<1>5. \/ \E q \in Asking : TimesOut(q) \/ CardAppears(q) \/ ModalOpens(q)
      \/ \E q \in Asking, p \in Web, to \in Web : Assigns(p, q, to)
      \/ \E i \in Pulls : PullTimesOut(i)
      \/ \E u \in updates : CardIsUpdated(u)
      \/ \E c \in calls : GitHubAnswers(c)
      => faults' = faults \/ faults' = faults + 1
  BY DEF TimesOut, CardAppears, ModalOpens, Assigns, PullTimesOut, CardIsUpdated, GitHubAnswers, Fault
<1>6. faults' = faults \/ faults' = faults + 1
  BY <1>2, <1>3, <1>4, <1>5 DEF StepCases
<1> QED
  BY <1>1, <1>6

LEMMA WayKept ==
    ASSUME TypeOK, SocketInv, ClosedInv, QuestionsInv, WayInv, StepCases
    PROVE  WayInv'
<1> SUFFICES ASSUME NEW q \in Asking, Waits(q)', Decided(q)', faults' = 0
             PROVE  OnItsWay(q)'
  BY DEF WayInv
<1>1. AsksMove(q) /\ RowsMove(q) /\ QuestionOK(q)
  BY AsksMoves, RowsMoves DEF QuestionsInv
<1>2. faults = 0
  BY FaultsStay
<1>3. Waits(q)
  <2>1. asks'[q] = asks[q] \/ (asks[q].state = "unasked" /\ rows' = rows)
    BY <1>1 DEF AsksMove, Waits
  <2>2. asks[q].state = "unasked" => rows[q].status = "none"
    BY <1>1 DEF QuestionOK
  <2> QED
    BY <2>1, <2>2 DEF Waits, Decided
<1>4. CASE rows'[q] = rows[q]
  <2>1. Decided(q) /\ OnItsWay(q)
    BY <1>2, <1>3, <1>4 DEF WayInv, Decided
  <2>2. PICK m \in In(toSandbox) : m.type = Outcome(q) /\ m.id = q
    BY <2>1 DEF OnItsWay
  <2>3. m.type \in {"answer", "cancel"} /\ m.type = Outcome(q)'
    BY <1>4, <2>2 DEF Outcome
  <2>4. ReplyStays(m)
    BY RepliesStay
  <2>5. m \in In(toSandbox')
    BY <2>2, <2>3, <2>4 DEF ReplyStays
  <2> QED
    BY <2>2, <2>3, <2>5 DEF OnItsWay
<1>5. CASE IsDecided(q)
  <2>1. wire /\ live
    BY <1>2, <1>3 DEF SocketInv, ClosedInv
  <2> QED
    BY <1>5, <2>1 DEF IsDecided, Told
<1>6. ~Arrives(q) /\ ~IsReassigned(q)
  BY DEF Arrives, IsReassigned, IsOpen, Decided
<1> QED
  BY <1>1, <1>4, <1>5, <1>6 DEF RowsMove

\* A run is over when its questions are cancelled, or its turn is complete.
OverMove(r) ==
    \/ r \in over
    \/ r = active /\ rows' = Cancelled(active)
    \/ r = active /\ rows' = rows /\ Complete

LEMMA OverMoves ==
    ASSUME TypeOK, StepCases
    PROVE  /\ over \subseteq over'
           /\ \A r \in over' : OverMove(r)
           /\ \A r \in over' : r # 0
           /\ active' = active \/ active' = 0 \/ \E r \in Runs : Starts(r)
           /\ active' # active => active = 0 \/ active \in over'
           /\ active \notin over => active' \notin over'
<1>0. active \in Runs \cup {0} /\ over \in SUBSET Runs /\ 0 \notin Runs /\ toObject \in Seq(Up)
  BY QuestionAssumption DEF TypeOK, RunTypeOK, SocketTypeOK
<1>1. CASE ObjectReceives
  <2> DEFINE m == Head(toObject)
  <2>1. TakesNext
        /\ (HearsAsk(m) \/ HearsPull(m) \/ HearsComplete(m) \/ HearsFailed(m) \/ HearsOld(m))
    BY <1>1, ObjectHears
  <2>2. m \in Sent /\ m \in Up
    BY <1>0, <2>1, InTail DEF TakesNext, Sent
  <2> HIDE DEF m
  <2>3. m.run \in Runs
    BY <2>2, UpFields
  <2>4. CASE HearsComplete(m)
    BY <1>0, <2>2, <2>3, <2>4 DEF HearsComplete, Finished, OverMove, Complete
  <2>5. CASE HearsFailed(m)
    BY <1>0, <2>3, <2>5 DEF HearsFailed, Finished, OverMove
  <2>6. CASE HearsAsk(m) \/ HearsPull(m) \/ HearsOld(m)
    BY <1>0, <2>6 DEF HearsAsk, HearsPull, HearsOld, runVars, OverMove
  <2> QED
    BY <2>1, <2>4, <2>5, <2>6
<1>2. CASE Aborts
  BY <1>0, <1>2 DEF Aborts, Finished, OverMove
<1>3. CASE SessionEnds
  BY <1>0, <1>3 DEF SessionEnds, OverMove
<1>4. ASSUME NEW r \in Runs, Starts(r)
      PROVE  active = 0 /\ over' = over /\ active' \in Runs \ over
  BY <1>4 DEF Starts
<1>5. SomebodyAnswers => UNCHANGED runVars
  BY AnswerSteps
<1>6. Breaks \/ SocketRecovers \/ SandboxReceives => UNCHANGED runVars
  BY DEF Breaks, SocketRecovers, ObjectNotices, SandboxNotices, Reconnects, SandboxReceives
<1>7. \/ \E r \in Runs, type \in {"completed", "failed"} : TurnEnds(r, type)
      \/ \E q \in Asking, policy \in Policies, shape \in Shapes : q \in Runs /\ Asks(q, policy, shape)
      \/ \E r \in Runs, i \in Pulls : AsksForPull(r, i)
      => UNCHANGED runVars
  BY DEF TurnEnds, Asks, AsksForPull
<1>8. \/ \E q \in Asking : TimesOut(q) \/ CardAppears(q) \/ ModalOpens(q)
      \/ \E q \in Asking, p \in Web, to \in Web : Assigns(p, q, to)
      \/ \E i \in Pulls : PullTimesOut(i)
      \/ \E u \in updates : CardIsUpdated(u)
      \/ \E c \in calls : GitHubAnswers(c)
      => UNCHANGED runVars
  BY DEF TimesOut, CardAppears, ModalOpens, Assigns, PullTimesOut, CardIsUpdated, GitHubAnswers
<1>9. CASE UNCHANGED runVars
  BY <1>0, <1>9 DEF runVars, OverMove
<1>10. CASE \E r \in Runs : Starts(r)
  BY <1>0, <1>4, <1>10 DEF OverMove
<1> QED
  BY <1>1, <1>2, <1>3, <1>5, <1>6, <1>7, <1>8, <1>9, <1>10 DEF StepCases

LEMMA OverKept ==
    ASSUME TypeOK, SocketInv, QuestionsInv, TurnInv, OverRunsAskNothing, StepCases
    PROVE  OverRunsAskNothing'
<1> SUFFICES ASSUME NEW q \in Asking, rows'[q].status = "open", rows'[q].run \in over'
             PROVE  rows'[q].late \/ asks'[q].state \in {"timedOut", "killed"}
  BY DEF OverRunsAskNothing
<1>1. AsksMove(q) /\ RowsMove(q) /\ QuestionOK(q) /\ OverMove(rows'[q].run)
  BY AsksMoves, RowsMoves, OverMoves DEF QuestionsInv
<1>2. rows \in [Asking -> Rows] /\ asks[q] \in AskRows
  BY DEF TypeOK, SandboxTypeOK
<1>3. asks[q].state \in {"timedOut", "killed"} => asks'[q] = asks[q]
  BY <1>1 DEF AsksMove, Waits
<1>4. CASE rows'[q].run \in over
  <2>1. rows[q].status = "open" /\ rows[q].run \in over => rows[q].late \/ asks[q].state \in {"timedOut", "killed"}
    BY DEF OverRunsAskNothing
  <2>2. CASE rows'[q] = rows[q]
    BY <1>3, <1>4, <2>1, <2>2
  <2>3. CASE Arrives(q)
    BY <1>4, <2>3 DEF Arrives
  <2>4. CASE IsReassigned(q)
    BY <1>3, <1>4, <2>1, <2>4 DEF IsReassigned, IsOpen
  <2>5. ~IsDecided(q)
    BY DEF IsDecided, Decided
  <2> QED
    BY <1>1, <2>2, <2>3, <2>4, <2>5 DEF RowsMove
<1>5. CASE rows'[q].run = active /\ rows' = Cancelled(active)
  <2>1. q \notin OpenOf(active)
    <3> SUFFICES ASSUME q \in OpenOf(active) PROVE FALSE
      OBVIOUS
    <3>1. rows'[q] = [rows[q] EXCEPT !.status = "cancelled"]
      BY <1>2, <1>5, CancelledRows
    <3> QED
      BY <1>2, <3>1 DEF Rows
  <2>2. rows'[q] = rows[q] /\ (rows[q].status = "open" => rows[q].run # active)
    BY <1>2, <1>5, <2>1, CancelledRows
  <2> QED
    BY <1>5, <2>2
<1>6. CASE rows'[q].run = active /\ rows' = rows /\ Complete
  <2>1. rows[q].status = "open" /\ ~Waits(q)
    BY <1>6 DEF TurnInv
  <2>2. asks[q].state \in {"timedOut", "killed"}
    BY <1>1, <1>2, <2>1 DEF QuestionOK, Waits, AskRows
  <2> QED
    BY <1>3, <2>2
<1> QED
  BY <1>1, <1>4, <1>5, <1>6 DEF OverMove

-----------------------------------------------------------------------------
(* Turns *)

LEMMA WorkInFront ==
    ASSUME NEW S, NEW s \in Seq(S), NEW r
    PROVE  /\ r \notin In(s) => NoneBehind(s, r)
           /\ \A x \in S : r \notin In(s) => NoneBehind(Append(s, x), r)
           /\ s # <<>> /\ NoneBehind(s, r) => NoneBehind(Tail(s), r)
           /\ s # <<>> /\ NoneBehind(s, r) /\ Head(s) = r => Tail(s) = <<>>
<1>1. r \notin In(s) => NoneBehind(s, r)
  BY DEF In, NoneBehind
<1>2. ASSUME NEW x \in S, r \notin In(s)
      PROVE  NoneBehind(Append(s, x), r)
  <2>1. /\ Len(s) \in Nat /\ Len(Append(s, x)) = Len(s) + 1
        /\ \A i \in 1 .. Len(s) : Append(s, x)[i] = s[i]
    BY AppendProperties, LenProperties
  <2>2. \A i, j \in 1 .. Len(s) + 1 : i < j => i \in 1 .. Len(s)
    BY <2>1
  <2> QED
    BY <1>2, <2>1, <2>2 DEF In, NoneBehind
<1>3. ASSUME s # <<>>, NoneBehind(s, r)
      PROVE  NoneBehind(Tail(s), r) /\ (Head(s) = r => Tail(s) = <<>>)
  <2> DEFINE x == Tail(s)
  <2>1. /\ Len(s) \in Nat \ {0} /\ x \in Seq(S) /\ Len(x) = Len(s) - 1 /\ Head(s) = s[1]
        /\ \A i \in 1 .. Len(s) - 1 : x[i] = s[i + 1]
    BY <1>3, HeadTailProperties, EmptySeq, LenProperties
  <2> HIDE DEF x
  <2>2. \A i, j \in 1 .. Len(x) : i < j => i + 1 \in 1 .. Len(s) /\ j + 1 \in 1 .. Len(s) /\ i + 1 < j + 1
                                          /\ x[i] = s[i + 1]
    BY <2>1
  <2>3. NoneBehind(x, r)
    BY <1>3, <2>2 DEF NoneBehind
  <2>4. Head(s) = r => Len(s) = 1
    <3> SUFFICES ASSUME Head(s) = r, Len(s) # 1 PROVE FALSE
      OBVIOUS
    <3>1. 1 \in 1 .. Len(s) /\ 2 \in 1 .. Len(s) /\ 1 < 2
      BY <2>1
    <3> QED
      BY <1>3, <2>1, <3>1 DEF NoneBehind
  <2>5. Head(s) = r => x = <<>>
    BY <2>1, <2>4, EmptySeq
  <2> QED
    BY <2>3, <2>5 DEF x
<1> QED
  BY <1>1, <1>2, <1>3

LEMMA TurnsInFront ==
    ASSUME NEW S, NEW s \in Seq(S), NEW r
    PROVE  /\ (\A m \in In(s) : m.type = "turn" => m.run # r) => NoTurnBehind(s, r)
           /\ \A x \in S : (\A m \in In(s) : m.type = "turn" => m.run # r) => NoTurnBehind(Append(s, x), r)
           /\ s # <<>> /\ NoTurnBehind(s, r) => NoTurnBehind(Tail(s), r)
           /\ s # <<>> /\ NoTurnBehind(s, r) /\ Head(s).type = "turn" /\ Head(s).run = r
              => \A m \in In(Tail(s)) : m.type # "turn"
           /\ \A t \in Seq(S) : NoTurnBehind(s, r) /\ (\A m \in In(t) : m.type # "turn")
                                => NoTurnBehind(s \o t, r)
<1>1. (\A m \in In(s) : m.type = "turn" => m.run # r) => NoTurnBehind(s, r)
  BY DEF In, NoTurnBehind
<1>2. ASSUME NEW x \in S, \A m \in In(s) : m.type = "turn" => m.run # r
      PROVE  NoTurnBehind(Append(s, x), r)
  <2>1. /\ Len(s) \in Nat /\ Len(Append(s, x)) = Len(s) + 1
        /\ \A i \in 1 .. Len(s) : Append(s, x)[i] = s[i]
    BY AppendProperties, LenProperties
  <2>2. \A i, j \in 1 .. Len(s) + 1 : i < j => i \in 1 .. Len(s)
    BY <2>1
  <2> QED
    BY <1>2, <2>1, <2>2 DEF In, NoTurnBehind
<1>3. ASSUME s # <<>>, NoTurnBehind(s, r)
      PROVE  /\ NoTurnBehind(Tail(s), r)
             /\ Head(s).type = "turn" /\ Head(s).run = r => \A m \in In(Tail(s)) : m.type # "turn"
  <2> DEFINE x == Tail(s)
  <2>1. /\ Len(s) \in Nat \ {0} /\ x \in Seq(S) /\ Len(x) = Len(s) - 1 /\ Head(s) = s[1]
        /\ \A i \in 1 .. Len(s) - 1 : x[i] = s[i + 1]
    BY <1>3, HeadTailProperties, EmptySeq, LenProperties
  <2> HIDE DEF x
  <2>2. \A i \in 1 .. Len(x) : /\ i + 1 \in 1 .. Len(s) /\ x[i] = s[i + 1] /\ 1 < i + 1 /\ 1 \in 1 .. Len(s)
                               /\ \A j \in 1 .. Len(x) : i < j => i + 1 < j + 1
    BY <2>1
  <2>3. NoTurnBehind(x, r)
    BY <1>3, <2>2 DEF NoTurnBehind
  <2>4. ASSUME Head(s).type = "turn", Head(s).run = r, NEW i \in 1 .. Len(x)
        PROVE  x[i].type # "turn"
    BY <1>3, <2>1, <2>2, <2>4 DEF NoTurnBehind
  <2>5. Head(s).type = "turn" /\ Head(s).run = r => \A m \in In(x) : m.type # "turn"
    BY <2>4 DEF In
  <2> QED
    BY <2>3, <2>5 DEF x
<1>4. ASSUME NEW t \in Seq(S), NoTurnBehind(s, r), \A m \in In(t) : m.type # "turn"
      PROVE  NoTurnBehind(s \o t, r)
  <2> DEFINE x == s \o t
  <2>1. /\ Len(s) \in Nat /\ Len(t) \in Nat /\ Len(x) = Len(s) + Len(t)
        /\ \A i \in 1 .. Len(s) : x[i] = s[i]
        /\ \A i \in Len(s) + 1 .. Len(s) + Len(t) : x[i] = t[i - Len(s)]
    BY ConcatProperties, LenProperties
  <2> HIDE DEF x
  <2>2. ASSUME NEW j \in 1 .. Len(x), x[j].type = "turn"
        PROVE  j \in 1 .. Len(s)
    <3> SUFFICES ASSUME j > Len(s) PROVE FALSE
      BY <2>1
    <3>1. j - Len(s) \in 1 .. Len(t) /\ x[j] = t[j - Len(s)]
      BY <2>1
    <3> QED
      BY <1>4, <2>2, <3>1 DEF In
  <2>3. NoTurnBehind(x, r)
    BY <1>4, <2>1, <2>2 DEF NoTurnBehind
  <2> QED
    BY <2>3 DEF x
<1> QED
  BY <1>1, <1>2, <1>3, <1>4

\* Only a run that starts sends a turn.
FewerTurns ==
    /\ \A m \in In(toSandbox') : m.type = "turn" => m \in In(toSandbox)
    /\ \A r \in Runs : NoTurnBehind(toSandbox, r) => NoTurnBehind(toSandbox', r)

LEMMA OtherMessages ==
    ASSUME toSandbox \in Seq(Down), NEW msgs \in Seq(Down), \A m \in In(msgs) : m.type # "turn",
           Sends(msgs) \/ toSandbox' = toSandbox \o msgs
    PROVE  FewerTurns
<1>1. CASE toSandbox' = toSandbox
  BY <1>1 DEF FewerTurns
<1>2. CASE toSandbox' = toSandbox \o msgs
  <2>1. In(toSandbox \o msgs) = In(toSandbox) \cup In(msgs)
    BY InConcat
  <2>2. \A r \in Runs : NoTurnBehind(toSandbox, r) => NoTurnBehind(toSandbox \o msgs, r)
    BY TurnsInFront
  <2> QED
    BY <1>2, <2>1, <2>2 DEF FewerTurns
<1> QED
  BY <1>1, <1>2 DEF Sends

LEMMA TurnsOnTheWay ==
    ASSUME TypeOK, QuestionsInv, StepCases
    PROVE  FewerTurns \/ \E r \in Runs : Starts(r)
<1>0. /\ toSandbox \in Seq(Down) /\ calls \in SUBSET CallRows /\ toObject \in Seq(Up)
      /\ IsFiniteSet({p \in Asking : IsOpen(p)})
  BY DEF TypeOK, SocketTypeOK, QuestionsInv, PullTypeOK
<1>1. CASE toSandbox' = toSandbox
  BY <1>1 DEF FewerTurns
<1>2. CASE Breaks \/ SessionEnds
  <2>1. toSandbox' = <<>> /\ \A r : NoTurnBehind(<<>>, r)
    BY <1>2 DEF Breaks, SessionEnds, NoTurnBehind
  <2> QED
    BY <2>1, InEmpty DEF FewerTurns
<1>3. CASE SandboxReceives
  <2>1. toSandbox # <<>> /\ toSandbox' = Tail(toSandbox)
    BY <1>3 DEF SandboxReceives
  <2>2. In(Tail(toSandbox)) \subseteq In(toSandbox)
    BY <1>0, <2>1, InTail
  <2>3. \A r \in Runs : NoTurnBehind(toSandbox, r) => NoTurnBehind(Tail(toSandbox), r)
    BY <1>0, <2>1, TurnsInFront
  <2> QED
    BY <2>1, <2>2, <2>3 DEF FewerTurns
<1>4. ASSUME NEW r, Sends(Cancellations(r))
      PROVE  FewerTurns
  <2>1. Cancellations(r) \in Seq(Down) /\ \A m \in In(Cancellations(r)) : m.type # "turn"
    BY <1>0, CancellationsSent
  <2> QED
    BY <1>0, <1>4, <2>1, OtherMessages
<1>5. ASSUME NEW p \in Down, p.type # "turn", Sends(<<p>>) \/ toSandbox' = Append(toSandbox, p)
      PROVE  FewerTurns
  <2>1. <<p>> \in Seq(Down) /\ \A m \in In(<<p>>) : m.type # "turn"
    BY <1>5, InOne
  <2>2. Append(toSandbox, p) = toSandbox \o <<p>>
    BY <1>0, AppendIsConcat
  <2> QED
    BY <1>0, <1>5, <2>1, <2>2, OtherMessages
<1>6. CASE ObjectReceives
  <2> DEFINE m == Head(toObject)
  <2>1. TakesNext
        /\ (HearsAsk(m) \/ HearsPull(m) \/ HearsComplete(m) \/ HearsFailed(m) \/ HearsOld(m))
    BY <1>6, ObjectHears
  <2>2. m \in Up
    BY <1>0, <2>1, InTail DEF TakesNext
  <2> HIDE DEF m
  <2>3. CASE HearsPull(m)
    <3> DEFINE p == [type |-> "pulled", id |-> m.id, url |-> FALSE]
    <3>1. p \in Down /\ p.type # "turn"
      BY <2>2, <2>3, UpFields, Messages DEF HearsPull
    <3>2. toSandbox' = toSandbox \/ Sends(<<p>>)
      BY <2>3 DEF HearsPull, PullAsked
    <3> HIDE DEF p
    <3> QED
      BY <1>1, <1>5, <3>1, <3>2
  <2>4. CASE HearsFailed(m)
    BY <1>4, <2>4 DEF HearsFailed
  <2>5. CASE HearsAsk(m) \/ HearsComplete(m) \/ HearsOld(m)
    BY <1>1, <2>5 DEF HearsAsk, HearsComplete, HearsOld
  <2> QED
    BY <2>1, <2>3, <2>4, <2>5
<1>7. CASE Aborts
  BY <1>4, <1>7 DEF Aborts
<1>8. ASSUME NEW p \in People, NEW r \in Asking, NEW chosen \in Selections, Accepts(p, r, chosen)
      PROVE  FewerTurns
  <2> DEFINE n == [type |-> "answer", id |-> r, answer |-> [by |-> p, chosen |-> chosen]]
  <2>1. n \in Down /\ Sends(<<n>>) /\ n.type # "turn"
    BY <1>8, AnswerAccepted
  <2> HIDE DEF n
  <2> QED
    BY <1>5, <2>1
<1>9. ASSUME NEW c \in calls, GitHubAnswers(c)
      PROVE  FewerTurns \/ \E r \in Runs : Starts(r)
  <2>1. PICK url \in BOOLEAN : toSandbox' = toSandbox
            \/ toSandbox' = Append(toSandbox, [type |-> "pulled", id |-> c.id, url |-> url])
    BY <1>9 DEF GitHubAnswers, TriesAgain, Replies
  <2> DEFINE n == [type |-> "pulled", id |-> c.id, url |-> url]
  <2>2. n \in Down /\ n.type # "turn" /\ (toSandbox' = toSandbox \/ toSandbox' = Append(toSandbox, n))
    BY <1>0, <2>1, Messages DEF CallRows
  <2> HIDE DEF n
  <2>3. CASE toSandbox' = Append(toSandbox, n)
    BY <1>5, <2>2, <2>3
  <2> QED
    BY <1>1, <2>2, <2>3
<1>10. SomebodyAnswers =>
        \/ toSandbox' = toSandbox
        \/ \E p \in People, r \in Asking, chosen \in Selections : Accepts(p, r, chosen)
  BY AnswerSteps
<1>11. SocketRecovers => toSandbox' = toSandbox
  BY DEF SocketRecovers, ObjectNotices, SandboxNotices, Reconnects
<1>12. \/ \E r \in Runs, type \in {"completed", "failed"} : TurnEnds(r, type)
       \/ \E q \in Asking, policy \in Policies, shape \in Shapes : q \in Runs /\ Asks(q, policy, shape)
       \/ \E r \in Runs, i \in Pulls : AsksForPull(r, i)
       => toSandbox' = toSandbox
  BY DEF TurnEnds, Asks, AsksForPull
<1>13. \/ \E q \in Asking : TimesOut(q) \/ CardAppears(q) \/ ModalOpens(q)
       \/ \E q \in Asking, p \in Web, to \in Web : Assigns(p, q, to)
       \/ \E i \in Pulls : PullTimesOut(i)
       \/ \E u \in updates : CardIsUpdated(u)
       => toSandbox' = toSandbox
  BY DEF TimesOut, CardAppears, ModalOpens, Assigns, PullTimesOut, CardIsUpdated
<1> QED
  BY <1>1, <1>2, <1>3, <1>6, <1>7, <1>8, <1>9, <1>10, <1>11, <1>12, <1>13 DEF StepCases

\* The turns the sandbox has.
WorkMove ==
    \/ work' = work
    \/ work' = <<>>
    \/ work # <<>> /\ work' = Tail(work)
    \/ /\ toSandbox # <<>> /\ Head(toSandbox).type = "turn" /\ toSandbox' = Tail(toSandbox)
       /\ work' = Append(work, Head(toSandbox).run) /\ UNCHANGED runVars

LEMMA WorkMoves ==
    ASSUME StepCases
    PROVE  WorkMove
<1>1. SandboxReceives => WorkMove
  BY DEF SandboxReceives, WorkMove
<1>2. SessionEnds => WorkMove
  BY DEF SessionEnds, WorkMove
<1>3. (\E r \in Runs, type \in {"completed", "failed"} : TurnEnds(r, type)) => WorkMove
  BY DEF TurnEnds, Working, WorkMove
<1>4. SomebodyAnswers => work' = work
  BY AnswerSteps DEF sandboxVars
<1>5. Breaks \/ SocketRecovers \/ ObjectReceives \/ Aborts \/ (\E r \in Runs : Starts(r)) => work' = work
  BY DEF Breaks, SocketRecovers, ObjectNotices, SandboxNotices, Reconnects, ObjectReceives, Aborts,
         Starts, sandboxVars
<1>6. \/ \E q \in Asking, policy \in Policies, shape \in Shapes : q \in Runs /\ Asks(q, policy, shape)
      \/ \E r \in Runs, i \in Pulls : AsksForPull(r, i)
      => work' = work
  BY DEF Asks, AsksForPull
<1>7. \/ \E q \in Asking : TimesOut(q) \/ CardAppears(q) \/ ModalOpens(q)
      \/ \E q \in Asking, p \in Web, to \in Web : Assigns(p, q, to)
      \/ \E i \in Pulls : PullTimesOut(i)
      \/ \E u \in updates : CardIsUpdated(u)
      \/ \E c \in calls : GitHubAnswers(c)
      => work' = work
  BY DEF TimesOut, CardAppears, ModalOpens, Assigns, PullTimesOut, CardIsUpdated, GitHubAnswers, sandboxVars
<1> QED
  BY <1>1, <1>2, <1>3, <1>4, <1>5, <1>6, <1>7 DEF StepCases, WorkMove

LEMMA KnownStays ==
    ASSUME TypeOK, StepCases, NEW r \in Runs, Known(r)
    PROVE  Known(r)'
<1>1. over \subseteq over' /\ (active' # active => active = 0 \/ active \in over') /\ r # 0
  BY OverMoves, QuestionAssumption
<1> QED
  BY <1>1 DEF Known

\* The turns that have been sent, and what was reported of them.
LEMMA KnownTurns ==
    ASSUME TypeOK, SocketInv, QuestionsInv, TurnInv, StepCases
    PROVE  /\ active' \notin over'
           /\ \A r \in In(work') : Known(r)'
           /\ \A m \in In(toSandbox') : m.type = "turn" => Known(m.run)'
           /\ \A m \in Sent' : IsOutcome(m) => Known(m.run)'
<1>0. /\ work \in Seq(Runs) /\ toSandbox \in Seq(Down) /\ active \in Runs \cup {0} /\ over \in SUBSET Runs
      /\ toObject \in Seq(Up) /\ outbox \in Seq(Up)
      /\ \A m \in In(toSandbox) : m \in Down
      /\ \A r \in In(work) : r \in Runs
      /\ \A m \in Sent : m \in Up
  BY InProperties DEF TypeOK, SandboxTypeOK, SocketTypeOK, RunTypeOK, Sent
<1>1. active' \notin over'
  BY OverMoves DEF TurnInv
<1>2. ASSUME NEW r \in In(work')
      PROVE  Known(r)'
  <2>1. r \in In(work) => Known(r)'
    BY <1>0, KnownStays DEF TurnInv
  <2>2. CASE work' = work \/ work' = <<>>
    BY <2>1, <2>2, InEmpty
  <2>3. CASE work # <<>> /\ work' = Tail(work)
    BY <1>0, <2>1, <2>3, InTail
  <2>4. CASE /\ toSandbox # <<>> /\ Head(toSandbox).type = "turn"
             /\ work' = Append(work, Head(toSandbox).run)
    <3> DEFINE m == Head(toSandbox)
    <3>1. m \in Down /\ m \in In(toSandbox) /\ m.type = "turn" /\ work' = Append(work, m.run)
      BY <1>0, <2>4, InTail
    <3> HIDE DEF m
    <3>2. m.run \in Runs /\ Known(m.run)
      BY <3>1, DownFields DEF TurnInv
    <3>3. r \in In(work) \/ r = m.run
      BY <1>0, <3>1, <3>2, InAppend
    <3>4. CASE r = m.run
      <4>1. r \in Runs /\ Known(r)
        BY <3>2, <3>4
      <4> QED
        BY <4>1, KnownStays
    <3> QED
      BY <2>1, <3>3, <3>4
  <2> QED
    BY <2>2, <2>3, <2>4, WorkMoves DEF WorkMove
<1>3. ASSUME NEW m \in In(toSandbox'), m.type = "turn"
      PROVE  Known(m.run)'
  <2>1. m \in In(toSandbox) \/ m.run = active'
    BY <1>3, RepliesMove DEF ReplyMove
  <2>2. CASE m \in In(toSandbox)
    BY <1>0, <1>3, <2>2, DownFields, KnownStays DEF TurnInv
  <2> QED
    BY <2>1, <2>2 DEF Known
<1>4. ASSUME NEW m \in Sent', IsOutcome(m)
      PROVE  Known(m.run)'
  <2>1. m \in Sent \/ (m.run \in Runs /\ Working(m.run) /\ UNCHANGED runVars)
    BY <1>4, SentMoves DEF SentMove, IsOutcome
  <2>2. CASE m \in Sent
    BY <1>0, <1>4, <2>2, UpFields, KnownStays DEF TurnInv
  <2>3. CASE m.run \in Runs /\ Working(m.run)
    <3>1. m.run \in In(work)
      BY <1>0, <2>3, InTail DEF Working
    <3>2. m.run \in Runs /\ Known(m.run)
      BY <2>3, <3>1 DEF TurnInv
    <3> QED
      BY <3>2, KnownStays
  <2> QED
    BY <2>1, <2>2, <2>3
<1> QED
  BY <1>1, <1>2, <1>3, <1>4

LEMMA TurnKept ==
    ASSUME TypeOK, SocketInv, ClosedInv, QuestionsInv, TurnInv, StepCases
    PROVE  TurnInv'
<1>0. /\ work \in Seq(Runs) /\ work' \in Seq(Runs) /\ toSandbox \in Seq(Down) /\ toSandbox' \in Seq(Down)
      /\ active \in Runs \cup {0} /\ active' \in Runs \cup {0} /\ 0 \notin Runs
      /\ \A m \in In(toSandbox) : m \in Down
      /\ \A m \in In(toSandbox') : m \in Down
      /\ \A r \in In(work') : r \in Runs
      /\ \A m \in Sent' : m \in Up
  <2>1. TypeOK'
    BY StepTyped DEF QuestionsInv
  <2> QED
    BY <2>1, InProperties, QuestionAssumption DEF TypeOK, SandboxTypeOK, SocketTypeOK, RunTypeOK, Sent
<1>1. /\ active' \notin over'
      /\ \A r \in In(work') : Known(r)'
      /\ \A m \in In(toSandbox') : m.type = "turn" => Known(m.run)'
      /\ \A m \in Sent' : IsOutcome(m) => Known(m.run)'
  BY KnownTurns
<1>2. CASE active' = 0
  <2>1. NoneBehind(work', 0) /\ 0 \notin In(work')
    BY <1>0, WorkInFront
  <2>2. \A m \in In(toSandbox') : m.type = "turn" => m.run # 0
    BY <1>0, DownFields
  <2>3. NoTurnBehind(toSandbox', 0)
    BY <1>0, <2>2, TurnsInFront
  <2>4. ~Complete'
    BY <1>0, <1>2, UpFields DEF Complete
  <2> QED
    BY <1>1, <1>2, <2>1, <2>3, <2>4 DEF TurnInv, LastTurn
<1>3. ASSUME NEW r \in Runs, Starts(r)
      PROVE  TurnInv'
  <2> DEFINE p == [type |-> "turn", run |-> r]
  <2>1. /\ p \in Down /\ Sends(<<p>>) /\ active = 0 /\ active' = r /\ r \notin over /\ work' = work
        /\ asks' = asks
    BY <1>3, Messages DEF Starts, sandboxVars
  <2> HIDE DEF p
  <2>2. ~Known(r)
    BY <1>0, <2>1 DEF Known
  <2>3. r \notin In(work) /\ \A m \in In(toSandbox) : m.type = "turn" => m.run # r
    BY <2>2 DEF TurnInv
  <2>4. NoneBehind(work', r) /\ r \notin In(work')
    BY <1>0, <2>1, <2>3, WorkInFront
  <2>5. NoTurnBehind(toSandbox, r) /\ NoTurnBehind(Append(toSandbox, p), r)
    BY <1>0, <2>1, <2>3, TurnsInFront
  <2>6. toSandbox' = toSandbox \/ toSandbox' = Append(toSandbox, p)
    BY <1>0, <2>1, AppendIsConcat DEF Sends
  <2>7. NoTurnBehind(toSandbox', r)
    BY <2>5, <2>6
  <2>8. ~Complete'
    <3> SUFFICES ASSUME NEW m \in Sent', m.type = "completed", m.run = r PROVE FALSE
      BY <2>1 DEF Complete
    <3>1. m \in Sent
      BY <1>0, <2>1, SentMoves DEF SentMove, IsOutcome, runVars
    <3> QED
      BY <2>2, <3>1 DEF TurnInv, IsOutcome
  <2> QED
    BY <1>1, <2>1, <2>4, <2>7, <2>8 DEF TurnInv, LastTurn
<1>4. CASE active' = active /\ active # 0 /\ FewerTurns
  <2>1. active \in Runs /\ NoneBehind(work, active) /\ NoTurnBehind(toSandbox, active)
        /\ (active \in In(work) => NoTurn)
    BY <1>0, <1>4 DEF TurnInv, LastTurn
  <2>2. NoTurnBehind(toSandbox', active)
    BY <1>4, <2>1 DEF FewerTurns
  <2>3. NoTurn => NoTurn'
    BY <1>4 DEF FewerTurns, NoTurn
  <2>4. NoneBehind(work', active) /\ (active \in In(work') => NoTurn')
    <3>1. CASE work' = work
      BY <2>1, <2>3, <3>1
    <3>2. CASE work' = <<>>
      BY <1>0, <3>2, InEmpty, WorkInFront
    <3>3. CASE work # <<>> /\ work' = Tail(work)
      <4>1. NoneBehind(Tail(work), active)
        BY <1>0, <2>1, <3>3, WorkInFront
      <4>2. In(Tail(work)) \subseteq In(work)
        BY <1>0, <3>3, InTail
      <4> QED
        BY <2>1, <2>3, <3>3, <4>1, <4>2
    <3>4. CASE /\ toSandbox # <<>> /\ Head(toSandbox).type = "turn" /\ toSandbox' = Tail(toSandbox)
               /\ work' = Append(work, Head(toSandbox).run)
      <4> DEFINE m == Head(toSandbox)
      <4>1. m \in Down /\ m \in In(toSandbox) /\ m.type = "turn" /\ work' = Append(work, m.run)
        BY <1>0, <3>4, InTail
      <4>2. m.run = active => \A n \in In(Tail(toSandbox)) : n.type # "turn"
        BY <1>0, <2>1, <3>4, TurnsInFront
      <4> HIDE DEF m
      <4>3. m.run \in Runs /\ active \notin In(work)
        BY <2>1, <4>1, DownFields DEF NoTurn
      <4>4. NoneBehind(Append(work, m.run), active) /\ In(Append(work, m.run)) = In(work) \cup {m.run}
        BY <1>0, <4>3, WorkInFront, InAppend
      <4>5. m.run = active => NoTurn'
        BY <3>4, <4>2 DEF NoTurn
      <4> QED
        BY <4>1, <4>3, <4>4, <4>5
    <3> QED
      BY <3>1, <3>2, <3>3, <3>4, WorkMoves DEF WorkMove
  <2>5. ASSUME Complete'
        PROVE  work' = <<>> /\ NoTurn' /\ \A q \in Asking : ~Waits(q)'
    <3>1. PICK m \in Sent' : m.type = "completed" /\ m.run = active
      BY <1>4, <2>5 DEF Complete
    <3>2. \/ m \in Sent
          \/ Working(active) /\ work' = Tail(work) /\ UNCHANGED <<asks, toSandbox>>
      BY <3>1, SentMoves DEF SentMove
    <3>3. CASE m \in Sent
      <4>1. work = <<>> /\ NoTurn /\ \A q \in Asking : ~Waits(q)
        BY <3>1, <3>3 DEF TurnInv, Complete
      <4>2. ~(toSandbox # <<>> /\ Head(toSandbox).type = "turn")
        BY <1>0, <4>1, InTail DEF NoTurn
      <4>3. work' = <<>>
        BY <4>1, <4>2, WorkMoves DEF WorkMove
      <4>4. \A q \in Asking : ~Waits(q)'
        BY <4>1, AsksMoves DEF AsksMove, Waits
      <4> QED
        BY <2>3, <4>1, <4>3, <4>4
    <3>4. CASE Working(active) /\ work' = Tail(work) /\ UNCHANGED <<asks, toSandbox>>
      <4>1. work # <<>> /\ Head(work) = active /\ \A q \in Asking : ~Waits(q)
        BY <3>4 DEF Working
      <4>2. Tail(work) = <<>> /\ active \in In(work)
        BY <1>0, <2>1, <4>1, WorkInFront, InTail
      <4>3. \A q \in Asking : ~Waits(q)'
        BY <3>4, <4>1 DEF Waits
      <4> QED
        BY <2>1, <2>3, <3>4, <4>2, <4>3
    <3> QED
      BY <3>2, <3>3, <3>4
  <2> QED
    BY <1>1, <1>4, <2>2, <2>4, <2>5 DEF TurnInv, LastTurn
<1> QED
  BY <1>2, <1>3, <1>4, OverMoves, TurnsOnTheWay

-----------------------------------------------------------------------------
(* Pull requests *)

PullMove(i) ==
    \/ pulls'[i] = pulls[i]
    \/ pulls[i] = "unasked" /\ pulls'[i] = "waiting"
    \/ pulls[i] = "waiting" /\ pulls'[i] \in {"timedOut", "killed"}
    \/ pulls[i] = "waiting" /\ pulls'[i] = "told" /\ Pulled(i, TRUE)
    \/ pulls[i] = "waiting" /\ pulls'[i] = "failed" /\ Pulled(i, FALSE)

LEMMA PullsMove ==
    ASSUME TypeOK, StepCases
    PROVE  \A i \in Pulls : PullMove(i)
<1>0. pulls \in [Pulls -> PullStates] /\ toSandbox \in Seq(Down)
  BY DEF TypeOK, PullTypeOK, SocketTypeOK
<1>1. pulls' = pulls => \A i \in Pulls : PullMove(i)
  BY DEF PullMove
<1>2. CASE SandboxReceives
  <2> DEFINE m == Head(toSandbox)
  <2>1. /\ m \in In(toSandbox) /\ m \in Down
        /\ pulls' = pulls \/ (m.type = "pulled" /\ PullResolved(m))
    BY <1>0, <1>2, InTail DEF SandboxReceives
  <2> HIDE DEF m
  <2>2. CASE m.type = "pulled" /\ PullResolved(m)
    <3>1. m.id \in Pulls /\ m.url \in BOOLEAN
      BY <2>1, <2>2, DownFields
    <3>2. \A i \in Pulls : pulls'[i] = pulls[i]
             \/ (i = m.id /\ pulls[i] = "waiting" /\ pulls'[i] = IF m.url THEN "told" ELSE "failed")
      BY <2>2 DEF PullResolved, PullOf
    <3>3. CASE m.url = TRUE
      <4>1. Pulled(m.id, TRUE)
        BY <2>1, <2>2, <3>3 DEF Pulled
      <4> QED
        BY <3>2, <3>3, <4>1 DEF PullMove
    <3>4. CASE m.url = FALSE
      <4>1. Pulled(m.id, FALSE)
        BY <2>1, <2>2, <3>4 DEF Pulled
      <4> QED
        BY <3>2, <3>4, <4>1 DEF PullMove
    <3> QED
      BY <3>1, <3>3, <3>4
  <2> QED
    BY <1>1, <2>1, <2>2
<1>3. CASE SessionEnds
  BY <1>3 DEF SessionEnds, PullMove
<1>4. ASSUME NEW r \in Runs, NEW j \in Pulls, AsksForPull(r, j)
      PROVE  \A i \in Pulls : PullMove(i)
  BY <1>0, <1>4 DEF AsksForPull, PullMove
<1>5. ASSUME NEW j \in Pulls, PullTimesOut(j)
      PROVE  \A i \in Pulls : PullMove(i)
  BY <1>0, <1>5 DEF PullTimesOut, PullMove
<1>6. SomebodyAnswers => pulls' = pulls
  BY AnswerSteps DEF pullVars
<1>7. Breaks \/ SocketRecovers \/ ObjectReceives \/ Aborts \/ (\E r \in Runs : Starts(r)) => pulls' = pulls
  BY DEF Breaks, SocketRecovers, ObjectNotices, SandboxNotices, Reconnects, ObjectReceives, Aborts,
         Starts, pullVars
<1>8. \/ \E r \in Runs, type \in {"completed", "failed"} : TurnEnds(r, type)
      \/ \E q \in Asking, policy \in Policies, shape \in Shapes : q \in Runs /\ Asks(q, policy, shape)
      => pulls' = pulls
  BY DEF TurnEnds, Asks, pullVars
<1>9. \/ \E q \in Asking : TimesOut(q) \/ CardAppears(q) \/ ModalOpens(q)
      \/ \E q \in Asking, p \in Web, to \in Web : Assigns(p, q, to)
      \/ \E u \in updates : CardIsUpdated(u)
      \/ \E c \in calls : GitHubAnswers(c)
      => pulls' = pulls
  BY DEF TimesOut, CardAppears, ModalOpens, Assigns, CardIsUpdated, GitHubAnswers, pullVars
<1> QED
  BY <1>1, <1>2, <1>3, <1>4, <1>5, <1>6, <1>7, <1>8, <1>9 DEF StepCases

\* GitHub's side changes only when it is asked and when it answers.
LEMMA CallsStay ==
    ASSUME StepCases, ~GitHubIsAsked, ~\E c \in calls : GitHubAnswers(c)
    PROVE  opened' = opened /\ (calls' = calls \/ calls' = CutOff)
<1>1. CASE ObjectReceives
  <2>1. UNCHANGED Before
        /\ (HearsAsk(Head(toObject)) \/ HearsComplete(Head(toObject)) \/ HearsFailed(Head(toObject))
            \/ HearsOld(Head(toObject)))
    BY <1>1, ObjectHears DEF GitHubIsAsked
  <2> QED
    BY <2>1 DEF Before, HearsAsk, HearsComplete, HearsFailed, HearsOld
<1>2. SomebodyAnswers => UNCHANGED pullVars
  BY AnswerSteps
<1>3. Breaks \/ SocketRecovers \/ SandboxReceives \/ SessionEnds
      => opened' = opened /\ (calls' = calls \/ calls' = CutOff)
  BY DEF Breaks, SocketRecovers, ObjectNotices, SandboxNotices, Reconnects, SandboxReceives, SessionEnds,
         pullVars
<1>4. \/ Aborts \/ \E r \in Runs : Starts(r)
      \/ \E r \in Runs, type \in {"completed", "failed"} : TurnEnds(r, type)
      \/ \E q \in Asking, policy \in Policies, shape \in Shapes : q \in Runs /\ Asks(q, policy, shape)
      \/ \E r \in Runs, i \in Pulls : AsksForPull(r, i)
      => UNCHANGED <<calls, opened>>
  BY DEF Aborts, Starts, TurnEnds, Asks, AsksForPull, pullVars
<1>5. \/ \E q \in Asking : TimesOut(q) \/ CardAppears(q) \/ ModalOpens(q)
      \/ \E q \in Asking, p \in Web, to \in Web : Assigns(p, q, to)
      \/ \E i \in Pulls : PullTimesOut(i)
      \/ \E u \in updates : CardIsUpdated(u)
      => UNCHANGED <<calls, opened>>
  BY DEF TimesOut, CardAppears, ModalOpens, Assigns, PullTimesOut, CardIsUpdated, pullVars
<1> QED
  BY <1>1, <1>2, <1>3, <1>4, <1>5 DEF StepCases, pullVars

\* The sandbox asks, hears or gives up.
LEMMA PullMoves ==
    ASSUME TypeOK, SocketInv, QuestionsInv, PullsInv, StepCases,
           ~GitHubIsAsked, ~\E c \in calls : GitHubAnswers(c)
    PROVE  PullsInv'
<1>0. calls \in SUBSET CallRows
  BY DEF TypeOK, PullTypeOK
<1>1. opened' = opened /\ (calls' = calls \/ calls' = CutOff)
  BY CallsStay
<1>2. \A i \in Pulls : AtGitHub(i)' => AtGitHub(i)
  BY <1>0, <1>1, CutOffCalls DEF AtGitHub
<1>3. \A i \in Pulls : (Pulled(i, TRUE)' => Pulled(i, TRUE)) /\ (Pulled(i, FALSE)' => Pulled(i, FALSE))
  BY RepliesMove DEF ReplyMove, Pulled
<1>4. ASSUME NEW i \in Pulls
      PROVE  PullOK(i)'
  <2>1. PullMove(i) /\ PullOK(i)
    BY PullsMove DEF PullsInv
  <2>2. PullSent(i)' => PullSent(i) \/ (pulls[i] = "unasked" /\ pulls' = [pulls EXCEPT ![i] = "waiting"])
    BY SentMoves DEF PullSent, SentMove, IsOutcome
  <2>3. pulls' = [pulls EXCEPT ![i] = "waiting"] => pulls'[i] = "waiting"
    BY DEF TypeOK, PullTypeOK
  <2> QED
    BY <1>1, <1>2, <1>3, <2>1, <2>2, <2>3 DEF PullOK, PullMove
<1>5. \A c, d \in calls' : c.id = d.id => c = d
  <2>1. CASE calls' = calls
    BY <2>1 DEF PullsInv
  <2>2. CASE calls' = CutOff
    <3> SUFFICES ASSUME NEW c \in CutOff, NEW d \in CutOff, c.id = d.id PROVE c = d
      BY <2>2
    <3>1. PICK a \in calls : a.id = c.id /\ c = [a EXCEPT !.here = FALSE]
      BY <1>0, CutOffCalls
    <3>2. PICK b \in calls : b.id = d.id /\ d = [b EXCEPT !.here = FALSE]
      BY <1>0, CutOffCalls
    <3>3. a = b
      BY <3>1, <3>2 DEF PullsInv
    <3> QED
      BY <3>1, <3>2, <3>3
  <2> QED
    BY <1>1, <2>1, <2>2
<1> QED
  BY <1>4, <1>5 DEF PullsInv

\* handleCreatePullRequestRequest.
LEMMA PullIsAsked ==
    ASSUME TypeOK, SocketInv, QuestionsInv, PullsInv, GitHubIsAsked
    PROVE  PullsInv'
<1> DEFINE m == Head(toObject)
<1>0. toObject \in Seq(Up) /\ calls \in SUBSET CallRows /\ toSandbox \in Seq(Down) /\ outbox \in Seq(Up)
  BY DEF TypeOK, SocketTypeOK, PullTypeOK
<1>1. TakesNext /\ UNCHANGED Before /\ m.type = "pull" /\ PullAsked(m)
  BY ObjectHears DEF GitHubIsAsked, HearsPull
<1>2. m \in Up /\ m \in Sent
  BY <1>0, <1>1, InTail DEF TakesNext, Sent
<1>3. /\ Sent' = In(Tail(toObject))
      /\ In(Tail(toObject)) \subseteq Sent
      /\ \A n \in In(Tail(toObject)) : n.type = "pull" => n.id # m.id
  <2>1. toObject # <<>> /\ toObject' = Tail(toObject) /\ outbox' = <<>>
    BY <1>1 DEF TakesNext, Before, SocketInv
  <2>2. Once(toObject)
    BY DEF SocketInv
  <2> QED
    BY <1>0, <1>1, <2>1, <2>2, OnceTail, InEmpty, InTail DEF Sent
<1> HIDE DEF m
<1>4. PICK i \in Pulls : m.id = i
  BY <1>1, <1>2, UpFields
<1>5. PullSent(i) /\ PullOK(i) /\ ~PullSent(i)' /\ \A j \in Pulls : PullSent(j)' => PullSent(j)
  BY <1>1, <1>2, <1>3, <1>4 DEF PullSent, PullsInv
<1>6. pulls' = pulls /\ opened' = opened
  BY <1>1 DEF Before
<1>7. CASE calls' = calls \cup {[id |-> i, attempt |-> 1, here |-> TRUE]} /\ UNCHANGED toSandbox
  <2> DEFINE k == [id |-> i, attempt |-> 1, here |-> TRUE]
  <2>1. calls' = calls \cup {k} /\ k.id = i
    BY <1>7
  <2> HIDE DEF k
  <2>2. \A j \in Pulls : j # i => (AtGitHub(j)' => AtGitHub(j))
    BY <2>1 DEF AtGitHub
  <2>3. \A j \in Pulls, u \in BOOLEAN : Pulled(j, u)' => Pulled(j, u)
    BY <1>7 DEF Pulled
  <2>4. PullOK(i)'
    BY <1>5, <1>6, <2>3 DEF PullOK
  <2>5. \A j \in Pulls : j # i => PullOK(j)'
    BY <1>5, <1>6, <2>2, <2>3 DEF PullOK, PullsInv
  <2>6. \A c, d \in calls' : c.id = d.id => c = d
    BY <1>5, <2>1 DEF PullsInv, PullOK, AtGitHub
  <2> QED
    BY <2>4, <2>5, <2>6 DEF PullsInv
<1>8. CASE Sends(<<[type |-> "pulled", id |-> i, url |-> FALSE]>>) /\ UNCHANGED calls
  <2> DEFINE p == [type |-> "pulled", id |-> i, url |-> FALSE]
  <2>1. p \in Down /\ p.id = i /\ p.url = FALSE
    BY Messages
  <2>2. Sends(<<p>>)
    BY <1>8
  <2> HIDE DEF p
  <2>3. In(toSandbox') \subseteq In(toSandbox) \cup {p}
    <3>1. <<p>> \in Seq(Down)
      BY <2>1
    <3> QED
      BY <1>0, <2>2, <3>1, SentDown, InOne
  <2>4. \A j \in Pulls : AtGitHub(j)' => AtGitHub(j)
    BY <1>8 DEF AtGitHub
  <2>5. /\ \A j \in Pulls : Pulled(j, TRUE)' => Pulled(j, TRUE)
        /\ \A j \in Pulls : j # i => (Pulled(j, FALSE)' => Pulled(j, FALSE))
    BY <2>1, <2>3 DEF Pulled
  <2>6. PullOK(i)'
    BY <1>5, <1>6, <2>4, <2>5 DEF PullOK
  <2>7. \A j \in Pulls : j # i => PullOK(j)'
    BY <1>5, <1>6, <2>4, <2>5 DEF PullOK, PullsInv
  <2>8. \A c, d \in calls' : c.id = d.id => c = d
    BY <1>8 DEF PullsInv
  <2> QED
    BY <2>6, <2>7, <2>8 DEF PullsInv
<1> QED
  BY <1>1, <1>4, <1>7, <1>8 DEF PullAsked

\* createDraftPullRequest: one more attempt, or its outcome.
LEMMA PullIsAnswered ==
    ASSUME TypeOK, PullsInv, NEW c \in calls, GitHubAnswers(c)
    PROVE  PullsInv'
<1>0. /\ calls \in SUBSET CallRows /\ toSandbox \in Seq(Down) /\ opened \in [Pulls -> {"no", "heard", "unheard"}]
      /\ c.id \in Pulls
  BY DEF TypeOK, SocketTypeOK, PullTypeOK, CallRows
<1> DEFINE i == c.id
<1>1. /\ AtGitHub(i) /\ PullOK(i)
      /\ \A d \in calls : d.id = i => d = c
  BY <1>0 DEF AtGitHub, PullsInv
<1>2. /\ UNCHANGED <<pulls, toObject, outbox>>
      /\ \/ opened[i] = "no" /\ opened' = [opened EXCEPT ![i] = "heard"] /\ Replies(c, TRUE)
         \/ opened' = [opened EXCEPT ![i] = "unheard"] /\ TriesAgain(c)
         \/ opened' = opened /\ TriesAgain(c)
  BY DEF GitHubAnswers
<1>3. \A j \in Pulls : PullSent(j)' <=> PullSent(j)
  BY <1>2 DEF PullSent, Sent
<1>4. \A j \in Pulls : j # i => opened'[j] = opened[j]
  BY <1>0, <1>2
<1>5. ASSUME NEW url \in BOOLEAN, Replies(c, url)
      PROVE  /\ ~AtGitHub(i)' /\ ~Pulled(i, ~url)'
             /\ \A j \in Pulls : AtGitHub(j)' => AtGitHub(j)
             /\ \A j \in Pulls, u \in BOOLEAN : j # i => (Pulled(j, u)' => Pulled(j, u))
             /\ \A a, b \in calls' : a.id = b.id => a = b
  <2> DEFINE p == [type |-> "pulled", id |-> i, url |-> url]
  <2>1. calls' = calls \ {c} /\ (toSandbox' = toSandbox \/ toSandbox' = Append(toSandbox, p))
    BY <1>5 DEF Replies
  <2>2. p \in Down /\ p.id = i /\ p.url = url
    BY <1>0, Messages
  <2> HIDE DEF p
  <2>3. In(Append(toSandbox, p)) = In(toSandbox) \cup {p}
    BY <1>0, <2>2, InAppend
  <2>4. \A n \in In(toSandbox') : n \in In(toSandbox) \/ n = p
    BY <2>1, <2>3
  <2>5. ~Pulled(i, ~url)'
    <3>1. ~Pulled(i, TRUE) /\ ~Pulled(i, FALSE)
      BY <1>1 DEF PullOK
    <3>2. CASE url = TRUE
      BY <2>2, <2>4, <3>1, <3>2 DEF Pulled
    <3>3. CASE url = FALSE
      BY <2>2, <2>4, <3>1, <3>3 DEF Pulled
    <3> QED
      BY <3>2, <3>3
  <2>6. \A j \in Pulls, u \in BOOLEAN : j # i => (Pulled(j, u)' => Pulled(j, u))
    BY <2>2, <2>4 DEF Pulled
  <2>7. ~AtGitHub(i)' /\ \A j \in Pulls : AtGitHub(j)' => AtGitHub(j)
    BY <1>1, <2>1 DEF AtGitHub
  <2>8. \A a, b \in calls' : a.id = b.id => a = b
    BY <2>1 DEF PullsInv
  <2> QED
    BY <2>5, <2>6, <2>7, <2>8
\* What the object hears is what became of the request, or it hears nothing.
<1>6. ASSUME NEW url \in BOOLEAN, Replies(c, url), url <=> opened'[i] = "heard"
      PROVE  PullsInv'
  <2>1. PullOK(i)'
    <3>1. ~PullSent(i)' /\ ~AtGitHub(i)' /\ pulls'[i] \notin {"told", "failed", "unasked"}
      BY <1>0, <1>1, <1>2, <1>3, <1>5, <1>6 DEF PullOK
    <3>2. CASE url = TRUE
      <4>1. ~Pulled(i, FALSE)'
        BY <1>5, <1>6, <3>2
      <4> QED
        BY <1>6, <3>1, <3>2, <4>1 DEF PullOK
    <3>3. CASE url = FALSE
      <4>1. ~Pulled(i, TRUE)'
        BY <1>5, <1>6, <3>3
      <4> QED
        BY <1>6, <3>1, <3>3, <4>1 DEF PullOK
    <3> QED
      BY <3>2, <3>3
  <2>2. ASSUME NEW j \in Pulls, j # i
        PROVE  PullOK(j)'
    <3>1. PullOK(j) /\ opened'[j] = opened[j] /\ pulls' = pulls /\ (PullSent(j)' <=> PullSent(j))
          /\ (AtGitHub(j)' => AtGitHub(j))
          /\ (Pulled(j, TRUE)' => Pulled(j, TRUE)) /\ (Pulled(j, FALSE)' => Pulled(j, FALSE))
      BY <1>2, <1>3, <1>4, <1>5, <1>6, <2>2 DEF PullsInv
    <3> QED
      BY <3>1 DEF PullOK
  <2> QED
    BY <1>5, <1>6, <2>1, <2>2 DEF PullsInv
<1>7. ASSUME calls' = (calls \ {c}) \cup {[c EXCEPT !.attempt = @ + 1]}, UNCHANGED toSandbox,
             opened'[i] # "heard"
      PROVE  PullsInv'
  <2> DEFINE k == [c EXCEPT !.attempt = @ + 1]
  <2>1. calls' = (calls \ {c}) \cup {k} /\ k.id = i
    BY <1>0, <1>7 DEF CallRows
  <2> HIDE DEF k
  <2>2. \A j \in Pulls : AtGitHub(j)' => AtGitHub(j)
    BY <1>1, <2>1 DEF AtGitHub
  <2>3. \A j \in Pulls, u \in BOOLEAN : Pulled(j, u)' => Pulled(j, u)
    BY <1>7 DEF Pulled
  <2>4. PullOK(i)'
    <3>1. ~PullSent(i)' /\ ~Pulled(i, TRUE)' /\ ~Pulled(i, FALSE)'
          /\ pulls'[i] \notin {"told", "failed", "unasked"}
      BY <1>0, <1>1, <1>2, <1>3, <2>3 DEF PullOK
    <3> QED
      BY <1>7, <3>1 DEF PullOK
  <2>5. ASSUME NEW j \in Pulls, j # i
        PROVE  PullOK(j)'
    <3>1. PullOK(j) /\ opened'[j] = opened[j] /\ pulls' = pulls /\ (PullSent(j)' <=> PullSent(j))
          /\ (AtGitHub(j)' => AtGitHub(j))
          /\ (Pulled(j, TRUE)' => Pulled(j, TRUE)) /\ (Pulled(j, FALSE)' => Pulled(j, FALSE))
      BY <1>2, <1>3, <1>4, <2>2, <2>3, <2>5 DEF PullsInv
    <3> QED
      BY <3>1 DEF PullOK
  <2>6. \A a, b \in calls' : a.id = b.id => a = b
    BY <1>1, <2>1 DEF PullsInv
  <2> QED
    BY <2>4, <2>5, <2>6 DEF PullsInv
<1>8. CASE opened' = [opened EXCEPT ![i] = "heard"] /\ Replies(c, TRUE)
  BY <1>0, <1>6, <1>8
<1>9. CASE (opened' = [opened EXCEPT ![i] = "unheard"] \/ opened' = opened) /\ TriesAgain(c)
  <2>1. opened'[i] # "heard"
    BY <1>0, <1>1, <1>9 DEF PullOK
  <2> QED
    BY <1>6, <1>7, <1>9, <2>1 DEF TriesAgain
<1> QED
  BY <1>2, <1>8, <1>9

-----------------------------------------------------------------------------
(* The theorems *)

LEMMA InvKept ==
    ASSUME Inv, StepCases
    PROVE  Inv'
<1>1. /\ TypeOK /\ SocketInv /\ ClosedInv /\ QuestionsInv /\ WayInv /\ TurnInv
      /\ OverRunsAskNothing /\ PullsInv
  BY DEF Inv
<1>2. TypeOK'
  BY <1>1, StepTyped DEF QuestionsInv
<1>3. SocketInv' /\ ClosedInv'
  BY SocketKept
<1>4. QuestionsInv' /\ WayInv'
  BY <1>1, QuestionsKept, WayKept
<1>5. TurnInv' /\ OverRunsAskNothing'
  BY <1>1, TurnKept, OverKept
<1>6. PullsInv'
  BY <1>1, PullMoves, PullIsAsked, PullIsAnswered
<1> QED
  BY <1>2, <1>3, <1>4, <1>5, <1>6 DEF Inv

LEMMA InvStutters ==
    ASSUME Inv, UNCHANGED vars
    PROVE  Inv'
<1>1. UNCHANGED <<active, over, closed, work, agent, asks, pulls, calls, opened, rows,
                  toObject, toSandbox, outbox, wire, live, open, cards, modals, updates, faults>>
  BY DEF vars
<1>2. TypeOK'
  BY <1>1 DEF Inv, TypeOK, RunTypeOK, SandboxTypeOK, PullTypeOK, SocketTypeOK, SlackTypeOK
<1>3. SocketInv' /\ ClosedInv'
  BY <1>1 DEF Inv, SocketInv, ClosedInv, Waits
<1>4. QuestionsInv'
  <2>1. /\ \A q \in Asking : QuestionOK(q)' <=> QuestionOK(q)
        /\ \A m \in In(toSandbox) : ReplyOK(m)' <=> ReplyOK(m)
        /\ \A u \in updates : UpdateOK(u)' <=> UpdateOK(u)
    BY <1>1 DEF QuestionOK, AskSent, Sent, RightfulAnswer, CanAnswer, ReplyOK, UpdateOK
  <2>2. {q \in Asking : IsOpen(q)}' = {q \in Asking : IsOpen(q)}
    BY <1>1 DEF IsOpen
  <2> QED
    BY <1>1, <2>1, <2>2 DEF Inv, QuestionsInv
<1>5. WayInv' /\ OverRunsAskNothing'
  BY <1>1 DEF Inv, WayInv, Waits, Decided, OnItsWay, Outcome, OverRunsAskNothing
<1>6. TurnInv'
  BY <1>1 DEF Inv, TurnInv, Known, Sent, IsOutcome, LastTurn, NoTurn, Complete, Waits
<1>7. PullsInv'
  <2>1. \A i \in Pulls : PullOK(i)' <=> PullOK(i)
    BY <1>1 DEF PullOK, PullSent, Sent, AtGitHub, Pulled
  <2> QED
    BY <1>1, <2>1 DEF Inv, PullsInv
<1> QED
  BY <1>2, <1>3, <1>4, <1>5, <1>6, <1>7 DEF Inv

LEMMA InvInitially == Init => Inv
<1> SUFFICES ASSUME Init PROVE Inv
  OBVIOUS
<1>1. /\ active = 0 /\ over = {} /\ closed = FALSE /\ work = <<>>
      /\ pulls = [i \in Pulls |-> "unasked"] /\ calls = {} /\ opened = [i \in Pulls |-> "no"]
      /\ asks = [q \in Asking |-> Unasked] /\ rows = [q \in Asking |-> NoRow]
      /\ toObject = <<>> /\ toSandbox = <<>> /\ outbox = <<>>
      /\ wire = TRUE /\ live = TRUE /\ open = TRUE
      /\ cards = [q \in Asking |-> [shows |-> "nothing", answer |-> NoAnswer]]
      /\ updates = {}
  BY DEF Init
<1>2. Sent = {} /\ In(toSandbox) = {} /\ In(work) = {}
  BY <1>1, InEmpty DEF Sent
<1>3. \A q \in Asking : asks[q].state = "unasked" /\ rows[q].status = "none" /\ cards[q].shows = "nothing"
  BY <1>1 DEF Unasked, NoRow
<1>4. SocketInv /\ ClosedInv
  BY <1>1, OnceEmpty DEF SocketInv, ClosedInv
<1>5. QuestionsInv
  <2>1. \A q \in Asking : QuestionOK(q)
    BY <1>2, <1>3 DEF QuestionOK, AskSent, RightfulAnswer
  <2>2. {q \in Asking : IsOpen(q)} = {}
    BY <1>3 DEF IsOpen
  <2> QED
    BY <1>1, <1>2, <2>1, <2>2, FS_EmptySet DEF QuestionsInv
<1>6. WayInv /\ OverRunsAskNothing
  BY <1>3 DEF WayInv, Waits, OverRunsAskNothing
<1>7. TurnInv
  <2>1. NoneBehind(<<>>, active) /\ NoTurnBehind(<<>>, active)
    BY DEF NoneBehind, NoTurnBehind
  <2> QED
    BY <1>1, <1>2, <2>1 DEF TurnInv, LastTurn, Complete
<1>8. PullsInv
  <2>1. \A i \in Pulls : PullOK(i)
    BY <1>1, <1>2 DEF PullOK, PullSent, AtGitHub, Pulled
  <2> QED
    BY <1>1, <2>1 DEF PullsInv
<1> QED
  BY <1>4, <1>5, <1>6, <1>7, <1>8, InitialTypes DEF Inv

\* The variables have their types, and a question or a pull request is where the
\* invariant says: on its way, in its row or at GitHub, or on its way back.
THEOREM AgentCallsInvariant == Spec => []Inv
<1>1. Inv /\ [Next]_vars => Inv'
  BY EveryStep, InvKept, InvStutters
<1> QED
  BY InvInitially, <1>1, PTL DEF Spec

\* The first valid answer wins: the agent is told, and Slack shows, what the row
\* accepted, from somebody the question's policy lets answer
\* (applyQuestionAnswer, handleAskQuestionResponse).
THEOREM FirstAnswerWins == Spec => []AcceptedAnswerStands
<1>1. Inv => AcceptedAnswerStands
  BY DEF Inv, QuestionsInv, QuestionOK, RightfulAnswer, AcceptedAnswerStands
<1> QED
  BY AgentCallsInvariant, <1>1, PTL

\* A run that is over has no open question, but for one raised late or one the
\* agent gave up (cancelOpenQuestions, handleSandboxAgentTurnComplete).
THEOREM NoQuestionOutlivesItsRun == Spec => []OverRunsAskNothing
<1>1. Inv => OverRunsAskNothing
  BY DEF Inv
<1> QED
  BY AgentCallsInvariant, <1>1, PTL

\* Until a socket breaks, an agent that waits for a question that was decided
\* has the outcome on its way (sendToSandbox).
THEOREM NobodyWaitsInVain == Spec => []OutcomeIsOnItsWay
<1>1. Inv => OutcomeIsOnItsWay
  <2> SUFFICES ASSUME Inv, NEW q \in Asking, Waits(q), rows[q].status \in {"answered", "cancelled"}, faults = 0
               PROVE  \E i \in DOMAIN toSandbox :
                         /\ toSandbox[i].type = IF rows[q].status = "answered" THEN "answer" ELSE "cancel"
                         /\ toSandbox[i].id = q
    BY DEF OutcomeIsOnItsWay
  <2>1. PICK m \in In(toSandbox) : m.type = Outcome(q) /\ m.id = q
    BY DEF Inv, WayInv, Decided, OnItsWay
  <2>2. toSandbox \in Seq(Down)
    BY DEF Inv, TypeOK, SocketTypeOK
  <2>3. PICK i \in 1 .. Len(toSandbox) : m = toSandbox[i]
    BY <2>2, InProperties
  <2>4. i \in DOMAIN toSandbox
    BY <2>2, <2>3
  <2> QED
    BY <2>1, <2>3, <2>4 DEF Outcome
<1> QED
  BY AgentCallsInvariant, <1>1, PTL

\* The agent is told of the request GitHub opened for it, and that it failed only
\* when GitHub's answer never came (createDraftPullRequest,
\* handleCreatePRResponse).
THEOREM EveryAgentHearsOfItsOwnPull == Spec => []PullRequestIsOwn
<1>1. Inv => PullRequestIsOwn
  BY DEF Inv, PullsInv, PullOK, PullRequestIsOwn
<1> QED
  BY AgentCallsInvariant, <1>1, PTL
=============================================================================
