--------------------------- MODULE PlanReviewProofs ---------------------------
(***************************************************************************)
(* The review of plans, for any number of participants, runs, rounds,      *)
(* threads and replies: what pages show of the last frozen revision is     *)
(* what the tables hold, and no feedback is lost until the late plan of an *)
(* aborted run is frozen.                                                  *)
(*                                                                         *)
(* Revisions are frozen in the order of runs and rounds, and never behind  *)
(* the one that is current; pages follow the tables step by step.  For the *)
(* feedback: as long as no late plan was frozen, a plan is asked for once, *)
(* after the revision before it was locked; a locked revision stays so,    *)
(* thus its threads stay what the request said of them until they are      *)
(* consumed by the plan that answers it.                                   *)
(***************************************************************************)
EXTENDS MCPlanReview, SequenceTheorems, TLAPS

PlanTypes == {"plan", "refine_plan"}
Requests == [type : PlanTypes \cup {"execute", "consolidate_annotations"}, key : Keys,
             feedback : SUBSET [thread : Nat, replies : Nat]]
Rows == [locked : BOOLEAN, plan : Requests]
Threads == [key : Keys, author : Participants, status : {"open", "withdrawn", "consumed"},
            replies : Nat]
Views == [revision : {None} \cup [key : Keys, locked : BOOLEAN],
          threads : UNION {[S -> Threads] : S \in SUBSET Nat}]

\* Tables, requests and views have their types.
TypeOK ==
    /\ state \in {"ready", "planning", "awaiting_approval", "refining", "executing", "failed"}
    /\ run \in 0 .. MaxRuns /\ round \in 0 .. MaxRefinementRounds
    /\ revisions \in [Keys -> {None} \cup Rows]
    /\ threads \in Seq(Threads) /\ work \in Seq(Requests) /\ view \in Views

\* Keys are in the order of runs and rounds.
NotAfter(k, l) == k[1] < l[1] \/ (k[1] = l[1] /\ k[2] <= l[2])
IsFrozen(k) == revisions[k] # None
IsLast(k) == IsFrozen(k) /\ \A l \in Keys : IsFrozen(l) => NotAfter(l, k)

\* What is frozen, discussed or asked for is not ahead of what is current.
OrderInv ==
    /\ state \in {"planning", "awaiting_approval", "refining", "executing"} => run > 0
    /\ state = "awaiting_approval" => IsFrozen(Current)
    /\ \A k \in Keys : IsFrozen(k) => NotAfter(k, Current)
    /\ \A i \in DOMAIN threads : IsFrozen(threads[i].key)
    /\ \A j \in DOMAIN work :
         /\ NotAfter(work[j].key, Current)
         /\ work[j].type = "consolidate_annotations" =>
              IsFrozen(work[j].key) /\ work[j].key[2] < MaxRefinementRounds

\* Pages follow the tables: they show some threads, among them all of the last
\* revision.
ViewInv ==
    \/ view = EmptyView /\ \A k \in Keys : ~IsFrozen(k)
    \/ \E k \in Keys :
         /\ IsLast(k) /\ view.revision = [key |-> k, locked |-> revisions[k].locked]
         /\ DOMAIN view.threads \subseteq DOMAIN threads
         /\ \A i \in DOMAIN threads : threads[i].key = k => i \in DOMAIN view.threads
         /\ \A i \in DOMAIN view.threads : view.threads[i] = threads[i]

PageInv == TypeOK /\ OrderInv /\ ViewInv

-----------------------------------------------------------------------------
\* The revision a refinement starts from is locked, and what was asked for the
\* next one says all of its open threads.
Before(k) == <<k[1], k[2] - 1>>
IsLocked(k) == IsFrozen(k) /\ revisions[k].locked
Says(feedback, i) == [thread |-> i, replies |-> threads[i].replies] \in feedback
SaysOpen(m, k) ==
    IsLocked(k) /\ \A i \in DOMAIN threads : IsOpenOn(threads[i], k) => Says(m.feedback, i)

\* A plan is asked for once, and is kept under its own key.
AskedOnce ==
    /\ \A k \in Keys : IsFrozen(k) => revisions[k].plan.key = k
    /\ \A i \in DOMAIN work : work[i].type \in PlanTypes =>
         /\ ~IsFrozen(work[i].key)
         /\ \A j \in DOMAIN work : work[j].type \in PlanTypes /\ work[j].key = work[i].key => j = i

BriefsAreComplete ==
    \A j \in DOMAIN work :
      /\ work[j].type = "consolidate_annotations" => SaysOpen(work[j], work[j].key)
      /\ work[j].type \in PlanTypes /\ work[j].key[2] > 0 => SaysOpen(work[j], Before(work[j].key))

\* Threads are consumed by the next revision only, which was written from them.
ConsumedByNext ==
    /\ \A k \in Keys : k[2] > 0 /\ IsFrozen(k) => IsLocked(Before(k))
    /\ \A i \in DOMAIN threads : threads[i].status = "consumed" =>
         \E k \in Keys : k[2] > 0 /\ IsFrozen(k) /\ threads[i].key = Before(k)
    /\ NoFeedbackIsLost

Attentive == AskedOnce /\ BriefsAreComplete /\ ConsumedByNext
FeedbackInv == late \/ Attentive

-----------------------------------------------------------------------------
(* Rows, requests and keys *)

\* A row or a revision that is shown is not an absent one.
LEMMA RowsArePresent ==
  /\ None \notin Rows /\ None \notin [key : Keys, locked : BOOLEAN]
  /\ \A r \in Rows : r = [locked |-> r.locked, plan |-> r.plan] /\ r.locked \in BOOLEAN
                       /\ r.plan \in Requests
  BY DEF None, Rows

LEMMA RowTypes ==
  ASSUME TypeOK, NEW k \in Keys, IsFrozen(k)
  PROVE  revisions[k] \in Rows
  BY RowsArePresent DEF TypeOK, IsFrozen

\* While a run is on, its current key is one of the table's.
LEMMA CurrentIsKey ==
  ASSUME TypeOK, run > 0
  PROVE  Current \in Keys /\ Current[1] = run /\ Current[2] = round
  BY ReviewAssumption DEF TypeOK, Current, Keys

LEMMA KeyParts ==
  ASSUME NEW k \in Keys
  PROVE  k[1] \in 1 .. MaxRuns /\ k[2] \in 0 .. MaxRefinementRounds /\ k = <<k[1], k[2]>>
  BY DEF Keys

\* Two keys that are not after one another are the same.
LEMMA KeysAreOrdered ==
  ASSUME NEW k \in Keys, NEW l \in Keys, NotAfter(k, l), NotAfter(l, k)
  PROVE  k = l
<1>1. k[1] \in Int /\ k[2] \in Int /\ l[1] \in Int /\ l[2] \in Int
  BY KeyParts, ReviewAssumption
<1>2. k[1] = l[1] /\ k[2] = l[2]
  BY <1>1 DEF NotAfter
<1> QED
  BY <1>2, KeyParts

\* The order of keys goes on along runs and rounds.
LEMMA OrderGoesOn ==
  ASSUME TypeOK, NEW k \in Keys, NotAfter(k, Current)
  PROVE  /\ \A n \in Nat : NotAfter(k, <<run, round + n>>)
         /\ NotAfter(k, <<run + 1, 0>>)
<1>1. k[1] \in Int /\ k[2] \in Int /\ run \in Int /\ round \in Int
  BY KeyParts, ReviewAssumption DEF TypeOK
<1> QED
  BY <1>1 DEF NotAfter, Current

\* The last frozen revision is the one that LastFrozen finds.
LEMMA LastIsFound ==
  ASSUME NEW k \in Keys, IsLast(k)
  PROVE  LastFrozen = k
<1> DEFINE P(l) == revisions[l] # None /\ \A m \in Keys : revisions[m] # None =>
                      m[1] < l[1] \/ (m[1] = l[1] /\ m[2] <= l[2])
<1>1. \A l \in Keys : P(l) <=> IsLast(l)
  BY DEF IsLast, IsFrozen, NotAfter
<1>2. \A l \in Keys : P(l) => l = k
  BY <1>1, KeysAreOrdered DEF IsLast
<1>3. P(k)
  BY <1>1
<1> HIDE DEF P
<1>4. (CHOOSE l \in Keys : P(l)) = k
  BY <1>2, <1>3
<1> QED
  BY <1>4 DEF P, LastFrozen

\* A request is answered in turn, or asked behind the others.
LEMMA WorkTail ==
  ASSUME NEW w \in Seq(Requests), w # <<>>
  PROVE  /\ Head(w) = w[1] /\ Head(w) \in Requests /\ 1 \in DOMAIN w
         /\ Tail(w) \in Seq(Requests)
         /\ \A j \in DOMAIN Tail(w) : j \in Nat /\ j + 1 \in DOMAIN w /\ Tail(w)[j] = w[j + 1]
                                      /\ j + 1 # 1
  BY HeadTailProperties, LenProperties

LEMMA WorkAppend ==
  ASSUME NEW w \in Seq(Requests), NEW m \in Requests
  PROVE  /\ Append(w, m) \in Seq(Requests)
         /\ \A j \in DOMAIN w : j \in DOMAIN Append(w, m) /\ Append(w, m)[j] = w[j]
         /\ \A j \in DOMAIN Append(w, m) :
              \/ j \in DOMAIN w /\ Append(w, m)[j] = w[j]
              \/ j = Len(w) + 1 /\ j \notin DOMAIN w /\ Append(w, m)[j] = m
  BY AppendProperties, LenProperties

LEMMA ThreadAppend ==
  ASSUME NEW ts \in Seq(Threads), NEW t \in Threads
  PROVE  /\ Append(ts, t) \in Seq(Threads) /\ Len(Append(ts, t)) = Len(ts) + 1
         /\ Len(ts) + 1 \in Nat /\ Len(ts) + 1 \notin DOMAIN ts
         /\ DOMAIN Append(ts, t) = DOMAIN ts \cup {Len(ts) + 1}
         /\ Append(ts, t)[Len(ts) + 1] = t
         /\ \A i \in DOMAIN ts : Append(ts, t)[i] = ts[i]
  BY AppendProperties, LenProperties

\* A sequence of threads some of which changed.
LEMMA ThreadsChange ==
  ASSUME NEW ts \in Seq(Threads), NEW f,
         f = [i \in DOMAIN ts |-> f[i]], \A i \in DOMAIN ts : f[i] \in Threads
  PROVE  f \in Seq(Threads) /\ DOMAIN f = DOMAIN ts
<1>1. DOMAIN ts = 1 .. Len(ts) /\ Len(ts) \in Nat
  BY LenProperties
<1>2. DOMAIN f = 1 .. Len(ts)
  BY <1>1
<1>3. f \in [1 .. Len(ts) -> Threads]
  BY <1>1
<1> QED
  BY <1>1, <1>2, <1>3, IsASeq

LEMMA ThreadTypes ==
  ASSUME TypeOK, NEW i \in DOMAIN threads
  PROVE  threads[i] \in Threads /\ i \in Nat
  BY ElementOfSeq, LenProperties DEF TypeOK

\* What the agent is told of some threads.
LEMMA FeedbackTypes ==
  ASSUME TypeOK, NEW ids \in SUBSET DOMAIN threads
  PROVE  Feedback(ids) \in SUBSET [thread : Nat, replies : Nat]
  BY ThreadTypes DEF Feedback, Threads

LEMMA WorkTypes ==
  ASSUME TypeOK, NEW j \in DOMAIN work
  PROVE  work[j] \in Requests /\ work[j].key \in Keys /\ j \in Nat
<1>1. work \in Seq(Requests) /\ j \in 1 .. Len(work)
  BY LenProperties DEF TypeOK
<1>2. work[j] \in Requests
  BY <1>1, ElementOfSeq
<1> QED
  BY <1>1, <1>2, LenProperties DEF Requests

-----------------------------------------------------------------------------
(* Steps and what pages show *)

\* What a step leaves alone.
LEMMA SameTables ==
  ASSUME ViewInv, UNCHANGED <<revisions, threads, view>>
  PROVE  ViewInv'
  BY DEF ViewInv, IsLast, IsFrozen

\* A step that only takes a request away, or changes the state.
LEMMA QuietOrder ==
  ASSUME PageInv, UNCHANGED <<run, round, revisions, threads, view>>,
         \/ work' = work
         \/ work # <<>> /\ work' = Tail(work),
         \/ state' = state \/ state' \in {"ready", "failed"}
  PROVE  PageInv'
<1>0. work' \in Seq(Requests)
  BY WorkTail DEF PageInv, TypeOK
<1>1. TypeOK'
  BY <1>0 DEF PageInv, TypeOK
<1>2. \A j \in DOMAIN work' : \E i \in DOMAIN work : work'[j] = work[i]
  <2>1. CASE work' = work
    BY <2>1
  <2>2. CASE work # <<>> /\ work' = Tail(work)
    BY <2>2, WorkTail DEF PageInv, TypeOK
  <2> QED
    BY <2>1, <2>2
<1>3. OrderInv'
  BY <1>2 DEF PageInv, OrderInv, IsFrozen, Current
<1> QED
  BY <1>1, <1>3, SameTables DEF PageInv

\* A step that asks for something of the current revision.
LEMMA AsksOrder ==
  ASSUME PageInv, UNCHANGED <<run, round, revisions, threads, view>>, NEW m \in Requests,
         m.key = Current, work' = Append(work, m), run > 0,
         m.type = "consolidate_annotations" => IsFrozen(Current) /\ round < MaxRefinementRounds,
         state' \in {"executing", "refining"}
  PROVE  PageInv'
<1>1. TypeOK'
  BY WorkAppend DEF PageInv, TypeOK
<1>2. \A j \in DOMAIN work' : work'[j] = m \/ \E i \in DOMAIN work : work'[j] = work[i]
  BY WorkAppend DEF PageInv, TypeOK
<1>3. NotAfter(Current, Current) /\ Current[2] = round
  BY CurrentIsKey DEF NotAfter, PageInv, TypeOK
<1>4. OrderInv'
  BY SMTT(30), <1>2, <1>3 DEF PageInv, OrderInv, IsFrozen, Current
<1> QED
  BY <1>1, <1>4, SameTables DEF PageInv

\* In awaiting_approval the current revision is frozen, and the last one.
LEMMA AwaitedIsLast ==
  ASSUME PageInv, state = "awaiting_approval"
  PROVE  /\ run > 0 /\ Current \in Keys /\ IsLast(Current)
         /\ revisions[Current] \in Rows
         /\ view.revision = [key |-> Current, locked |-> revisions[Current].locked]
         /\ DOMAIN view.threads \subseteq DOMAIN threads
         /\ \A i \in DOMAIN threads : threads[i].key = Current => i \in DOMAIN view.threads
         /\ \A i \in DOMAIN view.threads : view.threads[i] = threads[i]
<1>1. run > 0 /\ Current \in Keys /\ IsFrozen(Current)
  BY CurrentIsKey DEF PageInv, OrderInv
<1>2. IsLast(Current)
  BY <1>1 DEF PageInv, OrderInv, IsLast
<1>3. \A k \in Keys : IsLast(k) => k = Current
  BY <1>1, <1>2, KeysAreOrdered DEF IsLast
<1> QED
  BY <1>1, <1>2, <1>3, RowTypes DEF PageInv, ViewInv

\* A step that changes threads of the current revision and shows them so.
LEMMA ThreadsAreShown ==
  ASSUME PageInv, state = "awaiting_approval",
         UNCHANGED <<state, run, round, revisions, work>>,
         threads' \in Seq(Threads), DOMAIN threads \subseteq DOMAIN threads',
         \A i \in DOMAIN threads : threads'[i].key = threads[i].key,
         \A i \in DOMAIN threads' \ DOMAIN threads :
            threads'[i].key = Current /\ i \in DOMAIN view'.threads,
         view' \in Views, view'.revision = view.revision,
         DOMAIN view.threads \subseteq DOMAIN view'.threads,
         DOMAIN view'.threads \subseteq DOMAIN threads',
         \A i \in DOMAIN view'.threads : view'.threads[i] = threads'[i]
  PROVE  PageInv'
<1>1. TypeOK'
  BY DEF PageInv, TypeOK
<1>2. OrderInv'
  BY AwaitedIsLast DEF PageInv, OrderInv, IsFrozen, Current, IsLast
<1>3. IsLast(Current)' /\ (Current \in Keys)'
  BY AwaitedIsLast DEF IsLast, IsFrozen, Current
<1>4. /\ view'.revision = [key |-> Current, locked |-> revisions[Current].locked]'
      /\ \A i \in DOMAIN threads' : threads'[i].key = Current => i \in DOMAIN view'.threads
  BY AwaitedIsLast DEF Current
<1>5. ViewInv'
  BY <1>3, <1>4 DEF ViewInv, Current
<1> QED
  BY <1>1, <1>2, <1>5 DEF PageInv

LEMMA ViewParts ==
  ASSUME NEW v \in Views
  PROVE  /\ v = [revision |-> v.revision, threads |-> v.threads]
         /\ DOMAIN v.threads \subseteq Nat
         /\ \A i \in DOMAIN v.threads : v.threads[i] \in Threads
<1> DEFINE R == {None} \cup [key : Keys, locked : BOOLEAN]
           F == UNION {[S -> Threads] : S \in SUBSET Nat}
<1>1. v \in [revision : R, threads : F]
  BY DEF Views
<1>2. \A f \in F : DOMAIN f \subseteq Nat /\ \A i \in DOMAIN f : f[i] \in Threads
  OBVIOUS
<1> HIDE DEF R, F
<1>3. v = [revision |-> v.revision, threads |-> v.threads] /\ v.threads \in F
  BY <1>1
<1> QED
  BY <1>2, <1>3

LEMMA AnnotateSteps ==
  ASSUME PageInv, NEW p \in Participants, Annotate(p)
  PROVE  PageInv'
<1> DEFINE id == Len(threads) + 1
           t == [key |-> Current, author |-> p, status |-> "open", replies |-> 0]
<1>1. state = "awaiting_approval" /\ threads' = Append(threads, t)
      /\ UNCHANGED <<state, run, round, revisions, work>>
  BY DEF Annotate, Annotatable
<1>2. t \in Threads
  BY <1>1, AwaitedIsLast DEF Threads
<1> HIDE DEF t
<1>3. /\ threads' \in Seq(Threads) /\ Len(threads') = id /\ id \in Nat
      /\ DOMAIN threads' = DOMAIN threads \cup {id} /\ id \notin DOMAIN threads
      /\ threads'[id] = t /\ \A i \in DOMAIN threads : threads'[i] = threads[i]
  BY <1>1, <1>2, ThreadAppend DEF PageInv, TypeOK
<1> HIDE DEF id
<1>4. view' = [view EXCEPT !.threads = [i \in DOMAIN @ \cup {id} |-> IF i = id THEN t ELSE @[i]]]
  BY <1>3 DEF Annotate, Shown, t
<1>5. /\ view'.revision = view.revision
      /\ view'.threads = [i \in DOMAIN view.threads \cup {id} |->
                             IF i = id THEN t ELSE view.threads[i]]
      /\ view' \in Views
  <2>1. view \in Views
    BY DEF PageInv, TypeOK
  <2>2. view' = [revision |-> view.revision,
                 threads |-> [i \in DOMAIN view.threads \cup {id} |->
                                IF i = id THEN t ELSE view.threads[i]]]
    BY <2>1, <1>4, ViewParts
  <2> DEFINE S == DOMAIN view.threads \cup {id}
             f == [i \in S |-> IF i = id THEN t ELSE view.threads[i]]
  <2>3. S \in SUBSET Nat /\ f \in [S -> Threads]
    BY <2>1, <1>2, <1>3, ViewParts
  <2> HIDE DEF S, f
  <2>4. view.revision \in {None} \cup [key : Keys, locked : BOOLEAN]
    BY <2>1 DEF Views
  <2>5. [revision |-> view.revision, threads |-> f] \in Views
    BY <2>3, <2>4 DEF Views
  <2> QED
    BY <2>2, <2>5 DEF f, S
<1>6. \A i \in DOMAIN threads : threads'[i].key = threads[i].key
  BY <1>3
<1>7. \A i \in DOMAIN threads' \ DOMAIN threads :
         threads'[i].key = Current /\ i \in DOMAIN view'.threads
  BY <1>3, <1>5 DEF t
<1>8. /\ DOMAIN view.threads \subseteq DOMAIN view'.threads
      /\ DOMAIN view'.threads \subseteq DOMAIN threads'
      /\ \A i \in DOMAIN view'.threads : view'.threads[i] = threads'[i]
  BY <1>1, <1>3, <1>5, AwaitedIsLast
<1> QED
  BY <1>1, <1>3, <1>5, <1>6, <1>7, <1>8, ThreadsAreShown

\* Threads that were marked are shown marked.
LEMMA MarksAreShown ==
  ASSUME NEW v \in Views, NEW ts, NEW ids, NEW status,
         DOMAIN v.threads \subseteq DOMAIN ts, \A i \in DOMAIN v.threads : v.threads[i] = ts[i]
  PROVE  Marked(v, ids, status) =
           [revision |-> v.revision,
            threads |-> [i \in DOMAIN v.threads |->
                           IF i \in ids THEN [ts[i] EXCEPT !.status = status] ELSE ts[i]]]
<1>1. v = [revision |-> v.revision, threads |-> v.threads]
  BY ViewParts
<1>2. Marked(v, ids, status) =
        [revision |-> v.revision,
         threads |-> [i \in DOMAIN v.threads |->
             IF i \in ids THEN [v.threads[i] EXCEPT !.status = status] ELSE v.threads[i]]]
  BY <1>1 DEF Marked
<1>3. [i \in DOMAIN v.threads |->
         IF i \in ids THEN [v.threads[i] EXCEPT !.status = status] ELSE v.threads[i]]
      = [i \in DOMAIN v.threads |->
           IF i \in ids THEN [ts[i] EXCEPT !.status = status] ELSE ts[i]]
  OBVIOUS
<1> QED
  BY <1>2, <1>3

\* A view of the threads as they are is a view.
LEMMA ViewOfThreads ==
  ASSUME NEW v \in Views, NEW ts \in Seq(Threads), DOMAIN v.threads \subseteq DOMAIN ts,
         NEW f, f = [i \in DOMAIN v.threads |-> ts[i]]
  PROVE  [revision |-> v.revision, threads |-> f] \in Views /\ DOMAIN f = DOMAIN v.threads
         /\ \A i \in DOMAIN f : f[i] = ts[i]
<1>1. \A i \in DOMAIN ts : ts[i] \in Threads
  BY LenProperties, ElementOfSeq
<1>2. DOMAIN v.threads \in SUBSET Nat
  BY ViewParts
<1>3. f \in [DOMAIN v.threads -> Threads]
  BY <1>1
<1>4. v.revision \in {None} \cup [key : Keys, locked : BOOLEAN]
  BY DEF Views
<1>5. f \in UNION {[S -> Threads] : S \in SUBSET Nat}
  BY <1>2, <1>3
<1> QED
  BY <1>4, <1>5 DEF Views

\* A step that changes threads, but no key, and shows them so.
LEMMA ThreadsAreUpdated ==
  ASSUME PageInv, state = "awaiting_approval",
         UNCHANGED <<state, run, round, revisions, work>>,
         threads' = [i \in DOMAIN threads |-> threads'[i]],
         \A i \in DOMAIN threads : threads'[i] \in Threads /\ threads'[i].key = threads[i].key,
         view' = [revision |-> view.revision,
                  threads |-> [i \in DOMAIN view.threads |-> threads'[i]]]
  PROVE  PageInv'
<1>1. threads' \in Seq(Threads) /\ DOMAIN threads' = DOMAIN threads
  BY ThreadsChange DEF PageInv, TypeOK
<1>2. view \in Views
  BY DEF PageInv, TypeOK
<1>3. DOMAIN view.threads \subseteq DOMAIN threads'
  BY <1>1, AwaitedIsLast
<1>4. /\ view' \in Views /\ view'.revision = view.revision
      /\ DOMAIN view'.threads = DOMAIN view.threads
      /\ \A i \in DOMAIN view'.threads : view'.threads[i] = threads'[i]
  BY <1>1, <1>2, <1>3, ViewOfThreads
<1> QED
  BY <1>1, <1>3, <1>4, ThreadsAreShown

LEMMA ReplySteps ==
  ASSUME PageInv, NEW i \in DOMAIN threads, Reply(i)
  PROVE  PageInv'
<1>1. /\ state = "awaiting_approval" /\ threads[i].key = Current
      /\ UNCHANGED <<state, run, round, revisions, work>>
      /\ threads' = [threads EXCEPT ![i].replies = @ + 1] /\ view' = Replied(view, i)
  BY DEF Reply, Annotatable
<1>2. threads' = [j \in DOMAIN threads |-> threads'[j]]
      /\ \A j \in DOMAIN threads : threads'[j] \in Threads /\ threads'[j].key = threads[j].key
  <2>1. \A j \in DOMAIN threads : threads[j] \in Threads
    BY ThreadTypes DEF PageInv
  <2>2. \A j \in DOMAIN threads : threads'[j] =
            IF j = i THEN [threads[j] EXCEPT !.replies = @ + 1] ELSE threads[j]
    BY <1>1
  <2>3. threads' = [j \in DOMAIN threads |-> threads'[j]]
    BY <1>1
  <2> QED
    BY <2>1, <2>2, <2>3 DEF Threads
<1>3. i \in DOMAIN view.threads /\ \A j \in DOMAIN view.threads : view.threads[j] = threads[j]
      /\ j \in DOMAIN threads
  BY <1>1, AwaitedIsLast
<1>4. view = [revision |-> view.revision, threads |-> view.threads]
  BY ViewParts DEF PageInv, TypeOK
<1>5. view' = [view EXCEPT !.threads[i].replies = @ + 1]
  BY <1>1, <1>3 DEF Replied
<1>6. view' = [revision |-> view.revision,
               threads |-> [view.threads EXCEPT ![i].replies = @ + 1]]
  BY <1>4, <1>5
<1>7. [view.threads EXCEPT ![i].replies = @ + 1] = [j \in DOMAIN view.threads |-> threads'[j]]
  BY <1>1, <1>3
<1> QED
  BY <1>1, <1>2, <1>6, <1>7, ThreadsAreUpdated

LEMMA WithdrawSteps ==
  ASSUME PageInv, NEW i \in DOMAIN threads, NEW p \in Participants, Withdraw(p, i)
  PROVE  PageInv'
<1>1. /\ state = "awaiting_approval"
      /\ UNCHANGED <<state, run, round, revisions, work>>
      /\ threads' = [threads EXCEPT ![i].status = "withdrawn"]
      /\ view' = Marked(view, {i}, "withdrawn")
  BY DEF Withdraw, Annotatable
<1>0. \A j \in DOMAIN threads : threads'[j] =
        IF j \in {i} THEN [threads[j] EXCEPT !.status = "withdrawn"] ELSE threads[j]
  BY <1>1
<1>2. threads' = [j \in DOMAIN threads |-> threads'[j]]
      /\ \A j \in DOMAIN threads : threads'[j] \in Threads /\ threads'[j].key = threads[j].key
  <2>1. \A j \in DOMAIN threads : threads[j] \in Threads
    BY ThreadTypes DEF PageInv
  <2>3. threads' = [j \in DOMAIN threads |-> threads'[j]]
    BY <1>1
  <2> QED
    BY <2>1, <1>0, <2>3 DEF Threads
<1>3. DOMAIN view.threads \subseteq DOMAIN threads
      /\ \A j \in DOMAIN view.threads : view.threads[j] = threads[j]
  BY <1>1, AwaitedIsLast
<1>4. view' = [revision |-> view.revision,
               threads |-> [j \in DOMAIN view.threads |->
                   IF j \in {i} THEN [threads[j] EXCEPT !.status = "withdrawn"] ELSE threads[j]]]
  <2>1. view \in Views
    BY DEF PageInv, TypeOK
  <2> QED
    BY <2>1, <1>1, <1>3, MarksAreShown
<1>5. view' = [revision |-> view.revision,
               threads |-> [j \in DOMAIN view.threads |-> threads'[j]]]
  BY <1>0, <1>3, <1>4
<1> QED
  BY <1>1, <1>2, <1>5, ThreadsAreUpdated

\* A step that sends a brief for the next round.
LEMMA BriefOrder ==
  ASSUME PageInv, run > 0, round < MaxRefinementRounds,
         NEW queue \in Seq(Requests),
         \A j \in DOMAIN queue : \E i \in DOMAIN work : queue[j] = work[i],
         NEW feedback \in SUBSET [thread : Nat, replies : Nat],
         DispatchProseBrief(feedback, queue),
         UNCHANGED <<run, threads>>, state' = "refining",
         revisions' \in [Keys -> {None} \cup Rows], view' \in Views,
         \A k \in Keys : IsFrozen(k)' <=> IsFrozen(k)
  PROVE  TypeOK' /\ OrderInv'
<1> DEFINE key == <<run, round + 1>>
           m == [type |-> "refine_plan", key |-> key, feedback |-> feedback]
<1>1. round' = round + 1 /\ work' = Append(queue, m) /\ Current' = key
  BY DEF DispatchProseBrief, Current
<1>2. round + 1 \in 1 .. MaxRefinementRounds /\ run \in 1 .. MaxRuns
  BY ReviewAssumption DEF PageInv, TypeOK
<1>3. key \in Keys /\ NotAfter(key, key) /\ \A k \in Keys : NotAfter(k, Current) => NotAfter(k, key)
  BY <1>2, OrderGoesOn, ReviewAssumption DEF Keys, NotAfter, PageInv
<1>4. m \in Requests
  BY <1>3 DEF Requests, PlanTypes
<1>5. TypeOK'
  BY <1>1, <1>2, <1>4, WorkAppend, ReviewAssumption DEF PageInv, TypeOK
<1>6. \A j \in DOMAIN work' : work'[j] = m \/ \E i \in DOMAIN work : work'[j] = work[i]
  BY <1>1, <1>4, WorkAppend
<1>7. \A j \in DOMAIN work : work[j].key \in Keys
  BY WorkTypes DEF PageInv
<1>8. \A i \in DOMAIN threads : threads[i].key \in Keys
  BY ThreadTypes DEF Threads, PageInv
<1>9. m.key = key /\ m.type # "consolidate_annotations"
  OBVIOUS
<1> HIDE DEF key, m
<1>10. \A j \in DOMAIN work' :
         /\ NotAfter(work'[j].key, key)
         /\ work'[j].type = "consolidate_annotations" =>
              revisions'[work'[j].key] # None /\ work'[j].key[2] < MaxRefinementRounds
  BY <1>3, <1>6, <1>7, <1>9 DEF PageInv, OrderInv, IsFrozen
<1>11. \A k \in Keys : IsFrozen(k)' => NotAfter(k, key)
  BY <1>3 DEF PageInv, OrderInv
<1>12. \A i \in DOMAIN threads' : revisions'[threads'[i].key] # None
  BY <1>8 DEF PageInv, OrderInv, IsFrozen
<1>13. OrderInv'
  BY <1>1, <1>10, <1>11, <1>12 DEF OrderInv, IsFrozen
<1> QED
  BY <1>5, <1>13

LEMMA StartRunSteps ==
  ASSUME PageInv, StartRun
  PROVE  PageInv'
<1> DEFINE key == <<run + 1, 0>>
           m == [type |-> "plan", key |-> key, feedback |-> {}]
<1>1. /\ run' = run + 1 /\ round' = 0 /\ work' = Append(work, m) /\ Current' = key
      /\ run < MaxRuns /\ state' = "planning" /\ UNCHANGED <<revisions, threads, view>>
  BY DEF StartRun, Current
<1>2. run + 1 \in 1 .. MaxRuns
  BY <1>1, ReviewAssumption DEF PageInv, TypeOK
<1>3. key \in Keys /\ NotAfter(key, key) /\ \A k \in Keys : NotAfter(k, Current) => NotAfter(k, key)
  BY <1>2, OrderGoesOn, ReviewAssumption DEF Keys, NotAfter, PageInv
<1>4. m \in Requests
  BY <1>3 DEF Requests, PlanTypes
<1>5. TypeOK'
  BY <1>1, <1>2, <1>4, WorkAppend, ReviewAssumption DEF PageInv, TypeOK
<1>6. \A j \in DOMAIN work' : work'[j] = m \/ \E i \in DOMAIN work : work'[j] = work[i]
  BY <1>1, <1>4, WorkAppend DEF PageInv, TypeOK
<1>7. \A j \in DOMAIN work : work[j].key \in Keys
  BY WorkTypes DEF PageInv
<1>9. m.key = key /\ m.type # "consolidate_annotations" /\ run' > 0
  BY <1>1, <1>2
<1> HIDE DEF key, m
<1>10. \A j \in DOMAIN work' :
         /\ NotAfter(work'[j].key, key)
         /\ work'[j].type = "consolidate_annotations" =>
              revisions'[work'[j].key] # None /\ work'[j].key[2] < MaxRefinementRounds
  BY <1>1, <1>3, <1>6, <1>7, <1>9 DEF PageInv, OrderInv, IsFrozen
<1>11. \A k \in Keys : IsFrozen(k)' => NotAfter(k, key)
  BY <1>1, <1>3 DEF PageInv, OrderInv, IsFrozen
<1>13. OrderInv'
  BY <1>1, <1>9, <1>10, <1>11 DEF PageInv, OrderInv, NotAfter, IsFrozen
<1> QED
  BY <1>1, <1>5, <1>13, SameTables DEF PageInv

LEMMA RowIsLocked ==
  ASSUME NEW l, NEW p, NEW q, NEW r, r = [locked |-> l, plan |-> p]
  PROVE  [r EXCEPT !.locked = q] = [locked |-> q, plan |-> p]
<1>1. ASSUME NEW x, NEW y, x = [r EXCEPT !.locked = q], y = [locked |-> q, plan |-> p]
      PROVE  x = y
  BY <1>1
<1> QED
  BY <1>1

LEMMA ShownIsLocked ==
  ASSUME NEW l, NEW k, NEW q, NEW r, r = [key |-> k, locked |-> l]
  PROVE  [r EXCEPT !.locked = q] = [key |-> k, locked |-> q]
<1>1. ASSUME NEW x, NEW y, x = [r EXCEPT !.locked = q], y = [key |-> k, locked |-> q]
      PROVE  x = y
  BY <1>1
<1> QED
  BY <1>1

\* Locking the current revision locks what pages show of it.
LEMMA LockSteps ==
  ASSUME PageInv, state = "awaiting_approval", LockPlanRevision, UNCHANGED threads
  PROVE  /\ revisions' \in [Keys -> {None} \cup Rows] /\ view' \in Views /\ ViewInv'
         /\ \A k \in Keys : IsFrozen(k)' <=> IsFrozen(k)
         /\ \A k \in Keys : revisions'[k].plan = revisions[k].plan \/ ~IsFrozen(k)
         /\ \A k \in Keys : IsLocked(k) \/ k = Current => IsLocked(k)'
<1>1. /\ Current \in Keys /\ revisions[Current] \in Rows /\ revisions \in [Keys -> {None} \cup Rows]
      /\ view \in Views
  BY AwaitedIsLast DEF PageInv, TypeOK
<1>2. PICK c \in Keys : c = Current
  BY <1>1
<1> DEFINE r == [locked |-> TRUE, plan |-> revisions[c].plan]
<1>3. revisions[c] = [locked |-> revisions[c].locked, plan |-> revisions[c].plan]
      /\ revisions[c].locked \in BOOLEAN /\ revisions[c].plan \in Requests
  BY <1>1, <1>2, RowsArePresent
<1>4. r \in Rows /\ r # None
  <2>1. r \in Rows
    BY <1>3 DEF Rows
  <2> QED
    BY <2>1, RowsArePresent
<1>5. revisions' = [revisions EXCEPT ![c] = r]
  <2>1. revisions' = [revisions EXCEPT ![c] = [revisions[c] EXCEPT !.locked = TRUE]]
    BY <1>1, <1>2 DEF LockPlanRevision
  <2>2. [revisions[c] EXCEPT !.locked = TRUE] = r
    <3>1. \A q : [revisions[c] EXCEPT !.locked = q] = [locked |-> q, plan |-> revisions[c].plan]
      BY <1>3, RowIsLocked
    <3> QED
      BY <3>1, Zenon DEF r
  <2> QED
    BY <2>1, <2>2
<1>6. \A k \in Keys : revisions'[k] = IF k = c THEN r ELSE revisions[k]
  BY <1>1, <1>5
<1>7. r.locked = TRUE /\ r.plan = revisions[c].plan
  OBVIOUS
<1> HIDE DEF r
<1>8. revisions' \in [Keys -> {None} \cup Rows]
  BY <1>1, <1>4, <1>5
<1>9. \A k \in Keys : IsFrozen(k)' <=> IsFrozen(k)
  BY <1>1, <1>2, <1>4, <1>6, RowsArePresent DEF IsFrozen
<1>10. view.revision = [key |-> c, locked |-> revisions[c].locked]
  BY <1>2, AwaitedIsLast
<1>11. view' = [revision |-> [key |-> c, locked |-> TRUE], threads |-> view.threads]
  <2>1. view.revision # None
    BY <1>3, <1>10, RowsArePresent
  <2>2. view = [revision |-> [key |-> c, locked |-> revisions[c].locked],
                threads |-> view.threads]
    BY <1>1, <1>10, ViewParts
  <2>3. view' = [view EXCEPT !.revision.locked = TRUE]
    BY <2>1 DEF LockPlanRevision, Locked
  <2>4. view' = [view EXCEPT !.revision = [view.revision EXCEPT !.locked = TRUE]]
    BY <2>3
  <2>5. [view.revision EXCEPT !.locked = TRUE] = [key |-> c, locked |-> TRUE]
    <3>1. \A q : [view.revision EXCEPT !.locked = q] = [key |-> c, locked |-> q]
      BY <1>10, ShownIsLocked
    <3> QED
      BY <3>1, Zenon
  <2> QED
    BY <2>2, <2>4, <2>5
<1>12. view' \in Views
  <2>1. view.threads \in UNION {[S -> Threads] : S \in SUBSET Nat}
    BY <1>1 DEF Views
  <2> QED
    BY <2>1, <1>11 DEF Views
<1>13. IsLast(c)'
  BY <1>2, <1>9, AwaitedIsLast DEF IsLast
<1>14. /\ view'.revision = [key |-> c, locked |-> revisions'[c].locked]
       /\ DOMAIN view'.threads \subseteq DOMAIN threads'
       /\ \A i \in DOMAIN threads' : threads'[i].key = c => i \in DOMAIN view'.threads
       /\ \A i \in DOMAIN view'.threads : view'.threads[i] = threads'[i]
  BY <1>2, <1>6, <1>7, <1>11, AwaitedIsLast
<1>15. ViewInv'
  BY <1>13, <1>14 DEF ViewInv
<1>16. \A k \in Keys : IsLocked(k) \/ k = Current => IsLocked(k)'
  BY <1>2, <1>4, <1>6, <1>7 DEF IsLocked, IsFrozen
<1> QED
  BY <1>2, <1>6, <1>7, <1>8, <1>9, <1>12, <1>15, <1>16

LEMMA RefineSteps ==
  ASSUME PageInv, Refine
  PROVE  PageInv'
<1>1. /\ state = "awaiting_approval" /\ round < MaxRefinementRounds /\ state' = "refining"
      /\ LockPlanRevision /\ UNCHANGED <<run, threads>>
  BY DEF Refine
<1>2. run > 0 /\ Current \in Keys /\ IsFrozen(Current) /\ Current[2] = round
  BY <1>1, AwaitedIsLast, CurrentIsKey DEF IsLast, PageInv
<1> DEFINE open == OpenThreads(Current)
<1>3. Feedback(open) \in SUBSET [thread : Nat, replies : Nat]
  BY FeedbackTypes DEF OpenThreads, PageInv
<1>4. work \in Seq(Requests)
  BY DEF PageInv, TypeOK
<1>5. CASE DispatchProseBrief(Feedback(open), work)
  BY <1>1, <1>2, <1>3, <1>4, <1>5, BriefOrder, LockSteps DEF PageInv
<1>6. CASE /\ work' = Append(work, [type |-> "consolidate_annotations",
                                     key |-> Current, feedback |-> Feedback(open)])
           /\ UNCHANGED round
  <2> DEFINE m == [type |-> "consolidate_annotations", key |-> Current, feedback |-> Feedback(open)]
  <2>1. m \in Requests
    BY <1>2, <1>3 DEF Requests
  <2>2. m.key = Current
    OBVIOUS
  <2> HIDE DEF m
  <2>3. /\ work' \in Seq(Requests)
        /\ \A j \in DOMAIN work' : work'[j] = m \/ \E i \in DOMAIN work : work'[j] = work[i]
    BY <1>4, <1>6, <2>1, WorkAppend DEF m
  <2>4. TypeOK'
    BY <1>1, <1>6, <2>3, LockSteps DEF PageInv, TypeOK
  <2>5. NotAfter(Current, Current) /\ Current' = Current
    BY <1>1, <1>2, <1>6 DEF Current, NotAfter, PageInv, TypeOK
  <2>6. \A k \in Keys : IsFrozen(k)' <=> IsFrozen(k)
    BY <1>1, LockSteps
  <2>7. \A j \in DOMAIN work : work[j].key \in Keys
    BY WorkTypes DEF PageInv
  <2>8. \A j \in DOMAIN work' :
         /\ NotAfter(work'[j].key, Current)
         /\ work'[j].type = "consolidate_annotations" =>
              revisions'[work'[j].key] # None /\ work'[j].key[2] < MaxRefinementRounds
    BY <1>1, <1>2, <2>2, <2>3, <2>5, <2>6, <2>7 DEF PageInv, OrderInv, IsFrozen
  <2>9. \A i \in DOMAIN threads : threads[i].key \in Keys
    BY ThreadTypes DEF Threads, PageInv
  <2>10. OrderInv'
    <3>1. \A i \in DOMAIN threads' : revisions'[threads'[i].key] # None
      BY <1>1, <2>6, <2>9 DEF PageInv, OrderInv, IsFrozen
    <3>2. \A k \in Keys : IsFrozen(k)' => NotAfter(k, Current')
      BY <2>5, <2>6 DEF PageInv, OrderInv
    <3> QED
      BY <1>1, <1>2, <2>5, <2>8, <3>1, <3>2 DEF OrderInv, IsFrozen
  <2> QED
    BY <1>1, <2>4, <2>10, LockSteps DEF PageInv
<1> QED
  BY <1>5, <1>6 DEF Refine

\* Consumed threads are threads, and keep their keys.
LEMMA ConsumedTypes ==
  ASSUME TypeOK, NEW ids
  PROVE  /\ Consumed(ids) \in Seq(Threads) /\ DOMAIN Consumed(ids) = DOMAIN threads
         /\ Consumed(ids) = [i \in DOMAIN threads |->
                IF i \in ids THEN [threads[i] EXCEPT !.status = "consumed"] ELSE threads[i]]
         /\ \A i \in DOMAIN threads :
              /\ Consumed(ids)[i].key = threads[i].key
              /\ Consumed(ids)[i].replies = threads[i].replies
              /\ Consumed(ids)[i].status = IF i \in ids THEN "consumed" ELSE threads[i].status
<1>1. \A i \in DOMAIN threads :
        /\ Consumed(ids)[i] =
             IF i \in ids THEN [threads[i] EXCEPT !.status = "consumed"] ELSE threads[i]
        /\ threads[i] \in Threads
  BY ThreadTypes DEF Consumed
<1>2. \A i \in DOMAIN threads :
        /\ Consumed(ids)[i] \in Threads
        /\ Consumed(ids)[i].key = threads[i].key
        /\ Consumed(ids)[i].replies = threads[i].replies
        /\ Consumed(ids)[i].status = IF i \in ids THEN "consumed" ELSE threads[i].status
  BY <1>1 DEF Threads
<1>3. Consumed(ids) = [i \in DOMAIN threads |-> Consumed(ids)[i]]
  BY DEF Consumed
<1>4. Consumed(ids) \in Seq(Threads) /\ DOMAIN Consumed(ids) = DOMAIN threads
  BY <1>2, <1>3, ThreadsChange DEF TypeOK
<1> QED
  BY <1>2, <1>4 DEF Consumed

\* Freezing makes the current revision the last one, unlocked, and pages show it
\* with its threads.
LEMMA FreezeSteps ==
  ASSUME PageInv, state \in {"planning", "refining"}, NEW plan \in Requests,
         FreezePlanRevision(plan), UNCHANGED <<run, round>>
  PROVE  /\ threads' \in Seq(Threads) /\ revisions' \in [Keys -> {None} \cup Rows]
         /\ view' \in Views /\ ViewInv'
         /\ Current \in Keys /\ Current = <<run, round>>
         /\ revisions'[Current] = [locked |-> FALSE, plan |-> plan]
         /\ \A k \in Keys \ {Current} : revisions'[k] = revisions[k]
         /\ \A k \in Keys : IsFrozen(k)' <=> IsFrozen(k) \/ k = Current
<1>1. Current \in Keys /\ Current = <<run, round>>
  BY CurrentIsKey DEF PageInv, OrderInv, Current
<1>2. PICK c \in Keys : c = Current
  BY <1>1
<1> DEFINE ids == IF round > 0 THEN OpenThreads(<<run, round - 1>>) ELSE {}
           row == [locked |-> FALSE, plan |-> plan]
           shows == Marked(view, ids, "consumed")
<1>3. threads' = Consumed(ids) /\ revisions' = [revisions EXCEPT ![c] = row]
      /\ view' = Frozen(shows, c)
  BY <1>2 DEF FreezePlanRevision
<1>4. row \in Rows /\ row # None
  <2>1. row \in Rows
    BY DEF Rows
  <2> QED
    BY <2>1, RowsArePresent
<1>5. row.locked = FALSE
  OBVIOUS
<1> HIDE DEF ids, row, shows
<1>6. /\ revisions' \in [Keys -> {None} \cup Rows]
      /\ \A k \in Keys : revisions'[k] = IF k = c THEN row ELSE revisions[k]
  BY <1>3, <1>4 DEF PageInv, TypeOK
<1>7. \A k \in Keys : IsFrozen(k)' <=> IsFrozen(k) \/ k = c
  BY <1>4, <1>6 DEF IsFrozen
<1>8. NotAfter(c, c) /\ \A k \in Keys : IsFrozen(k) => NotAfter(k, c)
  BY <1>1, <1>2 DEF NotAfter, PageInv, OrderInv, TypeOK
<1>9. IsLast(c)'
  BY <1>7, <1>8 DEF IsLast
<1>10. /\ threads' \in Seq(Threads) /\ DOMAIN threads' = DOMAIN threads
       /\ threads' = [i \in DOMAIN threads |->
                IF i \in ids THEN [threads[i] EXCEPT !.status = "consumed"] ELSE threads[i]]
       /\ \A i \in DOMAIN threads : threads'[i].key = threads[i].key
  BY <1>3, ConsumedTypes DEF PageInv
<1>11. /\ view \in Views /\ DOMAIN view.threads \subseteq DOMAIN threads
       /\ \A i \in DOMAIN view.threads : view.threads[i] = threads[i]
  <2>1. DOMAIN EmptyView.threads = {}
    BY DEF EmptyView
  <2> QED
    BY <2>1 DEF PageInv, TypeOK, ViewInv
<1>12. shows = [revision |-> view.revision,
                threads |-> [i \in DOMAIN view.threads |-> threads'[i]]]
  <2>1. shows = [revision |-> view.revision,
                 threads |-> [i \in DOMAIN view.threads |->
                   IF i \in ids THEN [threads[i] EXCEPT !.status = "consumed"] ELSE threads[i]]]
    BY <1>11, MarksAreShown DEF shows
  <2> QED
    BY <2>1, <1>10, <1>11
<1>13. /\ shows \in Views /\ shows.revision = view.revision
       /\ DOMAIN shows.threads = DOMAIN view.threads
       /\ \A i \in DOMAIN shows.threads : shows.threads[i] = threads'[i]
  BY <1>10, <1>11, <1>12, ViewOfThreads
<1>14. CASE IsSameRevision(shows, c)
  <2>1. view' = [revision |-> [key |-> c, locked |-> FALSE], threads |-> shows.threads]
    BY <1>3, <1>14 DEF Frozen
  <2>2. view' \in Views
    <3>1. shows.threads \in UNION {[S -> Threads] : S \in SUBSET Nat}
      BY <1>13 DEF Views
    <3> QED
      BY <2>1, <3>1 DEF Views
  <2>3. view.revision # None /\ view.revision.key = c
    BY <1>13, <1>14 DEF IsSameRevision
  <2>4. \A i \in DOMAIN threads : threads[i].key = c => i \in DOMAIN view.threads
    <3>1. view # EmptyView
      BY <2>3 DEF EmptyView
    <3>2. PICK k \in Keys :
            /\ view.revision = [key |-> k, locked |-> revisions[k].locked]
            /\ \A i \in DOMAIN threads : threads[i].key = k => i \in DOMAIN view.threads
      BY <3>1 DEF PageInv, ViewInv
    <3>3. k = c
      BY <2>3, <3>2
    <3> QED
      BY <3>2, <3>3
  <2>5. view'.threads = shows.threads /\ view'.revision = [key |-> c, locked |-> FALSE]
    BY <2>1
  <2>6. ViewInv'
    BY <1>5, <1>6, <1>9, <1>10, <1>11, <1>13, <2>4, <2>5 DEF ViewInv
  <2> QED
    BY <1>1, <1>2, <1>6, <1>7, <1>10, <2>2, <2>6 DEF row
<1>15. CASE ~IsSameRevision(shows, c)
  <2>1. view' = [revision |-> [key |-> c, locked |-> FALSE], threads |-> <<>>]
    BY <1>3, <1>15 DEF Frozen
  <2>2. view' \in Views
    <3>1. <<>> \in [{} -> Threads]
      OBVIOUS
    <3>2. <<>> \in UNION {[S -> Threads] : S \in SUBSET Nat}
      BY <3>1
    <3> QED
      BY <2>1, <3>2 DEF Views
  <2>3. ~IsFrozen(c)
    <3> SUFFICES ASSUME IsFrozen(c) PROVE FALSE
      OBVIOUS
    <3>1. PICK k \in Keys :
            IsLast(k) /\ view.revision = [key |-> k, locked |-> revisions[k].locked]
      BY DEF PageInv, ViewInv
    <3>2. k = c
      BY <3>1, <1>8, KeysAreOrdered DEF IsLast
    <3>3. revisions[k].locked \in BOOLEAN
      BY <3>1, RowTypes, RowsArePresent DEF IsLast, PageInv
    <3>4. view.revision # None /\ view.revision.key = c
      BY <3>1, <3>2, <3>3, RowsArePresent
    <3> QED
      BY <3>4, <1>13, <1>15 DEF IsSameRevision
  <2>4. \A i \in DOMAIN threads : threads[i].key # c
    BY <2>3 DEF PageInv, OrderInv
  <2>5. DOMAIN view'.threads = {} /\ view'.revision = [key |-> c, locked |-> FALSE]
    BY <2>1
  <2>6. ViewInv'
    BY ZenonT(30), <1>5, <1>6, <1>9, <1>10, <2>4, <2>5 DEF ViewInv
  <2> QED
    BY <1>1, <1>2, <1>6, <1>7, <1>10, <2>2, <2>6 DEF row
<1> QED
  BY <1>14, <1>15

LEMMA PlanReadySteps ==
  ASSUME PageInv, PlanReady
  PROVE  PageInv'
<1>1. /\ work # <<>> /\ work' = Tail(work) /\ UNCHANGED <<run, round>>
      /\ work \in Seq(Requests)
  BY DEF PlanReady, Answers, PageInv, TypeOK
<1>2. CASE state \notin {"planning", "refining"}
  BY <1>1, <1>2, QuietOrder DEF PlanReady
<1>3. CASE state \in {"planning", "refining"}
  <2>1. FreezePlanRevision(Head(work)) /\ state' = "awaiting_approval" /\ Current' = Current
    BY <1>1, <1>3 DEF PlanReady, Current
  <2>2. /\ Head(work) \in Requests /\ work' \in Seq(Requests)
        /\ \A j \in DOMAIN work' : \E i \in DOMAIN work : work'[j] = work[i]
    BY <1>1, WorkTail
  <2>3. /\ threads' \in Seq(Threads) /\ revisions' \in [Keys -> {None} \cup Rows]
        /\ view' \in Views /\ ViewInv' /\ Current \in Keys
        /\ \A k \in Keys : IsFrozen(k)' <=> IsFrozen(k) \/ k = Current
    BY <1>1, <1>3, <2>1, <2>2, FreezeSteps
  <2>4. TypeOK'
    BY <1>1, <2>1, <2>2, <2>3 DEF PageInv, TypeOK
  <2>5. DOMAIN threads' = DOMAIN threads
        /\ \A i \in DOMAIN threads : threads'[i].key = threads[i].key /\ threads[i].key \in Keys
    BY <2>1, ConsumedTypes, ThreadTypes DEF FreezePlanRevision, PageInv, Threads
  <2>6. \A i \in DOMAIN threads' : revisions'[threads'[i].key] # None
    BY <2>3, <2>5 DEF PageInv, OrderInv, IsFrozen
  <2>7. \A j \in DOMAIN work : work[j].key \in Keys
    BY WorkTypes DEF PageInv
  <2>8. \A j \in DOMAIN work' :
          /\ NotAfter(work'[j].key, Current)
          /\ work'[j].type = "consolidate_annotations" =>
               revisions'[work'[j].key] # None /\ work'[j].key[2] < MaxRefinementRounds
    BY <2>2, <2>3, <2>7 DEF PageInv, OrderInv, IsFrozen
  <2>9. NotAfter(Current, Current) /\ run > 0
    BY <1>3 DEF NotAfter, PageInv, OrderInv, TypeOK, Current
  <2>10. \A k \in Keys : IsFrozen(k)' => NotAfter(k, Current)
    BY <2>3, <2>9 DEF PageInv, OrderInv
  <2>11. revisions'[Current] # None
    BY <2>3 DEF IsFrozen
  <2>12. OrderInv'
    BY <1>1, <2>1, <2>6, <2>8, <2>9, <2>10, <2>11 DEF OrderInv, IsFrozen
  <2> QED
    BY <2>3, <2>4, <2>12 DEF PageInv
<1> QED
  BY <1>2, <1>3

LEMMA ApproveSteps ==
  ASSUME PageInv, Approve
  PROVE  PageInv'
<1> DEFINE m == [type |-> "execute", key |-> Current, feedback |-> {}]
<1>1. run > 0 /\ Current \in Keys
  BY AwaitedIsLast DEF Approve
<1>2. m \in Requests /\ m.key = Current /\ m.type # "consolidate_annotations"
  BY <1>1 DEF Requests
<1>3. work' = Append(work, m) /\ state' = "executing"
      /\ UNCHANGED <<run, round, revisions, threads, view>>
  BY DEF Approve
<1> HIDE DEF m
<1> QED
  BY <1>1, <1>2, <1>3, AsksOrder

LEMMA ConsolidationSteps ==
  ASSUME PageInv, ConsolidationComplete \/ ConsolidationFailed
  PROVE  PageInv'
<1>1. /\ work # <<>> /\ Head(work).type = "consolidate_annotations"
      /\ UNCHANGED <<run, revisions, threads, view>> /\ work \in Seq(Requests)
  BY DEF ConsolidationComplete, ConsolidationFailed, Answers, PageInv, TypeOK
<1>2. /\ Head(work) = work[1] /\ 1 \in DOMAIN work /\ Head(work) \in Requests
      /\ Tail(work) \in Seq(Requests)
      /\ \A j \in DOMAIN Tail(work) : \E i \in DOMAIN work : Tail(work)[j] = work[i]
  BY <1>1, WorkTail
<1>3. CASE ConsolidationComplete /\ IsAwaited(Head(work))
  <2>1. DispatchProseBrief(Head(work).feedback, Tail(work)) /\ state' = "refining" /\ run > 0
    BY <1>3 DEF ConsolidationComplete, IsAwaited, PageInv, OrderInv
  <2>2. round < MaxRefinementRounds
    BY <1>1, <1>2, <1>3, <2>1, CurrentIsKey DEF IsAwaited, PageInv, OrderInv
  <2>3. Head(work).feedback \in SUBSET [thread : Nat, replies : Nat]
    BY <1>2 DEF Requests
  <2>4. \A k \in Keys : IsFrozen(k)' <=> IsFrozen(k)
    BY <1>1 DEF IsFrozen
  <2>5. revisions' \in [Keys -> {None} \cup Rows] /\ view' \in Views
    BY <1>1 DEF PageInv, TypeOK
  <2>6. TypeOK' /\ OrderInv'
    BY <1>1, <1>2, <2>1, <2>2, <2>3, <2>4, <2>5, BriefOrder
  <2> QED
    BY <1>1, <2>6, SameTables DEF PageInv
<1>4. CASE ConsolidationComplete /\ ~IsAwaited(Head(work))
  BY <1>1, <1>4, QuietOrder DEF ConsolidationComplete
<1>5. CASE ConsolidationFailed /\ ~IsAwaited(Head(work))
  BY <1>1, <1>5, QuietOrder DEF ConsolidationFailed
<1>6. CASE ConsolidationFailed /\ IsAwaited(Head(work))
  <2>1. /\ state' = "awaiting_approval" /\ work' = Tail(work) /\ UNCHANGED round
        /\ run > 0 /\ IsFrozen(Current)
    BY <1>1, <1>2, <1>6 DEF ConsolidationFailed, IsAwaited, PageInv, OrderInv
  <2>2. TypeOK'
    BY <1>1, <1>2, <2>1 DEF PageInv, TypeOK
  <2>3. OrderInv'
    BY <1>1, <1>2, <2>1 DEF PageInv, OrderInv, IsFrozen, Current
  <2> QED
    BY <1>1, <2>2, <2>3, SameTables DEF PageInv
<1> QED
  BY <1>3, <1>4, <1>5, <1>6

LEMMA PageSteps ==
  ASSUME PageInv, [Next]_vars
  PROVE  PageInv'
<1>1. CASE UNCHANGED vars
  <2>1. UNCHANGED <<state, run, round, revisions, threads, work, view>>
    BY <1>1 DEF vars
  <2> QED
    BY <2>1, QuietOrder
<1>2. CASE Discuss
  BY <1>2, AnnotateSteps, ReplySteps, WithdrawSteps DEF Discuss
<1>3. CASE Abort
  BY <1>3, QuietOrder DEF Abort
<1>4. CASE StartRun \/ Approve \/ Refine
  BY <1>4, StartRunSteps, ApproveSteps, RefineSteps
<1>5. CASE PlanReady \/ ConsolidationComplete \/ ConsolidationFailed
  BY <1>5, PlanReadySteps, ConsolidationSteps
<1>6. CASE ExecutionDone \/ WorkFails
  BY <1>6, QuietOrder DEF ExecutionDone, WorkFails, Answers
<1> QED
  BY <1>1, <1>2, <1>3, <1>4, <1>5, <1>6 DEF Next, Decide, Answer

LEMMA PageStart == Init => PageInv
<1> SUFFICES ASSUME Init PROVE PageInv
  OBVIOUS
<1>1. <<>> \in Seq(Threads) /\ <<>> \in Seq(Requests) /\ DOMAIN threads = {} /\ DOMAIN work = {}
  BY DEF Init
<1>2. EmptyView \in Views
  <2>1. <<>> \in [{} -> Threads]
    OBVIOUS
  <2>2. <<>> \in UNION {[S -> Threads] : S \in SUBSET Nat}
    BY <2>1
  <2> QED
    BY <2>2 DEF EmptyView, Views
<1>3. TypeOK
  BY <1>1, <1>2, ReviewAssumption DEF Init, TypeOK
<1>4. OrderInv /\ ViewInv
  BY <1>1 DEF Init, OrderInv, ViewInv, IsFrozen
<1> QED
  BY <1>3, <1>4 DEF PageInv

\* Tables and pages have their types and keep their order.
THEOREM ReviewIsOrderly == Spec => []PageInv
  BY PageStart, PageSteps, PTL DEF Spec

\* What pages show of the last frozen revision is what the tables hold of it.
THEOREM PagesFollowTheTables == Spec => []PagesShowTheTables
<1>1. PageInv => PagesShowTheTables
  <2> SUFFICES ASSUME PageInv PROVE PagesShowTheTables
    OBVIOUS
  <2>1. CASE \A k \in Keys : ~IsFrozen(k)
    BY <2>1 DEF PageInv, ViewInv, IsLast, IsFrozen, PagesShowTheTables
  <2>2. CASE \E k \in Keys : IsFrozen(k)
    <3>1. PICK k \in Keys :
         /\ IsLast(k) /\ view.revision = [key |-> k, locked |-> revisions[k].locked]
         /\ DOMAIN view.threads \subseteq DOMAIN threads
         /\ \A i \in DOMAIN threads : threads[i].key = k => i \in DOMAIN view.threads
         /\ \A i \in DOMAIN view.threads : view.threads[i] = threads[i]
      BY <2>2 DEF PageInv, ViewInv
    <3>2. LastFrozen = k
      BY <3>1, LastIsFound
    <3>3. OpenOf(view.threads) = OpenOf(threads)
      BY <3>1, <3>2 DEF OpenOf, IsOpenOn
    <3>4. \A i \in OpenOf(threads) : view.threads[i] = threads[i]
      BY <3>1, <3>2 DEF OpenOf, IsOpenOn
    <3> QED
      BY <2>2, <3>1, <3>2, <3>3, <3>4 DEF PagesShowTheTables, IsFrozen
  <2> QED
    BY <2>1, <2>2
<1> QED
  BY <1>1, ReviewIsOrderly, PTL

-----------------------------------------------------------------------------
(* Steps and feedback *)

LEMMA BeforeIsKey ==
  ASSUME NEW k \in Keys, k[2] > 0
  PROVE  Before(k) \in Keys /\ \A l \in Keys : Before(l) = Before(k) => l = k
<1>1. /\ k[1] \in 1 .. MaxRuns /\ k[2] - 1 \in 0 .. MaxRefinementRounds
      /\ \A l \in Keys : l[1] \in Int /\ l[2] \in Int /\ l = <<l[1], l[2]>>
  BY KeyParts, ReviewAssumption
<1>2. Before(k) \in Keys
  BY <1>1 DEF Before, Keys
<1>3. ASSUME NEW l \in Keys, Before(l) = Before(k) PROVE l = k
  <2>1. l[1] = k[1] /\ l[2] - 1 = k[2] - 1
    BY <1>3 DEF Before
  <2> QED
    BY <1>1, <2>1
<1> QED
  BY <1>2, <1>3

\* A locked revision stays locked, and its open threads are what they were.
LockedStays ==
    /\ \A k \in Keys : IsLocked(k) => IsLocked(k)'
    /\ \A i \in DOMAIN threads' :
         threads'[i].status = "open" /\ IsLocked(threads'[i].key) =>
           /\ i \in DOMAIN threads /\ threads[i].status = "open"
           /\ threads'[i].key = threads[i].key /\ threads'[i].replies = threads[i].replies

LEMMA BriefsStayComplete ==
  ASSUME LockedStays, NEW k \in Keys, NEW m, SaysOpen(m, k)
  PROVE  SaysOpen(m, k)'
  BY DEF LockedStays, SaysOpen, Says, IsOpenOn

\* A step that only changes threads of an unlocked revision.
LEMMA DiscussionIsHeard ==
  ASSUME PageInv, TypeOK', Attentive, UNCHANGED <<work, revisions>>,
         \A i \in DOMAIN threads' :
           \/ i \in DOMAIN threads /\ threads'[i] = threads[i]
           \/ threads'[i].status # "consumed" /\ ~IsLocked(threads'[i].key)
  PROVE  Attentive'
<1>1. \A k \in Keys : (IsLocked(k)' <=> IsLocked(k)) /\ (IsFrozen(k)' <=> IsFrozen(k))
  BY DEF IsLocked, IsFrozen
<1>2. LockedStays
  BY <1>1 DEF LockedStays
<1>3. AskedOnce'
  BY DEF Attentive, AskedOnce, IsFrozen
<1>4. \A j \in DOMAIN work : work[j].key \in Keys
                           /\ (work[j].key[2] > 0 => Before(work[j].key) \in Keys)
  BY WorkTypes, BeforeIsKey DEF PageInv
<1>5. BriefsAreComplete'
  BY <1>2, <1>4, BriefsStayComplete DEF Attentive, BriefsAreComplete
<1>6. \A i \in DOMAIN threads' : threads'[i].status = "consumed" =>
         i \in DOMAIN threads /\ threads'[i] = threads[i]
  OBVIOUS
<1>7. ConsumedByNext'
  <2>1. \A k \in Keys : k[2] > 0 /\ IsFrozen(k)' => IsLocked(Before(k))'
    BY DEF Attentive, ConsumedByNext, IsFrozen, IsLocked
  <2>2. \A i \in DOMAIN threads' : threads'[i].status = "consumed" =>
          \E k \in Keys : k[2] > 0 /\ IsFrozen(k)' /\ threads'[i].key = Before(k)
    BY <1>1, <1>6 DEF Attentive, ConsumedByNext
  <2>3. NoFeedbackIsLost'
    BY <1>6 DEF Attentive, ConsumedByNext, NoFeedbackIsLost
  <2> QED
    BY <2>1, <2>2, <2>3 DEF ConsumedByNext
<1> QED
  BY <1>3, <1>5, <1>7 DEF Attentive

LEMMA DiscussIsHeard ==
  ASSUME PageInv, TypeOK', Attentive, Discuss
  PROVE  Attentive'
<1> DEFINE Touches ==
             /\ UNCHANGED <<work, revisions>> /\ ~revisions[Current].locked
             /\ \A i \in DOMAIN threads' :
                  \/ i \in DOMAIN threads /\ threads'[i] = threads[i]
                  \/ threads'[i].status # "consumed" /\ threads'[i].key = Current
<1>1. Touches
  <2>1. ASSUME NEW p \in Participants, Annotate(p) PROVE Touches
    <3> DEFINE t == [key |-> Current, author |-> p, status |-> "open", replies |-> 0]
    <3>1. threads' = Append(threads, t) /\ state = "awaiting_approval"
          /\ UNCHANGED <<work, revisions>> /\ ~revisions[Current].locked
      BY <2>1 DEF Annotate, Annotatable
    <3>2. Current \in Keys
      BY <3>1, AwaitedIsLast
    <3>3. t \in Threads
      BY <3>2 DEF Threads
    <3>4. t.key = Current /\ t.status = "open"
      OBVIOUS
    <3> HIDE DEF t
    <3>5. DOMAIN threads' = DOMAIN threads \cup {Len(threads) + 1} /\ threads'[Len(threads) + 1] = t
          /\ \A i \in DOMAIN threads : threads'[i] = threads[i]
      BY <3>1, <3>3, ThreadAppend DEF PageInv, TypeOK
    <3> QED
      BY <3>1, <3>4, <3>5
  <2>2. ASSUME NEW i \in DOMAIN threads, Reply(i) PROVE Touches
    <3>1. /\ state = "awaiting_approval" /\ UNCHANGED <<work, revisions>>
          /\ ~revisions[Current].locked /\ threads[i].key = Current /\ threads[i].status = "open"
          /\ threads' = [threads EXCEPT ![i].replies = @ + 1]
      BY <2>2 DEF Reply, Annotatable
    <3>2. DOMAIN threads' = DOMAIN threads
          /\ \A j \in DOMAIN threads : threads'[j] =
                IF j = i THEN [threads[i] EXCEPT !.replies = @ + 1] ELSE threads[j]
      BY <3>1
    <3>3. threads[i] \in Threads
      BY ThreadTypes DEF PageInv
    <3>4. threads'[i].key = Current /\ threads'[i].status = "open"
      BY <3>1, <3>2, <3>3 DEF Threads
    <3> QED
      BY <3>1, <3>2, <3>4
  <2>3. ASSUME NEW i \in DOMAIN threads, NEW p \in Participants, Withdraw(p, i) PROVE Touches
    <3>1. /\ state = "awaiting_approval" /\ UNCHANGED <<work, revisions>>
          /\ ~revisions[Current].locked /\ threads[i].key = Current
          /\ threads' = [threads EXCEPT ![i].status = "withdrawn"]
      BY <2>3 DEF Withdraw, Annotatable
    <3>2. DOMAIN threads' = DOMAIN threads
          /\ \A j \in DOMAIN threads : threads'[j] =
                IF j = i THEN [threads[i] EXCEPT !.status = "withdrawn"] ELSE threads[j]
      BY <3>1
    <3>3. threads[i] \in Threads
      BY ThreadTypes DEF PageInv
    <3>4. threads'[i].key = Current /\ threads'[i].status = "withdrawn"
      BY <3>1, <3>2, <3>3 DEF Threads
    <3> QED
      BY <3>1, <3>2, <3>4
  <2> QED
    BY <2>1, <2>2, <2>3 DEF Discuss
<1>2. ~IsLocked(Current)
  BY <1>1 DEF IsLocked
<1> QED
  BY <1>1, <1>2, DiscussionIsHeard

\* A step that takes a request away, and asks for nothing.
LEMMA TakenIsHeard ==
  ASSUME PageInv, Attentive, UNCHANGED <<revisions, threads>>, work # <<>>, work' = Tail(work)
  PROVE  Attentive'
<1>1. \A j \in DOMAIN work' : j \in Nat /\ j + 1 \in DOMAIN work /\ work'[j] = work[j + 1]
  BY WorkTail DEF PageInv, TypeOK
<1>2. \A k : (IsFrozen(k)' <=> IsFrozen(k)) /\ (IsLocked(k)' <=> IsLocked(k))
             /\ \A m : SaysOpen(m, k)' <=> SaysOpen(m, k)
  BY DEF IsFrozen, IsLocked, SaysOpen, Says
<1>3. AskedOnce'
  <2>1. \A k \in Keys : IsFrozen(k)' => revisions'[k].plan.key = k
    BY <1>2 DEF Attentive, AskedOnce
  <2>2. ASSUME NEW i \in DOMAIN work', work'[i].type \in PlanTypes
        PROVE  revisions'[work'[i].key] = None
               /\ \A j \in DOMAIN work' : work'[j].type \in PlanTypes /\ work'[j].key = work'[i].key => j = i
    <3>1. work[i + 1].type \in PlanTypes /\ i + 1 \in DOMAIN work
      BY <1>1, <2>2
    <3>2. ~IsFrozen(work[i + 1].key)
          /\ \A j \in DOMAIN work : work[j].type \in PlanTypes /\ work[j].key = work[i + 1].key => j = i + 1
      BY <3>1 DEF Attentive, AskedOnce
    <3> QED
      BY <1>1, <2>2, <3>2 DEF IsFrozen
  <2> QED
    BY <2>1, <2>2 DEF AskedOnce, IsFrozen
<1>4. BriefsAreComplete'
  <2>1. \A j \in DOMAIN work : \A m : m = work[j] =>
           /\ m.type = "consolidate_annotations" => SaysOpen(m, m.key)'
           /\ m.type \in PlanTypes /\ m.key[2] > 0 => SaysOpen(m, Before(m.key))'
    BY <1>2 DEF Attentive, BriefsAreComplete
  <2> QED
    BY <1>1, <2>1 DEF BriefsAreComplete
<1>5. ConsumedByNext'
  BY DEF Attentive, ConsumedByNext, NoFeedbackIsLost, IsFrozen, IsLocked
<1> QED
  BY <1>3, <1>4, <1>5 DEF Attentive

\* A step that asks for something when revisions may have been locked: for
\* nothing a plan has to say, or for what says all open threads, which are those
\* of a locked revision.
LEMMA AskedIsHeard ==
  ASSUME PageInv, Attentive, UNCHANGED threads,
         \A k \in Keys : (IsFrozen(k)' <=> IsFrozen(k)) /\ (IsLocked(k) => IsLocked(k)'),
         \A k \in Keys : IsFrozen(k) => revisions'[k].plan = revisions[k].plan,
         NEW queue \in Seq(Requests),
         \/ queue = work
         \/ work # <<>> /\ queue = Tail(work),
         NEW m \in Requests, work' = Append(queue, m),
         m.type \in PlanTypes =>
            ~IsFrozen(m.key) /\ \A j \in DOMAIN work : work[j].key # m.key,
         m.type = "consolidate_annotations" => SaysOpen(m, m.key)',
         m.type \in PlanTypes /\ m.key[2] > 0 => SaysOpen(m, Before(m.key))'
  PROVE  Attentive'
<1>1. \A j \in DOMAIN work' :
        \/ j \in DOMAIN queue /\ work'[j] = queue[j]
        \/ j = Len(queue) + 1 /\ j \notin DOMAIN queue /\ work'[j] = m
  BY WorkAppend
<1>2. PICK n \in {0, 1} : \A j \in DOMAIN queue :
        j \in Nat /\ j + n \in DOMAIN work /\ queue[j] = work[j + n]
  <2>1. CASE queue = work
    BY <2>1, LenProperties
  <2>2. CASE work # <<>> /\ queue = Tail(work)
    BY <2>2, WorkTail DEF PageInv, TypeOK
  <2> QED
    BY <2>1, <2>2
<1>3. \A j \in DOMAIN work' : j \in Nat
  BY <1>1, <1>2, LenProperties
<1>4. \A j \in DOMAIN work : work[j].key \in Keys
                           /\ (work[j].key[2] > 0 => Before(work[j].key) \in Keys)
  BY WorkTypes, BeforeIsKey DEF PageInv
<1>5. m.key \in Keys
  BY DEF Requests
<1>6. AskedOnce'
  <2>1. \A k \in Keys : IsFrozen(k)' => revisions'[k].plan.key = k
    BY DEF Attentive, AskedOnce
  <2>2. ASSUME NEW i \in DOMAIN work', work'[i].type \in PlanTypes
        PROVE  revisions'[work'[i].key] = None
               /\ \A j \in DOMAIN work' : work'[j].type \in PlanTypes /\ work'[j].key = work'[i].key => j = i
    <3>1. CASE i \in DOMAIN queue /\ work'[i] = queue[i]
      <4>1. i + n \in DOMAIN work /\ work'[i] = work[i + n] /\ work[i + n].type \in PlanTypes
        BY <1>2, <2>2, <3>1
      <4>2. ~IsFrozen(work[i + n].key)
            /\ \A j \in DOMAIN work :
                  work[j].type \in PlanTypes /\ work[j].key = work[i + n].key => j = i + n
        BY <4>1 DEF Attentive, AskedOnce
      <4>3. revisions'[work'[i].key] = None
        BY <1>4, <4>1, <4>2 DEF IsFrozen
      <4>4. ASSUME NEW j \in DOMAIN work', work'[j].type \in PlanTypes, work'[j].key = work'[i].key
            PROVE  j = i
        <5>1. CASE j \in DOMAIN queue /\ work'[j] = queue[j]
          BY <1>2, <3>1, <4>1, <4>2, <4>4, <5>1
        <5>2. CASE work'[j] = m
          BY <4>1, <4>4, <5>2
        <5> QED
          BY <1>1, <5>1, <5>2
      <4> QED
        BY <4>3, <4>4
    <3>2. CASE i = Len(queue) + 1 /\ i \notin DOMAIN queue /\ work'[i] = m
      <4>1. revisions'[m.key] = None
        BY <1>5, <2>2, <3>2 DEF IsFrozen
      <4>2. ASSUME NEW j \in DOMAIN work', work'[j].key = m.key PROVE j = i
        BY <1>1, <1>2, <2>2, <3>2, <4>2
      <4> QED
        BY <3>2, <4>1, <4>2
    <3> QED
      BY <1>1, <3>1, <3>2
  <2> QED
    BY <2>1, <2>2 DEF AskedOnce, IsFrozen
<1>7. LockedStays
  BY DEF LockedStays
<1>8. BriefsAreComplete'
  <2>1. \A j \in DOMAIN work : \A r : r = work[j] =>
           /\ r.type = "consolidate_annotations" => SaysOpen(r, r.key)'
           /\ r.type \in PlanTypes /\ r.key[2] > 0 => SaysOpen(r, Before(r.key))'
    BY <1>4, <1>7, BriefsStayComplete DEF Attentive, BriefsAreComplete
  <2>2. \A j \in DOMAIN work' : \A r : r = work'[j] =>
           /\ r.type = "consolidate_annotations" => SaysOpen(r, r.key)'
           /\ r.type \in PlanTypes /\ r.key[2] > 0 => SaysOpen(r, Before(r.key))'
    BY <1>1, <1>2, <2>1
  <2> QED
    BY <2>2 DEF BriefsAreComplete
<1>9. ConsumedByNext'
  <2>1. \A k \in Keys : k[2] > 0 /\ IsFrozen(k)' => IsLocked(Before(k))'
    BY BeforeIsKey DEF Attentive, ConsumedByNext
  <2>2. \A i \in DOMAIN threads' : threads'[i].status = "consumed" =>
          \E k \in Keys : k[2] > 0 /\ IsFrozen(k)' /\ threads'[i].key = Before(k)
    BY DEF Attentive, ConsumedByNext
  <2>3. NoFeedbackIsLost'
    BY DEF Attentive, ConsumedByNext, NoFeedbackIsLost, IsFrozen
  <2> QED
    BY <2>1, <2>2, <2>3 DEF ConsumedByNext
<1> QED
  BY <1>6, <1>8, <1>9 DEF Attentive

\* Nothing is ahead of the current key.
LEMMA NothingIsAhead ==
  ASSUME PageInv, NEW k \in Keys, k[1] > run \/ (k[1] = run /\ k[2] > round)
  PROVE  ~IsFrozen(k) /\ \A j \in DOMAIN work : work[j].key # k
<1>1. ~NotAfter(k, Current)
  BY KeyParts, ReviewAssumption DEF NotAfter, Current, PageInv, TypeOK
<1> QED
  BY <1>1 DEF PageInv, OrderInv

\* A brief of a locked revision that says all of its open threads.
LEMMA BriefIsHeard ==
  ASSUME PageInv, Attentive, UNCHANGED threads, run > 0, round < MaxRefinementRounds,
         \A k \in Keys : (IsFrozen(k)' <=> IsFrozen(k)) /\ (IsLocked(k) => IsLocked(k)'),
         \A k \in Keys : IsFrozen(k) => revisions'[k].plan = revisions[k].plan,
         NEW queue \in Seq(Requests),
         \/ queue = work
         \/ work # <<>> /\ queue = Tail(work),
         NEW feedback \in SUBSET [thread : Nat, replies : Nat],
         DispatchProseBrief(feedback, queue),
         NEW c \in Keys, c = Current, IsLocked(c)',
         \A i \in DOMAIN threads : IsOpenOn(threads[i], c) => Says(feedback, i)
  PROVE  Attentive'
<1> PICK key : key = <<run, round + 1>>
  OBVIOUS
<1> PICK m : m = [type |-> "refine_plan", key |-> key, feedback |-> feedback]
  OBVIOUS
<1>1. work' = Append(queue, m)
  BY DEF DispatchProseBrief
<1>2. /\ key \in Keys /\ m.key = key /\ m.type = "refine_plan" /\ m.feedback = feedback
      /\ key[1] = run /\ key[2] > round
  BY ReviewAssumption DEF Keys, PageInv, TypeOK
<1>3. Before(key) = c
  BY DEF Before, Current, PageInv, TypeOK
<1>4. m \in Requests
  BY <1>2 DEF Requests, PlanTypes
<1>5. ~IsFrozen(key) /\ \A j \in DOMAIN work : work[j].key # key
  BY <1>2, NothingIsAhead
<1>6. SaysOpen(m, c)'
  BY <1>2 DEF SaysOpen, Says
<1> QED
  BY <1>1, <1>2, <1>3, <1>4, <1>5, <1>6, AskedIsHeard DEF PlanTypes

LEMMA StartRunIsHeard ==
  ASSUME PageInv, Attentive, StartRun
  PROVE  Attentive'
<1> DEFINE key == <<run + 1, 0>>
           m == [type |-> "plan", key |-> key, feedback |-> {}]
<1>1. work' = Append(work, m) /\ UNCHANGED <<revisions, threads>> /\ run < MaxRuns
  BY DEF StartRun
<1>2. /\ key \in Keys /\ m.key = key /\ m.type = "plan"
      /\ key[1] > run /\ key[2] = 0
  BY <1>1, ReviewAssumption DEF Keys, PageInv, TypeOK
<1>3. m \in Requests /\ work \in Seq(Requests)
  BY <1>2 DEF Requests, PlanTypes, PageInv, TypeOK
<1> HIDE DEF key, m
<1>4. ~IsFrozen(key) /\ \A j \in DOMAIN work : work[j].key # key
  BY <1>2, NothingIsAhead
<1>5. \A k \in Keys : (IsFrozen(k)' <=> IsFrozen(k)) /\ (IsLocked(k) => IsLocked(k)')
  BY <1>1 DEF IsFrozen, IsLocked
<1> QED
  BY <1>1, <1>2, <1>3, <1>4, <1>5, AskedIsHeard

LEMMA ApproveIsHeard ==
  ASSUME PageInv, Attentive, Approve
  PROVE  Attentive'
<1> DEFINE m == [type |-> "execute", key |-> Current, feedback |-> {}]
<1>1. work' = Append(work, m) /\ UNCHANGED <<revisions, threads>>
  BY DEF Approve
<1>2. m \in Requests /\ work \in Seq(Requests) /\ m.type = "execute"
  BY AwaitedIsLast DEF Approve, Requests, PageInv, TypeOK
<1> HIDE DEF m
<1>3. \A k \in Keys : (IsFrozen(k)' <=> IsFrozen(k)) /\ (IsLocked(k) => IsLocked(k)')
  BY <1>1 DEF IsFrozen, IsLocked
<1> QED
  BY <1>1, <1>2, <1>3, AskedIsHeard DEF PlanTypes

LEMMA RefineIsHeard ==
  ASSUME PageInv, Attentive, Refine
  PROVE  Attentive'
<1>1. /\ state = "awaiting_approval" /\ round < MaxRefinementRounds
      /\ LockPlanRevision /\ UNCHANGED threads
  BY DEF Refine
<1>2. run > 0 /\ Current \in Keys
  BY <1>1, AwaitedIsLast
<1>3. PICK c \in Keys : c = Current
  BY <1>2
<1> DEFINE open == OpenThreads(c)
<1>4. /\ \A k \in Keys : (IsFrozen(k)' <=> IsFrozen(k)) /\ (IsLocked(k) => IsLocked(k)')
      /\ \A k \in Keys : IsFrozen(k) => revisions'[k].plan = revisions[k].plan
      /\ IsLocked(c)'
  BY <1>1, <1>3, LockSteps
<1>5. Feedback(open) \in SUBSET [thread : Nat, replies : Nat] /\ work \in Seq(Requests)
  BY FeedbackTypes DEF OpenThreads, PageInv, TypeOK
<1>6. \A i \in DOMAIN threads : IsOpenOn(threads[i], c) => Says(Feedback(open), i)
  BY DEF OpenThreads, Feedback, Says
<1>7. CASE DispatchProseBrief(Feedback(open), work)
  BY <1>1, <1>2, <1>3, <1>4, <1>5, <1>6, <1>7, BriefIsHeard
<1>8. CASE work' = Append(work, [type |-> "consolidate_annotations",
                                 key |-> Current, feedback |-> Feedback(open)])
  <2> PICK m : m = [type |-> "consolidate_annotations", key |-> c, feedback |-> Feedback(open)]
    OBVIOUS
  <2>1. /\ m \in Requests /\ m.type = "consolidate_annotations" /\ m.key = c
        /\ m.feedback = Feedback(open) /\ work' = Append(work, m)
    BY <1>3, <1>5, <1>8 DEF Requests
  <2>2. SaysOpen(m, c)'
    BY <1>1, <1>4, <1>6, <2>1 DEF SaysOpen, Says
  <2> QED
    BY <1>1, <1>4, <1>5, <2>1, <2>2, AskedIsHeard DEF PlanTypes
<1> QED
  BY <1>3, <1>7, <1>8 DEF Refine

LEMMA ConsolidationIsHeard ==
  ASSUME PageInv, Attentive, ConsolidationComplete \/ ConsolidationFailed
  PROVE  Attentive'
<1>1. /\ work # <<>> /\ Head(work).type = "consolidate_annotations"
      /\ UNCHANGED <<revisions, threads>> /\ work \in Seq(Requests)
  BY DEF ConsolidationComplete, ConsolidationFailed, Answers, PageInv, TypeOK
<1>2. CASE work' = Tail(work)
  BY <1>1, <1>2, TakenIsHeard
<1>3. CASE ConsolidationComplete /\ IsAwaited(Head(work))
  <2>1. /\ Head(work) = work[1] /\ 1 \in DOMAIN work /\ Head(work) \in Requests
        /\ Tail(work) \in Seq(Requests)
    BY <1>1, WorkTail
  <2>2. DispatchProseBrief(Head(work).feedback, Tail(work)) /\ run > 0
    BY <1>3 DEF ConsolidationComplete, IsAwaited, PageInv, OrderInv
  <2>3. PICK c \in Keys : c = Current
    BY <2>2, CurrentIsKey DEF PageInv
  <2>4. round < MaxRefinementRounds
    BY <1>1, <1>3, <2>1, <2>2, CurrentIsKey DEF IsAwaited, PageInv, OrderInv
  <2>5. SaysOpen(Head(work), c)
    BY <1>1, <1>3, <2>1, <2>3 DEF IsAwaited, Attentive, BriefsAreComplete
  <2>6. PICK feedback \in SUBSET [thread : Nat, replies : Nat] : feedback = Head(work).feedback
    BY <2>1 DEF Requests
  <2>7. IsLocked(c)' /\ \A i \in DOMAIN threads : IsOpenOn(threads[i], c) => Says(feedback, i)
    BY <1>1, <2>5, <2>6 DEF SaysOpen, IsLocked, IsFrozen
  <2>8. \A k \in Keys : (IsFrozen(k)' <=> IsFrozen(k)) /\ (IsLocked(k) => IsLocked(k)')
    BY <1>1 DEF IsFrozen, IsLocked
  <2> QED
    BY <1>1, <2>1, <2>2, <2>3, <2>4, <2>6, <2>7, <2>8, BriefIsHeard
<1> QED
  BY <1>2, <1>3 DEF ConsolidationComplete, ConsolidationFailed

\* A plan that is frozen for the key it was asked for answers what it consumes.
LEMMA FreezeIsHeard ==
  ASSUME PageInv, Attentive, PlanReady, state \in {"planning", "refining"},
         Head(work).key = Current
  PROVE  Attentive'
<1>1. /\ work # <<>> /\ work' = Tail(work) /\ UNCHANGED <<run, round>>
      /\ work \in Seq(Requests) /\ Head(work).type \in PlanTypes
      /\ FreezePlanRevision(Head(work))
  BY DEF PlanReady, Answers, PageInv, TypeOK, PlanTypes
<1>2. /\ Head(work) = work[1] /\ 1 \in DOMAIN work /\ Head(work) \in Requests
      /\ \A j \in DOMAIN work' : j \in Nat /\ j + 1 \in DOMAIN work
                               /\ work'[j] = work[j + 1] /\ j + 1 # 1
  BY <1>1, WorkTail
<1>3. PICK plan \in Requests : plan = Head(work)
  BY <1>2
<1>4. /\ revisions'[Current] = [locked |-> FALSE, plan |-> plan]
      /\ \A k \in Keys \ {Current} : revisions'[k] = revisions[k]
      /\ \A k \in Keys : IsFrozen(k)' <=> IsFrozen(k) \/ k = Current
      /\ Current \in Keys /\ Current = <<run, round>>
  BY <1>1, <1>2, <1>3, FreezeSteps
<1>5. PICK c \in Keys : c = Current /\ c = <<run, round>>
  BY <1>4
<1>6. /\ revisions'[c] = [locked |-> FALSE, plan |-> plan] /\ plan.key = c
      /\ \A k \in Keys : k # c => revisions'[k] = revisions[k]
      /\ \A k \in Keys : IsFrozen(k)' <=> IsFrozen(k) \/ k = c
  BY <1>3, <1>4, <1>5
<1>7. ~IsFrozen(c) /\ \A j \in DOMAIN work : work[j].type \in PlanTypes /\ work[j].key = c => j = 1
  <2>1. work[1].type \in PlanTypes /\ work[1].key = c
    BY <1>1, <1>2, <1>5
  <2> QED
    BY <1>2, <2>1 DEF Attentive, AskedOnce
<1> DEFINE ids == IF round > 0 THEN OpenThreads(<<run, round - 1>>) ELSE {}
<1>8. /\ DOMAIN threads' = DOMAIN threads
      /\ \A i \in DOMAIN threads :
           /\ threads'[i].key = threads[i].key /\ threads'[i].replies = threads[i].replies
           /\ threads'[i].status = IF i \in ids THEN "consumed" ELSE threads[i].status
  <2>1. threads' = Consumed(ids)
    BY <1>1 DEF FreezePlanRevision
  <2> HIDE DEF ids
  <2> QED
    BY <2>1, ConsumedTypes DEF PageInv
<1>9. \A i \in ids : c[2] > 0 /\ IsOpenOn(threads[i], Before(c))
  BY <1>5 DEF OpenThreads, Before
<1> HIDE DEF ids
<1>10. \A k \in Keys : (IsLocked(k) => IsLocked(k)') /\ (IsFrozen(k) => k # c)
  BY <1>6, <1>7 DEF IsLocked, IsFrozen
<1>11. LockedStays
  BY <1>8, <1>10, ThreadTypes DEF LockedStays, PageInv, Threads
<1>12. \A j \in DOMAIN work : work[j].key \in Keys
                            /\ (work[j].key[2] > 0 => Before(work[j].key) \in Keys)
  BY WorkTypes, BeforeIsKey DEF PageInv
<1>13. AskedOnce'
  <2>1. \A k \in Keys : IsFrozen(k)' => revisions'[k].plan.key = k
    BY <1>6 DEF Attentive, AskedOnce
  <2>2. ASSUME NEW i \in DOMAIN work', work'[i].type \in PlanTypes
        PROVE  revisions'[work'[i].key] = None
               /\ \A j \in DOMAIN work' : work'[j].type \in PlanTypes /\ work'[j].key = work'[i].key => j = i
    <3>1. work[i + 1].type \in PlanTypes /\ i + 1 \in DOMAIN work /\ i + 1 # 1
      BY <1>2, <2>2
    <3>2. ~IsFrozen(work[i + 1].key) /\ work[i + 1].key # c
          /\ \A j \in DOMAIN work : work[j].type \in PlanTypes /\ work[j].key = work[i + 1].key => j = i + 1
      BY <1>7, <3>1 DEF Attentive, AskedOnce
    <3>3. revisions'[work[i + 1].key] = None
      BY <1>6, <1>12, <3>1, <3>2 DEF IsFrozen
    <3> QED
      BY <1>2, <2>2, <3>2, <3>3
  <2> QED
    BY <2>1, <2>2 DEF AskedOnce, IsFrozen
<1>14. BriefsAreComplete'
  <2>1. \A j \in DOMAIN work : \A r : r = work[j] =>
           /\ r.type = "consolidate_annotations" => SaysOpen(r, r.key)'
           /\ r.type \in PlanTypes /\ r.key[2] > 0 => SaysOpen(r, Before(r.key))'
    BY <1>11, <1>12, BriefsStayComplete DEF Attentive, BriefsAreComplete
  <2> QED
    BY <1>2, <2>1 DEF BriefsAreComplete
<1>15. c[2] > 0 => SaysOpen(plan, Before(c)) /\ Before(c) \in Keys
  BY <1>1, <1>2, <1>3, <1>6, BeforeIsKey DEF Attentive, BriefsAreComplete
<1>16. ConsumedByNext'
  <2>1. ASSUME NEW k \in Keys, k[2] > 0, IsFrozen(k)'
        PROVE  IsLocked(Before(k))'
    <3>1. Before(k) \in Keys
      BY <2>1, BeforeIsKey
    <3>2. IsLocked(Before(k))
      BY <1>6, <1>15, <2>1 DEF Attentive, ConsumedByNext, SaysOpen
    <3> QED
      BY <1>10, <3>1, <3>2
  <2>2. ASSUME NEW i \in DOMAIN threads, threads'[i].status = "consumed"
        PROVE  \E k \in Keys : k[2] > 0 /\ IsFrozen(k)' /\ threads'[i].key = Before(k)
    <3>1. CASE i \in ids
      BY <1>6, <1>8, <1>9, <3>1 DEF IsOpenOn
    <3>2. CASE threads[i].status = "consumed"
      <4>1. PICK k \in Keys : k[2] > 0 /\ IsFrozen(k) /\ threads[i].key = Before(k)
        BY <3>2 DEF Attentive, ConsumedByNext
      <4> QED
        BY <1>6, <1>8, <4>1
    <3> QED
      BY <1>8, <2>2, <3>1, <3>2
  <2>3. ASSUME NEW k \in Keys, k[2] > 0, IsFrozen(k)', NEW i \in DOMAIN threads,
               threads'[i].key = Before(k), threads'[i].status = "consumed"
        PROVE  [thread |-> i, replies |-> threads'[i].replies] \in revisions'[k].plan.feedback
    <3>1. CASE i \in ids
      <4>1. c[2] > 0 /\ IsOpenOn(threads[i], Before(c)) /\ threads[i].key = Before(k)
        BY <1>8, <1>9, <2>3, <3>1
      <4>2. k = c
        BY <2>3, <4>1, BeforeIsKey DEF IsOpenOn
      <4>3. Says(plan.feedback, i)
        BY <1>15, <4>1 DEF SaysOpen
      <4> QED
        BY <1>6, <1>8, <4>2, <4>3 DEF Says
    <3>2. CASE threads[i].status = "consumed"
      <4>1. PICK l \in Keys : l[2] > 0 /\ IsFrozen(l) /\ threads[i].key = Before(l)
        BY <3>2 DEF Attentive, ConsumedByNext
      <4>2. l = k
        BY <1>8, <2>3, <4>1, BeforeIsKey
      <4>3. [thread |-> i, replies |-> threads[i].replies] \in revisions[k].plan.feedback
        BY <1>8, <2>3, <3>2, <4>1, <4>2
           DEF Attentive, ConsumedByNext, NoFeedbackIsLost, IsFrozen, Before
      <4> QED
        BY <1>6, <1>8, <1>10, <4>1, <4>2, <4>3
    <3> QED
      BY <1>8, <2>3, <3>1, <3>2
  <2>4. NoFeedbackIsLost'
    BY <1>8, <2>3 DEF NoFeedbackIsLost, IsFrozen, Before
  <2> QED
    BY <1>8, <2>1, <2>2, <2>4 DEF ConsumedByNext
<1> QED
  BY <1>13, <1>14, <1>16 DEF Attentive

\* The late plan of an aborted run that is frozen is noticed.
LEMMA PlanReadyIsHeard ==
  ASSUME PageInv, Attentive, PlanReady
  PROVE  Attentive' \/ (PlanIsLate /\ revisions' # revisions)
<1>1. work # <<>> /\ work' = Tail(work) /\ Answers({"plan", "refine_plan"})
  BY DEF PlanReady, Answers
<1>2. CASE state \notin {"planning", "refining"}
  BY <1>1, <1>2, TakenIsHeard DEF PlanReady
<1>3. CASE state \in {"planning", "refining"} /\ Head(work).key = Current
  BY <1>3, FreezeIsHeard
<1>4. CASE state \in {"planning", "refining"} /\ Head(work).key # Current
  <2>1. Head(work) \in Requests
    BY <1>1, WorkTail DEF PageInv, TypeOK
  <2>2. Current \in Keys /\ revisions'[Current] = [locked |-> FALSE, plan |-> Head(work)]
        /\ \A k \in Keys : IsFrozen(k)' <=> IsFrozen(k) \/ k = Current
    BY <1>4, <2>1, FreezeSteps DEF PlanReady
  <2>3. ASSUME revisions' = revisions PROVE FALSE
    <3>1. IsFrozen(Current)
      BY <2>2, <2>3 DEF IsFrozen
    <3>2. revisions[Current].plan.key = Current
      BY <2>2, <3>1 DEF Attentive, AskedOnce
    <3>3. revisions[Current].plan = Head(work)
      BY <2>2, <2>3
    <3> QED
      BY <1>4, <3>2, <3>3
  <2> QED
    BY <1>1, <1>4, <2>3 DEF PlanIsLate
<1> QED
  BY <1>2, <1>3, <1>4

LEMMA FeedbackSteps ==
  ASSUME PageInv, FeedbackInv, [MCNext]_<<vars, late>>
  PROVE  FeedbackInv'
<1>1. PageInv'
  <2>1. [Next]_vars
    BY DEF MCNext, Next
  <2> QED
    BY <2>1, PageSteps
<1>2. CASE late
  BY <1>2 DEF FeedbackInv, MCNext
<1>3. CASE ~late
  <2>1. Attentive
    BY <1>3 DEF FeedbackInv
  <2>2. CASE UNCHANGED <<vars, late>>
    <3>1. UNCHANGED <<work, revisions, threads>>
      BY <2>2 DEF vars
    <3> QED
      BY <1>1, <2>1, <3>1, DiscussionIsHeard DEF FeedbackInv, PageInv
  <2>3. CASE Discuss
    BY <1>1, <2>1, <2>3, DiscussIsHeard DEF FeedbackInv, PageInv
  <2>4. CASE Abort
    <3>1. UNCHANGED <<work, revisions, threads>>
      BY <2>4 DEF Abort
    <3> QED
      BY <1>1, <2>1, <3>1, DiscussionIsHeard DEF FeedbackInv, PageInv
  <2>5. CASE StartRun \/ Approve \/ Refine
    BY <2>1, <2>5, StartRunIsHeard, ApproveIsHeard, RefineIsHeard DEF FeedbackInv
  <2>6. CASE Answer /\ late' = (late \/ (PlanIsLate /\ revisions' # revisions))
    <3>1. CASE PlanReady
      BY <2>1, <2>6, <3>1, PlanReadyIsHeard DEF FeedbackInv
    <3>2. CASE ConsolidationComplete \/ ConsolidationFailed
      BY <2>1, <3>2, ConsolidationIsHeard DEF FeedbackInv
    <3>3. CASE ExecutionDone \/ WorkFails
      BY <2>1, <3>3, TakenIsHeard DEF FeedbackInv, ExecutionDone, WorkFails, Answers
    <3> QED
      BY <2>6, <3>1, <3>2, <3>3 DEF Answer
  <2> QED
    BY <2>2, <2>3, <2>4, <2>5, <2>6 DEF MCNext, Decide
<1> QED
  BY <1>2, <1>3

\* As long as no late plan was frozen, every plan is asked for once, with all
\* that was said of the locked revision before it.
THEOREM BriefsSayAll == MCSpec => [](PageInv /\ FeedbackInv)
<1>1. MCInit => PageInv /\ FeedbackInv
  <2> SUFFICES ASSUME MCInit PROVE PageInv /\ FeedbackInv
    OBVIOUS
  <2>1. DOMAIN threads = {} /\ DOMAIN work = {} /\ \A k \in Keys : ~IsFrozen(k)
    BY DEF MCInit, Init, IsFrozen
  <2>2. Attentive
    BY <2>1 DEF Attentive, AskedOnce, BriefsAreComplete, ConsumedByNext, NoFeedbackIsLost, IsFrozen
  <2> QED
    BY <2>2, PageStart DEF FeedbackInv, MCInit
<1>2. PageInv /\ FeedbackInv /\ [MCNext]_<<vars, late>> => (PageInv /\ FeedbackInv)'
  <2>1. [MCNext]_<<vars, late>> => [Next]_vars
    BY DEF MCNext, Next
  <2> QED
    BY <2>1, PageSteps, FeedbackSteps
<1> QED
  BY <1>1, <1>2, PTL DEF MCSpec

\* No feedback is lost until the late plan of an aborted run is frozen.
THEOREM FeedbackIsHeard == MCSpec => []NoFeedbackIsLostUntilLatePlan
<1>1. FeedbackInv => NoFeedbackIsLostUntilLatePlan
  BY DEF FeedbackInv, Attentive, ConsumedByNext, NoFeedbackIsLostUntilLatePlan
<1> QED
  BY <1>1, BriefsSayAll, PTL
=============================================================================
