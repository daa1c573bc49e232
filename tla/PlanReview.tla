----------------------------- MODULE PlanReview -----------------------------
(***************************************************************************)
(* The collaborative review of plans: participants annotate the frozen     *)
(* revision of a plan, reply and withdraw, and a refinement locks the      *)
(* revision, turns its open threads into a brief and consumes them when    *)
(* the next revision freezes.  Aborting a run does not stop the sandbox,   *)
(* which works through what it was sent in order.                          *)
(*                                                                         *)
(* Every command may arrive at any time from anyone, as pages lag behind   *)
(* and a client need not be a page.  A refused command changes nothing     *)
(* here (it reports an error).  A plan is known by the request it answers  *)
(* and the feedback it was written from; notes, anchors and the wording    *)
(* of comments are left out.  All runs are plan-first: SessionRuns has the *)
(* others, the queue and the limits.                                       *)
(***************************************************************************)
EXTENDS Naturals, Sequences, FiniteSets

CONSTANTS
    Participants,
    MaxRefinementRounds,  \* MAX_REFINEMENT_ROUNDS
    MaxRuns,              \* bound: agent runs of the Session
    MaxThreads,           \* bound: annotations of the Session
    MaxReplies            \* bound: replies to an annotation

ASSUME ReviewAssumption ==
    {MaxRefinementRounds, MaxRuns, MaxThreads, MaxReplies} \subseteq Nat

VARIABLES
    state,      \* host.meta.state
    run,        \* number of the last run started
    round,      \* refinement_round
    revisions,  \* table plan_revisions: by run and round
    threads,    \* tables annotations and annotation_replies, in creation order
    work,       \* requests the sandbox has not answered, in order
    view        \* what the events fold into: planRevision and annotations

vars == <<state, run, round, revisions, threads, work, view>>

None == [absent |-> TRUE]
Keys == (1 .. MaxRuns) \X (0 .. MaxRefinementRounds)
Current == <<run, round>>

-----------------------------------------------------------------------------
(* Threads: plan-revisions-store.ts, annotations.ts *)

IsOpenOn(t, key) == t.key = key /\ t.status = "open"

\* loadOpenAnnotationThreads.
OpenThreads(key) == {i \in DOMAIN threads : IsOpenOn(threads[i], key)}

\* toConsolidationAnnotations and proseBriefFromNote: what the agent is told
\* of some threads, that is a thread and how many of its replies.
CommentsOnly(ids) == {[thread |-> i, replies |-> 0] : i \in ids}
Feedback(ids) == {[thread |-> i, replies |-> threads[i].replies] : i \in ids}

\* ensureAnnotatableRevision.
Annotatable(key) ==
    /\ state = "awaiting_approval" /\ key = Current
    /\ revisions[key] # None /\ ~revisions[key].locked

-----------------------------------------------------------------------------
(* What the events fold into: projection-reducers.ts, projections.ts *)

EmptyView == [revision |-> None, threads |-> <<>>]

\* reducePlanRevision, and the annotations that applyToSessionSnapshot forgets
\* when the revision is another one.
NeverSame(v, key) == FALSE
IsSameRevision(v, key) == v.revision # None /\ v.revision.key = key
Frozen(v, key) ==
    [revision |-> [key |-> key, locked |-> FALSE],
     threads  |-> IF IsSameRevision(v, key) THEN v.threads ELSE <<>>]

\* reducePlanRevision of an event without markdown.
Locked(v) == IF v.revision = None THEN v ELSE [v EXCEPT !.revision.locked = TRUE]

\* reduceAnnotations: annotation_created, and a change of the threads `ids`.
Shown(v, id, t) ==
    [v EXCEPT !.threads = [i \in DOMAIN @ \cup {id} |-> IF i = id THEN t ELSE @[i]]]
Replied(v, id) ==
    IF id \in DOMAIN v.threads THEN [v EXCEPT !.threads[id].replies = @ + 1] ELSE v
Marked(v, ids, status) ==
    [v EXCEPT !.threads = [i \in DOMAIN @ |->
        IF i \in ids THEN [@[i] EXCEPT !.status = status] ELSE @[i]]]

-----------------------------------------------------------------------------
(* Annotations: cli-handlers.ts *)

\* handleAnnotationCreate.
Annotate(p) ==
    LET t == [key |-> Current, author |-> p, status |-> "open", replies |-> 0]
    IN  /\ Annotatable(Current) /\ Len(threads) < MaxThreads
        /\ threads' = Append(threads, t)
        /\ view' = Shown(view, Len(threads'), t)
        /\ UNCHANGED <<state, run, round, revisions, work>>

\* handleAnnotationReply.
Reply(i) ==
    /\ Annotatable(threads[i].key) /\ threads[i].status = "open"
    /\ threads[i].replies < MaxReplies
    /\ threads' = [threads EXCEPT ![i].replies = @ + 1]
    /\ view' = Replied(view, i)
    /\ UNCHANGED <<state, run, round, revisions, work>>

\* handleAnnotationWithdraw.
Withdraw(p, i) ==
    /\ Annotatable(threads[i].key) /\ threads[i].status = "open"
    /\ threads[i].author = p
    /\ threads' = [threads EXCEPT ![i].status = "withdrawn"]
    /\ view' = Marked(view, {i}, "withdrawn")
    /\ UNCHANGED <<state, run, round, revisions, work>>

-----------------------------------------------------------------------------
(* Decisions: cli-handlers.ts, agent-run-coordinator.ts *)

\* startAgentRun of a plan-first request.
StartRun ==
    /\ state = "ready" /\ run < MaxRuns
    /\ state' = "planning" /\ run' = run + 1 /\ round' = 0
    /\ work' = Append(work, [type |-> "plan", key |-> <<run', 0>>, feedback |-> {}])
    /\ UNCHANGED <<revisions, threads, view>>

\* handleApprove.
Approve ==
    /\ state = "awaiting_approval" /\ state' = "executing"
    /\ work' = Append(work, [type |-> "execute", key |-> Current, feedback |-> {}])
    /\ UNCHANGED <<run, round, revisions, threads, view>>

\* dispatchProseBrief, of a brief that says `feedback`.
DispatchProseBrief(feedback, queue) ==
    /\ round' = round + 1
    /\ work' = Append(queue, [type |-> "refine_plan", key |-> <<run, round'>>,
                              feedback |-> feedback])

\* lockPlanRevision.
LockPlanRevision ==
    /\ revisions' = [revisions EXCEPT ![Current].locked = TRUE]
    /\ view' = Locked(view)

\* handleRefine and startPlanFirstRefinement: one thread needs no consolidation.
Refine ==
    /\ state = "awaiting_approval" /\ round < MaxRefinementRounds
    /\ state' = "refining"
    /\ LockPlanRevision
    /\ LET open == OpenThreads(Current)
       IN  IF Cardinality(open) <= 1
             THEN DispatchProseBrief(Feedback(open), work)
             ELSE /\ work' = Append(work, [type |-> "consolidate_annotations",
                                           key |-> Current, feedback |-> Feedback(open)])
                  /\ UNCHANGED round
    /\ UNCHANGED <<run, threads>>

\* handleAbort: the sandbox is not told.
Abort ==
    /\ state \notin {"ready", "failed"} /\ state' = "ready"
    /\ UNCHANGED <<run, round, revisions, threads, work, view>>

-----------------------------------------------------------------------------
(* The sandbox answers: sandbox-handlers.ts, plan-revision-actions.ts *)

Answers(types) == work # <<>> /\ Head(work).type \in types

\* consumeOpenAnnotations.
Consumed(ids) ==
    [i \in DOMAIN threads |->
        IF i \in ids THEN [threads[i] EXCEPT !.status = "consumed"] ELSE threads[i]]

\* freezePlanRevision: it replaces a row with the same key, its lock included.
FreezePlanRevision(plan) ==
    LET ids == IF round > 0 THEN OpenThreads(<<run, round - 1>>) ELSE {}
    IN  /\ threads' = Consumed(ids)
        /\ revisions' = [revisions EXCEPT ![Current] = [locked |-> FALSE, plan |-> plan]]
        /\ view' = Frozen(Marked(view, ids, "consumed"), Current)

\* handleSandboxPlanReady: the message does not say which request it answers.
PlanReady ==
    /\ Answers({"plan", "refine_plan"}) /\ work' = Tail(work)
    /\ IF state \in {"planning", "refining"}
         THEN FreezePlanRevision(Head(work)) /\ state' = "awaiting_approval"
         ELSE UNCHANGED <<state, revisions, threads, view>>
    /\ UNCHANGED <<run, round>>

\* handleConsolidationComplete and handleConsolidationFailed look whether the
\* consolidation is the one awaited.
IsAwaited(m) == state = "refining" /\ m.key = Current

ConsolidationComplete ==
    /\ Answers({"consolidate_annotations"})
    /\ IF IsAwaited(Head(work))
         THEN DispatchProseBrief(Head(work).feedback, Tail(work))
         ELSE work' = Tail(work) /\ UNCHANGED round
    /\ UNCHANGED <<state, run, revisions, threads, view>>

\* The revision stays locked.
ConsolidationFailed ==
    /\ Answers({"consolidate_annotations"}) /\ work' = Tail(work)
    /\ state' = IF IsAwaited(Head(work)) THEN "awaiting_approval" ELSE state
    /\ UNCHANGED <<run, round, revisions, threads, view>>

\* The sandbox is through with a plan it executed, verified and published, the
\* steps of which are in SessionRuns.
ExecutionDone ==
    /\ Answers({"execute"}) /\ work' = Tail(work)
    /\ state' = IF state = "executing" THEN "ready" ELSE state
    /\ UNCHANGED <<run, round, revisions, threads, view>>

\* An `error` ends the executing run, whichever it is, or else the Session.
WorkFails ==
    /\ Answers({"plan", "refine_plan", "execute"}) /\ work' = Tail(work)
    /\ state' = IF state = "executing" THEN "ready" ELSE "failed"
    /\ UNCHANGED <<run, round, revisions, threads, view>>

-----------------------------------------------------------------------------
Init ==
    /\ state = "ready" /\ run = 0 /\ round = 0
    /\ revisions = [k \in Keys |-> None] /\ threads = <<>>
    /\ work = <<>> /\ view = EmptyView

Discuss ==
    \/ \E p \in Participants : Annotate(p)
    \/ \E i \in DOMAIN threads : Reply(i) \/ \E p \in Participants : Withdraw(p, i)
Decide == StartRun \/ Approve \/ Refine \/ Abort
Answer == PlanReady \/ ConsolidationComplete \/ ConsolidationFailed \/ ExecutionDone \/ WorkFails

Next == Discuss \/ Decide \/ Answer

Spec == Init /\ [][Next]_vars

-----------------------------------------------------------------------------
(* Properties *)

\* The plan of a request that is over was taken for the current one's.
PlanIsLate ==
    /\ Answers({"plan", "refine_plan"}) /\ state \in {"planning", "refining"}
    /\ Head(work).key # Current

\* A thread is consumed only if the plan that answers it was written from the
\* thread and all of its replies (consumeOpenAnnotations does not look at what
\* the brief was made from).
NoFeedbackIsLost ==
    \A k \in Keys : k[2] > 0 /\ revisions[k] # None =>
        \A i \in DOMAIN threads :
            threads[i].key = <<k[1], k[2] - 1>> /\ threads[i].status = "consumed" =>
                [thread |-> i, replies |-> threads[i].replies] \in revisions[k].plan.feedback

\* What a page shows of the last frozen revision, once it has all events, is
\* what the tables hold: its lock and its open threads with their replies
\* (reducePlanRevision, reduceAnnotations, applyToSessionSnapshot).
LastFrozen ==
    CHOOSE k \in Keys : /\ revisions[k] # None
                        /\ \A l \in Keys : revisions[l] # None =>
                             l[1] < k[1] \/ (l[1] = k[1] /\ l[2] <= k[2])
OpenOf(ts) == {i \in DOMAIN ts : IsOpenOn(ts[i], LastFrozen)}
PagesShowTheTables ==
    IF \A k \in Keys : revisions[k] = None
      THEN view = EmptyView
      ELSE /\ view.revision = [key |-> LastFrozen, locked |-> revisions[LastFrozen].locked]
           /\ OpenOf(view.threads) = OpenOf(threads)
           /\ \A i \in OpenOf(threads) : view.threads[i] = threads[i]
=============================================================================
