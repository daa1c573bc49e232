-------------------------- MODULE SessionDirectory --------------------------
(***************************************************************************)
(* The table `sessions` of D1, which lists the Sessions: how a request     *)
(* creates a row under an Idempotency-Key, and how each Session's Durable  *)
(* Object writes its state into the row, one write at a time, with writes  *)
(* that time out and may still land later.                                 *)
(*                                                                         *)
(* A Session is named by the request that creates it.  What the fields of  *)
(* a row say is left out: each change of a field by the object has a       *)
(* number, and 0 is the value of a new row.                                *)
(***************************************************************************)
EXTENDS Integers, FiniteSets

CONSTANTS
    Requests,      \* POST /sessions and Slack mentions
    NoRequest,
    Keys,          \* Idempotency-Keys, each with its user
    NoKey,
    Fields,        \* room_state, sandbox_state, active_run_state
    Attempts,      \* attempts of runSessionDirectoryUpdateWithRetry
    Conflicts,     \* conflict attempts of persistDirectoryUpdate
    MaxTime,       \* bound: readings of the wall clock
    MaxUpdates,    \* bound: calls of updateDirectory of each Session
    MaxFaults      \* bound: errors, timeouts, restarts

ASSUME DirectoryAssumption ==
    /\ NoKey \notin Keys /\ NoRequest \notin Requests
    /\ Attempts \in Nat \ {0} /\ Conflicts \in Nat \ {0}
    /\ MaxTime \in Nat \ {0} /\ MaxUpdates \in [Requests -> Nat] /\ MaxFaults \in Nat

VARIABLES
    rows,    \* the row of each Session: its fields, and last_event_at or 0
    keys,    \* session_idempotency: the Session of each key, or NoRequest
    pc,      \* what each request awaits, or how it ended
    key,     \* the key of each request
    answer,  \* the Session that the response to each request names
    object,  \* the Durable Object of each Session
    truth,   \* the number of the last change of each field
    late,    \* statements that timed out and may still be carried out
    unsure,  \* fields whose last write was given up, or overtaken in another life
    updates, faults

vars == <<rows, keys, pc, key, answer, object, truth, late, unsure, updates, faults>>
createVars == <<keys, pc, key, answer>>

CreatorFailed == -1
Initially == [f \in Fields |-> 0]
Times == 1 .. MaxTime

Fault == faults < MaxFaults /\ faults' = faults + 1

\* How a request ends.
Ended == {"done", "failed", "cut"}

-----------------------------------------------------------------------------
(* Creating a Session: handleCreateSession, createSession *)

GoesTo(r, step) == pc' = [pc EXCEPT ![r] = step] /\ UNCHANGED answer
Answer(r, s) == pc' = [pc EXCEPT ![r] = "done"] /\ answer' = [answer EXCEPT ![r] = s]

\* A request arrives: the API's with a key or without one, or createSession's
\* for a Slack mention, which has none.
Arrives(r, k) ==
    /\ pc[r] = "new"
    /\ key' = [key EXCEPT ![r] = k]
    /\ GoesTo(r, IF k = NoKey THEN "insert" ELSE "lookup")
    /\ UNCHANGED <<rows, keys, object, truth, late, unsure, faults, updates>>

\* sessionIdempotencyLookup: a key seen before is answered with its Session.
LooksUp(r) ==
    /\ pc[r] = "lookup"
    /\ IF keys[key[r]] # NoRequest THEN Answer(r, keys[key[r]]) ELSE GoesTo(r, "insert")
    /\ UNCHANGED <<rows, keys, key, object, truth, late, unsure, faults, updates>>

\* One batch inserts the row and the key; the primary key of
\* session_idempotency refuses a second Session.
NewRow(r, t) == [rows EXCEPT ![r] = [state |-> Initially, at |-> t]]
BatchOfRowAlone(r, t) == rows' = NewRow(r, t) /\ UNCHANGED keys
BatchWrites(r, t) ==
    /\ rows' = NewRow(r, t)
    /\ keys' = IF key[r] = NoKey THEN keys ELSE [keys EXCEPT ![key[r]] = r]
KeyIsFree(r) == key[r] # NoKey => keys[key[r]] = NoRequest

Inserts(r) ==
    /\ pc[r] = "insert"
    /\ IF KeyIsFree(r)
         THEN \E t \in Times : BatchWrites(r, t) /\ GoesTo(r, "init")
         ELSE GoesTo(r, "conflict") /\ UNCHANGED <<rows, keys>>
    /\ UNCHANGED <<key, object, truth, late, unsure, faults, updates>>

\* The batch reports an error, although it may have been committed.
InsertFails(r) ==
    /\ pc[r] = "insert" /\ KeyIsFree(r) /\ Fault
    /\ \/ \E t \in Times : BatchWrites(r, t)
       \/ UNCHANGED <<rows, keys>>
    /\ GoesTo(r, IF key[r] = NoKey THEN "failed" ELSE "conflict")
    /\ UNCHANGED <<key, object, truth, late, unsure, updates>>

\* After an error of the batch the key is looked up once more.
ConflictLooksUp(r) ==
    /\ pc[r] = "conflict"
    /\ IF keys[key[r]] # NoRequest THEN Answer(r, keys[key[r]]) ELSE GoesTo(r, "failed")
    /\ UNCHANGED <<rows, keys, key, object, truth, late, unsure, faults, updates>>

\* stub.init: the object exists from now on, and provisions its sandbox.
Started(s) == [object EXCEPT ![s].alive = TRUE]
Initializes(r) ==
    /\ pc[r] = "init"
    /\ object' = Started(r) /\ Answer(r, r)
    /\ UNCHANGED <<rows, keys, key, truth, late, unsure, faults, updates>>

\* The call throws, before or after init has run.
InitFails(r) ==
    /\ pc[r] = "init" /\ Fault
    /\ object' \in {object, Started(r)}
    /\ GoesTo(r, "failing")
    /\ UNCHANGED <<rows, keys, key, truth, late, unsure, updates>>

\* sessionDirectoryFailureUpdate: room_state and sandbox_state become failed,
\* whatever last_event_at is.
FailedRow(row, t) ==
    [state |-> [f \in Fields |-> IF f = "active_run_state" THEN row.state[f] ELSE CreatorFailed],
     at |-> t]
FailureUpdate(r) ==
    /\ pc[r] = "failing"
    /\ \E t \in Times : rows' = [rows EXCEPT ![r] = FailedRow(@, t)]
    /\ unsure' = [unsure EXCEPT ![r] = Fields]
    /\ GoesTo(r, "failed")
    /\ UNCHANGED <<keys, key, object, truth, late, faults, updates>>

\* The request is cut off between two awaits.
Cut(r) ==
    /\ pc[r] \notin Ended \cup {"new"} /\ Fault
    /\ GoesTo(r, "cut")
    /\ UNCHANGED <<rows, keys, key, object, truth, late, unsure, updates>>

-----------------------------------------------------------------------------
(* The object's writes: updateDirectory, DirectoryUpdateQueue *)

\* A patch has the number of the change of each field in it, 0 for the others.
InPatch(p) == {f \in Fields : p[f] # 0}
Replaced(p, q) == q
Merged(p, q) == [f \in Fields |-> IF q[f] = 0 THEN p[f] ELSE q[f]]

\* nextDirectoryUpdateAt.
NextTime(clock, t) == IF t > clock THEN t ELSE clock + 1

\* persistDirectoryUpdate up to its first await, with the patch that waits.
NoWrite == [phase |-> "none", patch |-> Initially, at |-> 0, attempt |-> 1, conflict |-> 1]
Write(p, t) == [phase |-> "statement", patch |-> p, at |-> t, attempt |-> 1, conflict |-> 1]
StartsWrite(o, p, t) ==
    LET now == NextTime(o.clock, t)
    IN  [o EXCEPT !.clock = now, !.pending = Initially, !.queued = FALSE, !.write = Write(p, now)]

\* The fields that a call of updateDirectory changes; an empty patch only moves
\* last_event_at.
Changes ==
    {c \cap Fields : c \in {{}, {"active_run_state"}, {"sandbox_state"},
                             {"room_state", "sandbox_state"}}}

\* updateDirectory: the patch is merged into the one that waits (the lane has
\* one waiting entry for each Session); the lane starts on it at once unless a
\* write is in flight.
Enqueued(o, patch, t) ==
    IF o.write.phase = "none" THEN StartsWrite(o, Merged(o.pending, patch), t)
    ELSE [o EXCEPT !.pending = Merged(@, patch), !.queued = TRUE]
UpdateDirectory(s, changed) ==
    LET patch == [f \in Fields |-> IF f \in changed THEN truth[s][f] + 1 ELSE 0]
    IN  /\ object[s].alive
        /\ updates[s] < MaxUpdates[s] /\ updates' = [updates EXCEPT ![s] = @ + 1]
        /\ truth' = [truth EXCEPT ![s] = [f \in Fields |-> IF f \in changed THEN @[f] + 1 ELSE @[f]]]
        /\ \E t \in Times : object' = [object EXCEPT ![s] = Enqueued(@, patch, t)]
        /\ UNCHANGED <<rows, createVars, late, unsure, faults>>

\* The write is over; drain() takes the next one.
Drained(o, t) ==
    IF o.queued THEN StartsWrite(o, o.pending, t) ELSE [o EXCEPT !.write = NoWrite]

\* UPDATE sessions SET ... WHERE id = ? AND last_event_at < ?
Statement(o) == [patch |-> o.write.patch, at |-> o.write.at, life |-> o.life]
AnyIsNewer(s, w) == TRUE
IsNewer(s, w) == rows[s].at < w.at
Executed(s, w) ==
    IF IsNewer(s, w)
      THEN [rows EXCEPT ![s] = [state |-> Merged(@.state, w.patch), at |-> w.at]]
      ELSE rows

\* The statement is carried out and answered.  When no row changed, the baseline
\* is read next.
WriteAnswered(s) ==
    LET w == object[s].write
    IN  /\ w.phase = "statement"
        /\ rows' = Executed(s, w)
        /\ IF IsNewer(s, w)
             THEN /\ \E t \in Times : object' = [object EXCEPT ![s] = Drained(@, t)]
                  /\ unsure' = [unsure EXCEPT ![s] = @ \ InPatch(w.patch)]
             ELSE /\ object' = [object EXCEPT ![s].write.phase = "reading"]
                  /\ UNCHANGED unsure
        /\ UNCHANGED <<createVars, truth, late, faults, updates>>

GivesUp(s) ==
    /\ \E t \in Times : object' = [object EXCEPT ![s] = Drained(@, t)]
    /\ unsure' = [unsure EXCEPT ![s] = @ \cup InPatch(object[s].write.patch)]

\* An attempt fails, or times out and may still be carried out.  The write is
\* given up after the last attempt.
WriteFails(s) ==
    /\ object[s].write.phase = "statement" /\ Fault
    /\ late' \in {late, [late EXCEPT ![s] = @ \cup {Statement(object[s])}]}
    /\ IF object[s].write.attempt < Attempts
         THEN object' = [object EXCEPT ![s].write.attempt = @ + 1] /\ UNCHANGED unsure
         ELSE GivesUp(s)
    /\ UNCHANGED <<rows, createVars, truth, updates>>

\* D1 carries out a statement nobody waits for.  One of another life of the
\* object may have a later time than the writes of this one.
LateWriteLands(s) ==
    /\ \E w \in late[s] :
         /\ rows' = Executed(s, w)
         /\ late' = [late EXCEPT ![s] = @ \ {w}]
         /\ unsure' = IF IsNewer(s, w) /\ w.life # object[s].life
                        THEN [unsure EXCEPT ![s] = @ \cup InPatch(w.patch)] ELSE unsure
    /\ UNCHANGED <<createVars, object, truth, faults, updates>>

\* The row was not older than the write: the clock is set ahead of it, and the
\* patch is written again, unless this was the last conflict.
Rewritten(w, t) ==
    [w EXCEPT !.phase = "statement", !.at = t, !.attempt = 1, !.conflict = @ + 1]
Retried(o, baseline, t) ==
    LET clock == IF o.clock > baseline THEN o.clock ELSE baseline + 1
        now == NextTime(clock, t)
    IN  [o EXCEPT !.clock = now, !.write = Rewritten(@, now)]
ReadsBaseline(s) ==
    /\ object[s].write.phase = "reading"
    /\ IF object[s].write.conflict < Conflicts
         THEN /\ \E t \in Times : object' = [object EXCEPT ![s] = Retried(@, rows[s].at, t)]
              /\ UNCHANGED unsure
         ELSE GivesUp(s)
    /\ UNCHANGED <<rows, createVars, truth, late, faults, updates>>

ReadFails(s) ==
    /\ object[s].write.phase = "reading" /\ Fault
    /\ GivesUp(s)
    /\ UNCHANGED <<rows, createVars, truth, late, updates>>

\* The object leaves memory: its clock, its patch and its lane are lost.
Asleep(o) ==
    [o EXCEPT !.life = @ + 1, !.clock = 0, !.pending = Initially, !.queued = FALSE,
              !.write = NoWrite]
Restart(s) ==
    LET o == object[s]
    IN  /\ o.alive /\ Fault
        /\ object' = [object EXCEPT ![s] = Asleep(@)]
        /\ late' = IF o.write.phase = "statement"
                     THEN [late EXCEPT ![s] = @ \cup {Statement(o)}] ELSE late
        /\ unsure' = [unsure EXCEPT ![s] = @ \cup InPatch(o.write.patch) \cup InPatch(o.pending)]
        /\ UNCHANGED <<rows, createVars, truth, updates>>

-----------------------------------------------------------------------------
Init ==
    /\ rows = [s \in Requests |-> [state |-> Initially, at |-> 0]]
    /\ keys = [k \in Keys |-> NoRequest]
    /\ pc = [r \in Requests |-> "new"]
    /\ key = [r \in Requests |-> NoKey]
    /\ answer = [r \in Requests |-> NoRequest]
    /\ object = [s \in Requests |->
          [alive |-> FALSE, life |-> 0, clock |-> 0, pending |-> Initially, queued |-> FALSE,
           write |-> NoWrite]]
    /\ truth = [s \in Requests |-> Initially]
    /\ late = [s \in Requests |-> {}]
    /\ unsure = [s \in Requests |-> {}]
    /\ updates = [s \in Requests |-> 0] /\ faults = 0

Creation(r) ==
    \/ \E k \in Keys \cup {NoKey} : Arrives(r, k)
    \/ LooksUp(r) \/ Inserts(r) \/ InsertFails(r) \/ ConflictLooksUp(r)
    \/ Initializes(r) \/ InitFails(r) \/ FailureUpdate(r) \/ Cut(r)

Updating(s) ==
    \/ \E changed \in Changes : UpdateDirectory(s, changed)
    \/ WriteAnswered(s) \/ WriteFails(s) \/ LateWriteLands(s)
    \/ ReadsBaseline(s) \/ ReadFails(s) \/ Restart(s)

Next == \E r \in Requests : Creation(r) \/ Updating(r)

Spec == Init /\ [][Next]_vars

-----------------------------------------------------------------------------
(* Properties *)

Patches == [Fields -> Nat]
Writes == [phase : {"none", "statement", "reading"}, patch : Patches, at : Nat,
           attempt : 1 .. Attempts, conflict : 1 .. Conflicts]
Statements == [patch : Patches, at : Nat, life : Nat]
Objects == [alive : BOOLEAN, life : Nat, clock : Nat, pending : Patches, queued : BOOLEAN,
            write : Writes]
Rows == [state : [Fields -> Int], at : Nat]
Pcs == Ended \cup {"new", "lookup", "insert", "conflict", "init", "failing"}

\* The type of the state; a write that has conflicted or failed as often as
\* allowed is not tried again.
TypeOK ==
    /\ rows \in [Requests -> Rows]
    /\ keys \in [Keys -> Requests \cup {NoRequest}]
    /\ pc \in [Requests -> Pcs]
    /\ key \in [Requests -> Keys \cup {NoKey}]
    /\ answer \in [Requests -> Requests \cup {NoRequest}]
    /\ object \in [Requests -> Objects]
    /\ truth \in [Requests -> Patches]
    /\ late \in [Requests -> SUBSET Statements]
    /\ unsure \in [Requests -> SUBSET Fields]
    /\ updates \in [Requests -> Nat] /\ faults \in Nat

\* However requests with one Idempotency-Key race, fail and are repeated, they
\* make one row, and every answer to them names its Session
\* (handleCreateSession: lookup, batch, second lookup).
OneSessionPerKey ==
    /\ \A r \in Requests :
         rows[r].at # 0 /\ key[r] # NoKey => keys[key[r]] = r
    /\ \A r \in Requests :
         answer[r] # NoRequest => /\ rows[answer[r]].at # 0
                                  /\ key[answer[r]] = key[r]
                                  /\ key[r] # NoKey => keys[key[r]] = answer[r]

\* The value of a field that the directory will show when the lane is empty.
Coming(s, f) ==
    LET o == object[s]
    IN  CASE o.pending[f] # 0 -> o.pending[f]
          [] o.pending[f] = 0 /\ o.write.patch[f] # 0 -> o.write.patch[f]
          [] OTHER -> rows[s].state[f]

\* Whatever fails, times out, lands late or is merged in the lane, no change of
\* a Session is forgotten: the row, the write in flight or the patch behind it
\* has the last value of each field, except the fields whose write was given
\* up or was in flight at a restart.
DirectoryCatchesUp ==
    \A s \in Requests : \A f \in Fields \ unsure[s] : Coming(s, f) = truth[s][f]

\* A statement that timed out and lands late never puts back an older value of
\* a field ("Do not let that older request overwrite a newer state").  This is
\* of an object that has not restarted, whose clock a later life does not know,
\* and whose creator has not written a failure, which may take back the row's
\* last_event_at.
GoesBack(s) ==
    rows[s].at # 0 /\ \E f \in Fields : rows'[s].state[f] < rows[s].state[f]
NoOldValueReturns ==
    [][\A s \in Requests :
         object[s].life = 0 /\ pc[s] \notin {"failing", "failed"} => ~GoesBack(s)]_vars
=============================================================================
