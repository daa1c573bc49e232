------------------------------ MODULE EventLog ------------------------------
(***************************************************************************)
(* The event log of a Session and the browsers that follow it: the table   *)
(* of events, the snapshot the Durable Object folds them into, the         *)
(* snapshot row it persists now and then, and clients that reconnect with  *)
(* the cursor of the last event they applied.                              *)
(*                                                                         *)
(* An event is its id.  A projection (the in-memory snapshot, the row, a   *)
(* page's state) is the sequence of the ids folded into it, so a hole, a   *)
(* repetition or an inversion shows.  What an event changes in the page    *)
(* is not modelled, nor the eviction of old messages for display.          *)
(***************************************************************************)
EXTENDS Integers, Sequences

CONSTANTS
    Clients,       \* browser pages on the Session
    CompactAfter,  \* MAX_EVENTS_BETWEEN_SNAPSHOTS
    MaxEvents      \* bound: events per behaviour

ASSUME LogAssumption == CompactAfter \in Nat \ {0} /\ MaxEvents \in Nat

VARIABLES
    lastId,    \* AUTOINCREMENT counter of table events
    pruned,    \* rows 1 .. pruned of table events are gone, the others are there
    snapshot,  \* in memory: cursor and projection
    fits,      \* the in-memory snapshot is within MAX_SESSION_SNAPSHOT_BYTES
    dirty,     \* snapshotDirty
    tail,      \* eventsSincePersistedSnapshot
    stored,    \* the row of table snapshots, and lastPersistedSnapshot
    connected, \* clients with an open socket
    wire,      \* frames on the way to each client
    page       \* each page: cursor, projection, chat, and events not yet in the chat

logVars == <<lastId, pruned, snapshot, fits, dirty, tail, stored>>
vars == <<logVars, connected, wire, page>>

Checkpoint(c, s) == [cursor |-> c, state |-> s]
Nothing == Checkpoint(0, <<>>)

-----------------------------------------------------------------------------
(* The Durable Object: event-log.ts *)

\* shouldCompactEventTail.
TailIsLong(n) == n >= CompactAfter

\* prepareSnapshotCheckpoint: what is left when messages and activity have been
\* cut may still be too large.
Prepared == fits' \in BOOLEAN

\* persistSnapshot, of the snapshot `s` in memory, `n` events after the row.
Persist(s, n, fit) ==
    IF fit
      THEN stored' = s /\ tail' = 0 /\ dirty' = FALSE
      ELSE stored' = stored /\ tail' = n /\ dirty' = TRUE

\* appendAndBroadcast to the clients in `to`, behind the frames in `w`.  A
\* checkpoint is due after an event that ends a run, and when the tail is long.
AppendAndBroadcast(terminal, w, to) ==
    LET id   == lastId + 1
        next == Checkpoint(id, Append(snapshot.state, id))
    IN  /\ lastId < MaxEvents
        /\ lastId' = id /\ pruned' = pruned
        /\ snapshot' = next
        /\ Prepared
        /\ IF terminal \/ TailIsLong(tail + 1)
             THEN Persist(next, tail + 1, fits')
             ELSE stored' = stored /\ tail' = tail + 1 /\ dirty' = TRUE
        /\ wire' = [c \in Clients |->
                      IF c \in to THEN Append(w[c], [type |-> "event", ids |-> <<id>>])
                                  ELSE w[c]]

\* Any handler that reports something.
Report ==
    /\ \E terminal \in BOOLEAN : AppendAndBroadcast(terminal, wire, connected)
    /\ UNCHANGED <<connected, page>>

\* alarm(): rows older than the retention, 1 .. k, go; a dirty snapshot is
\* persisted.
Later(n, k) == IF n > k THEN n ELSE k
PruneExpired(k) == pruned' = Later(pruned, k)
Alarm(k) ==
    /\ PruneExpired(k)
    /\ IF dirty THEN Persist(snapshot, tail, fits) ELSE UNCHANGED <<stored, tail, dirty>>
    /\ UNCHANGED <<lastId, snapshot, fits, connected, wire, page>>

\* The Durable Object leaves memory and hydrateFromSql loads the row when it is
\* next needed.  Sockets survive.  The tail is counted but not folded.
Evict ==
    /\ snapshot' = stored /\ fits' = TRUE /\ dirty' = FALSE
    /\ tail' = lastId - Later(pruned, stored.cursor)
    /\ UNCHANGED <<lastId, pruned, stored, connected, wire, page>>

-----------------------------------------------------------------------------
(* Joining: fetch(), snapshot-frame.ts, replay-batch.ts *)

\* getSnapshot, getSnapshotCursor: what a joiner hydrates from.
Offered == IF fits THEN snapshot ELSE stored

\* replayEvents: the rows after a cursor, in order.
Ids(from, to) == [i \in 1 .. to - from |-> from + i]
RowsFrom(n) == Ids(Later(pruned, n - 1), lastId)
RowsAfter(n) == Ids(Later(pruned, n), lastId)

SnapshotFrame(s) == [type |-> "snapshot", cursor |-> s.cursor, ids |-> s.state]
ReplayBatch(n) == [type |-> "replay_batch", ids |-> RowsAfter(n)]

\* sendSnapshotIfBehind, then the replay, for a client at cursor `n`.
Welcome(n) ==
    IF n >= Offered.cursor
      THEN <<ReplayBatch(n)>>
      ELSE <<SnapshotFrame(Offered), ReplayBatch(Offered.cursor)>>

\* fetch() of a client's socket: it catches up and everyone, the newcomer
\* included, hears that it joined.  Its ws-client waits at least 500 ms before
\* it reconnects, so the 100 ms timer of the chat has fired.
Join(c) ==
    /\ c \notin connected /\ page[c].pending = <<>>
    /\ connected' = connected \cup {c}
    /\ AppendAndBroadcast(FALSE, [wire EXCEPT ![c] = Welcome(page[c].cursor)], connected')
    /\ UNCHANGED page

\* The socket closes, what was on it is lost, and the others hear about it.
Leave(c) ==
    /\ c \in connected
    /\ connected' = connected \ {c}
    /\ AppendAndBroadcast(FALSE, [wire EXCEPT ![c] = <<>>], connected')
    /\ UNCHANGED page

-----------------------------------------------------------------------------
(* The page: session-store.ts, ws-client.ts *)

LastOf(ids, otherwise) == IF ids = <<>> THEN otherwise ELSE ids[Len(ids)]

\* onSnapshot: the snapshot replaces everything.
SnapshotApplied(p, f) ==
    [cursor |-> f.cursor, state |-> f.ids, chat |-> f.ids, pending |-> <<>>]

\* onReplayBatch: state and chat at once.
BatchApplied(p, f) ==
    [p EXCEPT !.cursor = LastOf(f.ids, @), !.state = @ \o f.ids, !.chat = @ \o f.ids]

\* onEvent: the state at once, the chat when the timer fires.
EventApplied(p, f) ==
    [p EXCEPT !.cursor = f.ids[1], !.state = @ \o f.ids, !.pending = @ \o f.ids]

Applied(p, f) ==
    CASE f.type = "snapshot"     -> SnapshotApplied(p, f)
      [] f.type = "replay_batch" -> BatchApplied(p, f)
      [] f.type = "event"        -> EventApplied(p, f)

\* onmessage: one frame arrives.
Deliver(c) ==
    /\ c \in connected /\ wire[c] # <<>>
    /\ page' = [page EXCEPT ![c] = Applied(@, Head(wire[c]))]
    /\ wire' = [wire EXCEPT ![c] = Tail(@)]
    /\ UNCHANGED <<logVars, connected>>

\* The 100 ms timer: pending events reach messages and activityLog.
FlushPending(c) ==
    /\ page[c].pending # <<>>
    /\ page' = [page EXCEPT ![c].chat = @ \o page[c].pending, ![c].pending = <<>>]
    /\ UNCHANGED <<logVars, connected, wire>>

\* The page is left (disconnect): the socket closes and clearPendingEvents
\* drops what waits for the timer, but the store keeps its cursor.
Navigate(c) ==
    /\ c \in connected
    /\ connected' = connected \ {c}
    /\ AppendAndBroadcast(FALSE, [wire EXCEPT ![c] = <<>>], connected')
    /\ page' = [page EXCEPT ![c].pending = <<>>]

-----------------------------------------------------------------------------
Init ==
    /\ lastId = 0 /\ pruned = 0
    /\ snapshot = Nothing /\ stored = Nothing
    /\ fits = TRUE /\ dirty = FALSE /\ tail = 0
    /\ connected = {}
    /\ wire = [c \in Clients |-> <<>>]
    /\ page = [c \in Clients |-> [cursor |-> 0, state |-> <<>>, chat |-> <<>>, pending |-> <<>>]]

\* A Session that neither leaves memory nor stays too large to persist for the
\* seven days of the retention, on pages left only when nothing is pending.
Steady ==
    \/ Report
    \/ \E k \in 0 .. lastId : (fits \/ k <= stored.cursor) /\ Alarm(k)
    \/ \E c \in Clients :
          \/ Join(c) \/ Leave(c) \/ Deliver(c) \/ FlushPending(c)
          \/ page[c].pending = <<>> /\ Navigate(c)

\* The Durable Object leaves memory, the retention takes what no snapshot has,
\* a page is left before the timer fires.
Unsteady ==
    \/ Evict
    \/ \E k \in stored.cursor + 1 .. lastId : ~fits /\ Alarm(k)
    \/ \E c \in Clients : page[c].pending # <<>> /\ Navigate(c)

Next == Steady \/ Unsteady

Spec == Init /\ [][Next]_vars

-----------------------------------------------------------------------------
(* Safety *)

UpTo(n) == Ids(0, n)

\* Whatever a page misses while it is away, and whether it catches up from the
\* snapshot, the row or the tail, its state is the fold of exactly the events
\* up to its cursor (sendSnapshotIfBehind, replayEvents).
PagesShowThePrefix == \A c \in Clients : page[c].state = UpTo(page[c].cursor)

\* Even across evictions of the Durable Object no event is folded twice or out
\* of order, on any page or in any snapshot.
Increasing(s) == \A i \in 1 .. Len(s) - 1 : s[i] < s[i + 1]
NothingIsRepeated ==
    /\ Increasing(snapshot.state) /\ Increasing(stored.state)
    /\ \A c \in Clients : Increasing(page[c].state) /\ Increasing(page[c].chat)
=============================================================================
