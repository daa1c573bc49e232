----------------------- MODULE SessionDirectoryProofs -----------------------
(***************************************************************************)
(* One Session for each Idempotency-Key, a directory that catches up with  *)
(* its Sessions, and no statement that lands late puts an older value      *)
(* back: for any number of requests, keys, fields, attempts and faults.    *)
(*                                                                         *)
(* The object of a Session, what it should have written, its row, the      *)
(* statements that may still land and the fields that were given up are    *)
(* followed as values, one lemma for each way they change; the steps then  *)
(* say which lemma applies.  For the order, the row, the statements that   *)
(* may still land and the write in flight have the values of a field in    *)
(* the order of their times; it rests on the clock being ahead of what was *)
(* sent, and on what waits in the lane being the last change of its field. *)
(***************************************************************************)
EXTENDS SessionDirectory, TLAPS

\* What the lane will write of a field in the end, or 0.
Lane(o, f) == IF o.pending[f] # 0 THEN o.pending[f] ELSE o.write.patch[f]

-----------------------------------------------------------------------------
(* The invariant of one Session *)

\* The clock of an object is ahead of everything it has sent in this life.
Ahead(o, lt) ==
    /\ o.write.phase = "none" => o.write.patch = Initially
    /\ o.write.phase # "none" => o.write.at = o.clock
    /\ \A w \in lt : w.life <= o.life /\ (w.life = o.life => w.at <= o.clock)

\* What waits in the lane is the last change of its field; a field of which
\* nothing waits has it in the row, unless it was given up.
Latest(o, tr, row, un) ==
    /\ \A f \in Fields : Lane(o, f) # 0 => Lane(o, f) = tr[f]
    /\ \A f \in Fields \ un : Lane(o, f) = 0 => row.state[f] = tr[f]

\* A statement of this life that may still land is older than the row, or what
\* it writes will be written again, or was given up.
Harmless(w, o, row, un) ==
    w.life = o.life =>
      \/ row.at >= w.at
      \/ \A f \in InPatch(w.patch) : f \in un \/ Lane(o, f) # 0

\* An object that does not exist has written nothing, one that does has a row.
Born(o, tr, row, lt) ==
    /\ o.alive => row.at # 0
    /\ ~o.alive => tr = Initially /\ lt = {} /\ o.write.phase = "none"

Good(o, tr, row, lt, un) ==
    /\ o \in Objects /\ tr \in Patches /\ row \in Rows
    /\ lt \in SUBSET Statements /\ un \in SUBSET Fields
    /\ Ahead(o, lt) /\ Latest(o, tr, row, un) /\ Born(o, tr, row, lt)
    /\ \A w \in lt : Harmless(w, o, row, un)

SessionsAreGood ==
    \A s \in Requests : Good(object[s], truth[s], rows[s], late[s], unsure[s])

-----------------------------------------------------------------------------
(* The invariant of the keys *)

\* A request has no row before its batch, and one that goes on to its object has.
PcMeans(r) ==
    /\ pc[r] \in {"new", "lookup", "insert"} =>
         rows[r].at = 0 /\ ~object[r].alive /\ answer[r] = NoRequest
    /\ pc[r] \in {"init", "failing"} => rows[r].at # 0
    /\ pc[r] \in {"lookup", "conflict"} => key[r] \in Keys

\* A key and the row it names refer to each other, and answers name that row.
KeyNames ==
    /\ \A r \in Requests : rows[r].at # 0 /\ key[r] # NoKey => keys[key[r]] = r
    /\ \A k \in Keys : keys[k] # NoRequest => rows[keys[k]].at # 0 /\ key[keys[k]] = k
    /\ \A r \in Requests : answer[r] # NoRequest => rows[answer[r]].at # 0 /\ key[answer[r]] = key[r]

IInv == TypeOK /\ SessionsAreGood /\ KeyNames /\ \A r \in Requests : PcMeans(r)

-----------------------------------------------------------------------------
(* The lane: the changes of one Session, as values *)

LEMMA Starts ==
  ASSUME NEW o \in Objects, NEW p \in Patches, NEW t \in Times,
         NEW x, x = StartsWrite(o, p, t)
  PROVE  /\ x \in Objects /\ x.alive = o.alive /\ x.life = o.life /\ x.clock >= o.clock
         /\ x.write.phase = "statement" /\ x.write.at = x.clock
         /\ \A f \in Fields : Lane(x, f) = p[f]
<1> DEFINE n == NextTime(o.clock, t)
<1>1. n \in Nat /\ n > o.clock
  BY DEF NextTime, Objects, Times
<1>2. Initially \in Patches
  BY DEF Initially, Patches
<1>3. Write(p, n) \in Writes
  BY <1>1, DirectoryAssumption DEF Write, Writes
<1>4. x = [o EXCEPT !.clock = n, !.pending = Initially, !.queued = FALSE, !.write = Write(p, n)]
  BY DEF StartsWrite
<1>5. /\ x \in Objects /\ x.alive = o.alive /\ x.life = o.life /\ x.clock = n
      /\ x.pending = Initially /\ x.write = Write(p, n)
  BY <1>1, <1>2, <1>3, <1>4 DEF Objects
<1>6. \A f \in Fields : Lane(x, f) = p[f]
  BY <1>5 DEF Lane, Write, Initially
<1> QED
  BY <1>1, <1>5, <1>6 DEF Write, Objects

LEMMA Drains ==
  ASSUME NEW o \in Objects, NEW t \in Times, NEW x, x = Drained(o, t)
  PROVE  /\ x \in Objects /\ x.alive = o.alive /\ x.life = o.life /\ x.clock >= o.clock
         /\ x.write.phase # "none" => x.write.at = x.clock
         /\ x.write.phase = "none" => x.write.patch = Initially
         /\ \A f \in Fields : Lane(x, f) = o.pending[f]
<1>1. CASE o.queued
  <2>1. o.pending \in Patches
    BY DEF Objects
  <2>2. x = StartsWrite(o, o.pending, t)
    BY <1>1 DEF Drained
  <2> QED
    BY <1>1, <2>1, <2>2, Starts
<1>2. CASE ~o.queued
  <2>1. NoWrite \in Writes
    BY DirectoryAssumption DEF NoWrite, Writes, Initially, Patches
  <2>2. x = [o EXCEPT !.write = NoWrite]
    BY <1>2 DEF Drained
  <2>3. /\ x \in Objects /\ x.alive = o.alive /\ x.life = o.life /\ x.clock = o.clock
        /\ x.pending = o.pending /\ x.write = NoWrite
    BY <2>1, <2>2 DEF Objects
  <2> QED
    BY <2>3 DEF NoWrite, Lane, Initially, Objects, Patches
<1> QED
  BY <1>1, <1>2

\* updateDirectory: the change waits in the lane, or in the write that starts.
LEMMA Updates ==
  ASSUME NEW o, NEW tr, NEW row, NEW lt, NEW un, Good(o, tr, row, lt, un), o.alive,
         NEW changed \in SUBSET Fields, NEW t \in Times
  PROVE  LET patch == [f \in Fields |-> IF f \in changed THEN tr[f] + 1 ELSE 0]
             next == [f \in Fields |-> IF f \in changed THEN tr[f] + 1 ELSE tr[f]]
         IN  Good(Enqueued(o, patch, t), next, row, lt, un)
<1> DEFINE patch == [f \in Fields |-> IF f \in changed THEN tr[f] + 1 ELSE 0]
           next == [f \in Fields |-> IF f \in changed THEN tr[f] + 1 ELSE tr[f]]
           x == Enqueued(o, patch, t)
<1>1. /\ o \in Objects /\ tr \in Patches /\ patch \in Patches /\ next \in Patches
      /\ o.pending \in Patches /\ o.write \in Writes
  BY DEF Good, Patches, Objects
<1>2. Merged(o.pending, patch) \in Patches
  BY <1>1 DEF Merged, Patches
<1>3. /\ x \in Objects /\ x.alive = o.alive /\ x.life = o.life /\ x.clock >= o.clock
      /\ x.write.phase # "none" /\ x.write.at = x.clock
      /\ \A f \in Fields : Lane(x, f) = IF patch[f] # 0 THEN patch[f] ELSE Lane(o, f)
  <2>1. CASE o.write.phase = "none"
    <3>1. x = StartsWrite(o, Merged(o.pending, patch), t)
      BY <2>1 DEF Enqueued
    <3>2. \A f \in Fields : Lane(o, f) = o.pending[f]
      BY <2>1, <1>1 DEF Good, Ahead, Lane, Initially
    <3> HIDE DEF patch
    <3>3. \A f \in Fields : Merged(o.pending, patch)[f] = IF patch[f] # 0 THEN patch[f] ELSE Lane(o, f)
      BY <3>2 DEF Merged
    <3> HIDE DEF x
    <3> DEFINE m == Merged(o.pending, patch)
    <3>4. m \in Patches /\ x = StartsWrite(o, m, t)
      BY <1>2, <3>1
    <3> HIDE DEF m
    <3>5. /\ x \in Objects /\ x.alive = o.alive /\ x.life = o.life /\ x.clock >= o.clock
          /\ x.write.phase = "statement" /\ x.write.at = x.clock
          /\ \A f \in Fields : Lane(x, f) = m[f]
      <4>1. t \in Times /\ o \in Objects
        BY <1>1
      <4> QED
        BY ONLY <4>1, <3>4, Starts
    <3> QED
      BY <3>3, <3>5 DEF m
  <2>2. CASE o.write.phase # "none"
    <3>1. x = [o EXCEPT !.pending = Merged(@, patch), !.queued = TRUE]
      BY <2>2 DEF Enqueued
    <3> HIDE DEF patch
    <3>2. /\ x \in Objects /\ x.alive = o.alive /\ x.life = o.life /\ x.clock = o.clock
          /\ x.pending = Merged(o.pending, patch) /\ x.write = o.write
      BY <1>1, <1>2, <3>1 DEF Objects
    <3>3. o.write.at = o.clock /\ o.clock \in Nat
      BY <2>2, <1>1 DEF Good, Ahead, Objects
    <3>4. \A f \in Fields : Lane(x, f) = IF patch[f] # 0 THEN patch[f] ELSE Lane(o, f)
      BY <3>2 DEF Merged, Lane
    <3> QED
      BY <2>2, <3>2, <3>3, <3>4
  <2> QED
    BY <2>1, <2>2
<1> HIDE DEF x
<1>4. Ahead(x, lt)
  BY <1>1, <1>3 DEF Good, Ahead, Objects, Statements
<1>5. Latest(x, next, row, un)
  <2>1. \A f \in Fields : Lane(x, f) = IF f \in changed THEN tr[f] + 1 ELSE Lane(o, f)
    BY <1>1, <1>3 DEF Patches
  <2>2. \A f \in changed : tr[f] + 1 # 0
    BY <1>1 DEF Patches
  <2> QED
    BY <2>1, <2>2 DEF Good, Latest
<1>6. \A w \in lt : Harmless(w, x, row, un)
  BY <1>3 DEF Good, Harmless, InPatch
<1>7. Born(x, next, row, lt)
  BY <1>3 DEF Good, Born
<1> QED
  BY <1>1, <1>3, <1>4, <1>5, <1>6, <1>7 DEF Good, x

\* A write that was answered, or given up, leaves the lane to what waits behind it.
LEMMA Succeeds ==
  ASSUME NEW o, NEW tr, NEW row, NEW lt, NEW un, Good(o, tr, row, lt, un),
         o.write.phase = "statement", row.at < o.write.at, NEW t \in Times
  PROVE  LET p == o.write.patch
         IN  Good(Drained(o, t), tr, [state |-> Merged(row.state, p), at |-> o.write.at], lt,
                  un \ InPatch(p))
<1> DEFINE p == o.write.patch
           x == Drained(o, t)
           new == [state |-> Merged(row.state, p), at |-> o.write.at]
<1>1. /\ o \in Objects /\ tr \in Patches /\ row \in Rows /\ p \in Patches /\ o.pending \in Patches
      /\ o.write.at \in Nat /\ o.clock \in Nat /\ o.write.at = o.clock
  BY DEF Good, Ahead, Objects, Writes
<1>2. new \in Rows
  BY <1>1 DEF Rows, Merged, Patches
<1>3. /\ x \in Objects /\ x.alive = o.alive /\ x.life = o.life /\ x.clock >= o.clock
      /\ x.write.phase # "none" => x.write.at = x.clock
      /\ x.write.phase = "none" => x.write.patch = Initially
      /\ \A f \in Fields : Lane(x, f) = o.pending[f]
  BY <1>1, Drains
<1> HIDE DEF x
<1>4. Ahead(x, lt)
  BY <1>1, <1>3 DEF Good, Ahead, Objects, Statements
<1>5. Latest(x, tr, new, un \ InPatch(p))
  <2>1. \A f \in Fields : new.state[f] = IF p[f] = 0 THEN row.state[f] ELSE p[f]
    BY DEF Merged
  <2>2. \A f \in Fields : o.pending[f] = 0 => Lane(o, f) = p[f]
    BY DEF Lane
  <2>3. \A f \in Fields : o.pending[f] # 0 => Lane(o, f) = o.pending[f]
    BY DEF Lane
  <2> HIDE DEF p, new
  <2> QED
    BY <1>3, <2>1, <2>2, <2>3 DEF Good, Latest, InPatch
<1>6. \A w \in lt : Harmless(w, x, new, un \ InPatch(p))
  BY <1>1, <1>3 DEF Good, Ahead, Harmless
<1>7. Born(x, tr, new, lt)
  <2>1. o.alive /\ new.at # 0
    BY <1>1 DEF Good, Born, Rows
  <2> QED
    BY <1>3, <2>1 DEF Born
<1> QED
  BY <1>1, <1>2, <1>3, <1>4, <1>5, <1>6, <1>7 DEF Good, x

LEMMA GivenUp ==
  ASSUME NEW o, NEW tr, NEW row, NEW lt, NEW un, Good(o, tr, row, lt, un),
         o.write.phase # "none", NEW t \in Times
  PROVE  Good(Drained(o, t), tr, row, lt, un \cup InPatch(o.write.patch))
<1> DEFINE p == o.write.patch
           x == Drained(o, t)
<1>1. /\ o \in Objects /\ tr \in Patches /\ row \in Rows /\ p \in Patches /\ o.pending \in Patches
      /\ o.clock \in Nat
  BY DEF Good, Objects, Writes
<1>2. /\ x \in Objects /\ x.alive = o.alive /\ x.life = o.life /\ x.clock >= o.clock
      /\ x.write.phase # "none" => x.write.at = x.clock
      /\ x.write.phase = "none" => x.write.patch = Initially
      /\ \A f \in Fields : Lane(x, f) = o.pending[f]
  BY <1>1, Drains
<1> HIDE DEF x
<1>3. Ahead(x, lt)
  BY <1>1, <1>2 DEF Good, Ahead, Objects, Statements
<1>4. \A f \in Fields : f \notin InPatch(p) => Lane(x, f) = Lane(o, f)
  BY <1>1, <1>2 DEF InPatch, Lane, Patches
<1>5. \A f \in Fields : Lane(x, f) # 0 => Lane(x, f) = Lane(o, f)
  BY <1>2 DEF Lane
<1>6. Latest(x, tr, row, un \cup InPatch(p))
  BY <1>4, <1>5 DEF Good, Latest
<1>7. \A w \in lt : Harmless(w, x, row, un \cup InPatch(p))
  BY <1>2, <1>4 DEF Good, Harmless, InPatch
<1>8. Born(x, tr, row, lt)
  BY <1>2 DEF Good, Born
<1>9. un \cup InPatch(p) \in SUBSET Fields
  BY DEF Good, InPatch
<1> QED
  BY <1>1, <1>2, <1>3, <1>6, <1>7, <1>8, <1>9 DEF Good, x

\* The statement in flight may time out and land later: it is of the last time
\* the clock showed, and what it writes is in the lane.
LEMMA TimesOut ==
  ASSUME NEW o, NEW tr, NEW row, NEW lt, NEW un, Good(o, tr, row, lt, un),
         o.write.phase = "statement"
  PROVE  Good(o, tr, row, lt \cup {Statement(o)}, un)
<1> DEFINE w == Statement(o)
<1>1. /\ o \in Objects /\ o.clock \in Nat /\ o.life \in Nat /\ o.write.patch \in Patches
      /\ o.write.at = o.clock /\ o.alive
  BY DEF Good, Ahead, Born, Objects, Writes
<1>2. /\ w \in Statements /\ w.life = o.life /\ w.at = o.clock /\ w.patch = o.write.patch
  BY <1>1 DEF Statement, Statements
<1> HIDE DEF w
<1>3. Ahead(o, lt \cup {w})
  BY <1>1, <1>2 DEF Good, Ahead
<1>4. Harmless(w, o, row, un)
  BY <1>2 DEF Harmless, InPatch, Lane
<1> QED
  BY <1>1, <1>2, <1>3, <1>4 DEF Good, Born, w

\* A statement that timed out lands.
LEMMA Lands ==
  ASSUME NEW o, NEW tr, NEW row, NEW lt, NEW un, Good(o, tr, row, lt, un),
         NEW w \in lt, row.at < w.at
  PROVE  Good(o, tr, [state |-> Merged(row.state, w.patch), at |-> w.at], lt \ {w},
              IF w.life # o.life THEN un \cup InPatch(w.patch) ELSE un)
<1> DEFINE new == [state |-> Merged(row.state, w.patch), at |-> w.at]
           gone == IF w.life # o.life THEN un \cup InPatch(w.patch) ELSE un
<1>1. /\ row \in Rows /\ w.patch \in Patches /\ w.at \in Nat /\ o.alive /\ gone \in SUBSET Fields
  BY DEF Good, Born, Statements, InPatch
<1>2. new \in Rows
  BY <1>1 DEF Rows, Merged, Patches
<1>3. \A f \in Fields : new.state[f] # row.state[f] => f \in InPatch(w.patch)
  BY DEF Merged, InPatch
<1>4. \A f \in InPatch(w.patch) : f \in gone \/ Lane(o, f) # 0
  BY <1>1 DEF Good, Harmless, Rows
<1>5. un \subseteq gone /\ new.at = w.at
  OBVIOUS
<1> HIDE DEF new, gone
<1>6. Latest(o, tr, new, gone)
  BY <1>3, <1>4, <1>5 DEF Good, Latest
<1>7. \A v \in lt : Harmless(v, o, new, gone)
  <2>1. \A v \in lt : v.at \in Nat
    BY DEF Good, Statements
  <2> QED
    BY <1>1, <1>5, <2>1 DEF Good, Harmless, Rows
<1>8. Born(o, tr, new, lt \ {w})
  BY <1>1, <1>5 DEF Good, Born, Rows
<1> QED
  BY <1>1, <1>2, <1>6, <1>7, <1>8 DEF Good, Ahead, new, gone

\* After a conflict the same patch is written at a later time.
LEMMA Retries ==
  ASSUME NEW o, NEW tr, NEW row, NEW lt, NEW un, Good(o, tr, row, lt, un),
         o.write.phase = "reading", o.write.conflict < Conflicts, NEW t \in Times
  PROVE  Good(Retried(o, row.at, t), tr, row, lt, un)
<1> DEFINE base == IF o.clock > row.at THEN o.clock ELSE row.at + 1
           n == NextTime(base, t)
           x == Retried(o, row.at, t)
           w == Rewritten(o.write, n)
<1>1. o \in Objects /\ row.at \in Nat /\ o.clock \in Nat /\ o.write \in Writes
  BY DEF Good, Objects, Rows
<1>2. n \in Nat /\ n > o.clock
  BY <1>1 DEF NextTime, Times
<1> HIDE DEF n
<1>3. /\ w \in Writes /\ w.phase = "statement" /\ w.at = n /\ w.patch = o.write.patch
  <2>1. o.write.conflict + 1 \in 1 .. Conflicts /\ 1 \in 1 .. Attempts
    BY <1>1, DirectoryAssumption DEF Writes
  <2> QED
    BY <1>1, <1>2, <2>1 DEF Writes, Rewritten
<1>4. x = [o EXCEPT !.clock = n, !.write = w]
  BY <1>1 DEF Retried, n, Objects
<1> HIDE DEF w, x
<1>5. /\ x \in Objects /\ x.alive = o.alive /\ x.life = o.life /\ x.clock = n
      /\ x.write = w /\ x.pending = o.pending
  BY <1>1, <1>2, <1>3, <1>4 DEF Objects
<1>6. \A f \in Fields : Lane(x, f) = Lane(o, f)
  BY <1>3, <1>5 DEF Lane
<1>7. Ahead(x, lt)
  BY <1>1, <1>2, <1>3, <1>5 DEF Good, Ahead, Statements
<1>8. Latest(x, tr, row, un) /\ (\A v \in lt : Harmless(v, x, row, un)) /\ Born(x, tr, row, lt)
  BY <1>5, <1>6 DEF Good, Latest, Harmless, Born, InPatch
<1> QED
  BY <1>5, <1>7, <1>8 DEF Good, x

\* A restart gives up what was in the lane.
LEMMA Restarts ==
  ASSUME NEW o, NEW tr, NEW row, NEW lt, NEW un, Good(o, tr, row, lt, un), o.alive
  PROVE  Good(Asleep(o), tr, row, lt, un \cup InPatch(o.write.patch) \cup InPatch(o.pending))
<1> DEFINE x == Asleep(o)
<1>1. /\ o \in Objects /\ Initially \in Patches /\ NoWrite \in Writes /\ o.life \in Nat
  BY DirectoryAssumption DEF Good, Objects, Initially, Patches, NoWrite, Writes
<1>2. /\ x \in Objects /\ x.alive = o.alive /\ x.life = o.life + 1
      /\ x.write = NoWrite /\ x.pending = Initially
  <2>1. x = [o EXCEPT !.life = o.life + 1, !.clock = 0, !.pending = Initially, !.queued = FALSE,
                      !.write = NoWrite]
    BY DEF Asleep
  <2>2. o.life + 1 \in Nat /\ 0 \in Nat
    BY <1>1
  <2> HIDE DEF x
  <2> QED
    BY <1>1, <2>1, <2>2 DEF Objects
<1>3. \A f \in Fields : Lane(x, f) = 0
  BY <1>2 DEF Lane, NoWrite, Initially
<1>4. \A w \in lt : w.life < x.life /\ w.life # x.life
  BY <1>1, <1>2 DEF Good, Ahead, Statements
<1> HIDE DEF x
<1>5. Ahead(x, lt)
  BY <1>2, <1>4 DEF Ahead, NoWrite, Good, Statements, Objects
<1>6. Latest(x, tr, row, un \cup InPatch(o.write.patch) \cup InPatch(o.pending))
  BY <1>3 DEF Good, Latest, InPatch, Lane
<1>7. Born(x, tr, row, lt)
  BY <1>2 DEF Good, Born
<1> QED
  BY <1>2, <1>4, <1>5, <1>6, <1>7 DEF Good, Harmless, InPatch, x

-----------------------------------------------------------------------------
(* Steps *)

\* A step changes what belongs to one Session.
LEMMA OneMoves ==
  ASSUME IInv, NEW s \in Requests, NEW o, NEW tr, NEW row, NEW lt, NEW un, Good(o, tr, row, lt, un),
         object' = [object EXCEPT ![s] = o], truth' = [truth EXCEPT ![s] = tr],
         rows' = [rows EXCEPT ![s] = row], late' = [late EXCEPT ![s] = lt],
         unsure' = [unsure EXCEPT ![s] = un]
  PROVE  /\ SessionsAreGood'
         /\ object' \in [Requests -> Objects] /\ truth' \in [Requests -> Patches]
         /\ rows' \in [Requests -> Rows] /\ late' \in [Requests -> SUBSET Statements]
         /\ unsure' \in [Requests -> SUBSET Fields]
         /\ object'[s] = o /\ rows'[s] = row
         /\ \A d \in Requests \ {s} : rows'[d] = rows[d] /\ object'[d] = object[d]
<1>1. /\ object \in [Requests -> Objects] /\ truth \in [Requests -> Patches] /\ rows \in [Requests -> Rows]
      /\ late \in [Requests -> SUBSET Statements] /\ unsure \in [Requests -> SUBSET Fields]
  BY DEF IInv, TypeOK
<1>2. o \in Objects /\ tr \in Patches /\ row \in Rows /\ lt \in SUBSET Statements /\ un \in SUBSET Fields
  BY DEF Good
<1>3. \A d \in Requests :
        /\ object'[d] = IF d = s THEN o ELSE object[d]
        /\ truth'[d] = IF d = s THEN tr ELSE truth[d]
        /\ rows'[d] = IF d = s THEN row ELSE rows[d]
        /\ late'[d] = IF d = s THEN lt ELSE late[d]
        /\ unsure'[d] = IF d = s THEN un ELSE unsure[d]
  BY <1>1
<1>4. \A d \in Requests : Good(object'[d], truth'[d], rows'[d], late'[d], unsure'[d])
  BY <1>3 DEF IInv, SessionsAreGood
<1>5. SessionsAreGood'
  BY <1>4 DEF SessionsAreGood
<1> QED
  BY <1>1, <1>2, <1>3, <1>5

\* What belongs to a Session becomes this, and no request is concerned.
Becomes(s, o, tr, row, lt, un) ==
    /\ object' = [object EXCEPT ![s] = o] /\ truth' = [truth EXCEPT ![s] = tr]
    /\ rows' = [rows EXCEPT ![s] = row] /\ late' = [late EXCEPT ![s] = lt]
    /\ unsure' = [unsure EXCEPT ![s] = un]
    /\ UNCHANGED createVars /\ updates' \in [Requests -> Nat] /\ faults' \in Nat

\* A step of an object: it has a row, keeps it, and no request is concerned.
LEMMA ObjectMoves ==
  ASSUME IInv, NEW s \in Requests, NEW o, NEW tr, NEW row, NEW lt, NEW un, Good(o, tr, row, lt, un),
         Becomes(s, o, tr, row, lt, un), object[s].alive, row.at # 0
  PROVE  IInv'
<1>0. UNCHANGED createVars /\ updates' \in [Requests -> Nat] /\ faults' \in Nat
  BY DEF Becomes
<1>1. /\ SessionsAreGood'
      /\ object' \in [Requests -> Objects] /\ truth' \in [Requests -> Patches]
      /\ rows' \in [Requests -> Rows] /\ late' \in [Requests -> SUBSET Statements]
      /\ unsure' \in [Requests -> SUBSET Fields]
      /\ rows'[s] = row
      /\ \A d \in Requests \ {s} : rows'[d] = rows[d] /\ object'[d] = object[d]
  BY OneMoves DEF Becomes
<1>2. rows[s].at # 0
  BY DEF IInv, SessionsAreGood, Good, Born
<1>3. \A d \in Requests : rows'[d].at # 0 <=> rows[d].at # 0
  BY <1>1, <1>2
<1>4. TypeOK'
  BY <1>0, <1>1 DEF IInv, TypeOK, createVars
<1>5. KeyNames'
  BY <1>0, <1>3 DEF IInv, TypeOK, KeyNames, createVars
<1>6. \A r \in Requests : PcMeans(r)'
  <2>1. ASSUME NEW r \in Requests \ {s} PROVE PcMeans(r)'
    BY <1>0, <1>1, <2>1 DEF IInv, PcMeans, createVars
  <2>2. PcMeans(s)'
    BY <1>0, <1>1 DEF IInv, PcMeans, createVars
  <2> QED
    BY <2>1, <2>2
<1> QED
  BY <1>1, <1>4, <1>5, <1>6 DEF IInv

LEMMA UpdatingSteps == ASSUME IInv, NEW s \in Requests, Updating(s) PROVE IInv'
<1> DEFINE o == object[s]
           tr == truth[s]
           row == rows[s]
           lt == late[s]
           un == unsure[s]
<1>0. IInv /\ s \in Requests
  OBVIOUS
<1>1. Good(o, tr, row, lt, un)
  BY DEF IInv, SessionsAreGood
<1>2. /\ object = [object EXCEPT ![s] = o] /\ truth = [truth EXCEPT ![s] = tr]
      /\ rows = [rows EXCEPT ![s] = row] /\ late = [late EXCEPT ![s] = lt]
      /\ unsure = [unsure EXCEPT ![s] = un]
      /\ updates \in [Requests -> Nat] /\ faults \in Nat /\ faults + 1 \in Nat
  BY DEF IInv, TypeOK
<1>3. o \in Objects /\ row \in Rows /\ lt \in SUBSET Statements
  BY <1>1 DEF Good
<1>4. o.alive => row.at # 0
  BY <1>1 DEF Good, Born
<1>5. o.write.phase # "none" \/ lt # {} => o.alive
  BY <1>1 DEF Good, Born
<1>6. ASSUME NEW changed \in Changes, UpdateDirectory(s, changed) PROVE IInv'
  <2>1. PICK t \in Times : object' = [object EXCEPT ![s] =
          Enqueued(@, [f \in Fields |-> IF f \in changed THEN tr[f] + 1 ELSE 0], t)]
    BY <1>6 DEF UpdateDirectory
  <2>2. changed \in SUBSET Fields
    BY <1>6 DEF Changes
  <2>3. /\ truth' = [truth EXCEPT ![s] = [f \in Fields |-> IF f \in changed THEN tr[f] + 1 ELSE tr[f]]]
        /\ rows' = rows /\ late' = late /\ unsure' = unsure /\ faults' = faults
        /\ UNCHANGED createVars /\ updates' \in [Requests -> Nat] /\ o.alive
    BY <1>6, <1>2 DEF UpdateDirectory
  <2>4. Good(Enqueued(o, [f \in Fields |-> IF f \in changed THEN tr[f] + 1 ELSE 0], t),
             [f \in Fields |-> IF f \in changed THEN tr[f] + 1 ELSE tr[f]], row, lt, un)
    BY <1>1, <2>2, <2>3, Updates
  <2> QED
    <3>1. Becomes(s, Enqueued(o, [f \in Fields |-> IF f \in changed THEN tr[f] + 1 ELSE 0], t),
                 [f \in Fields |-> IF f \in changed THEN tr[f] + 1 ELSE tr[f]], row, lt, un)
      BY ONLY <1>0, <1>2, <1>4, <2>1, <2>3, <2>4 DEF Becomes
    <3> QED
      BY ONLY <1>0, <2>4, <1>4, <2>3, <3>1, ObjectMoves
<1>7. CASE WriteAnswered(s)
  <2> DEFINE w == o.write
  <2>1. /\ w.phase = "statement" /\ truth' = truth /\ late' = late /\ UNCHANGED createVars
        /\ faults' = faults /\ updates' = updates
    BY <1>7 DEF WriteAnswered
  <2>2. CASE IsNewer(s, w)
    <3>1. PICK t \in Times : object' = [object EXCEPT ![s] = Drained(@, t)]
      BY <1>7, <2>2 DEF WriteAnswered
    <3>2. /\ rows' = [rows EXCEPT ![s] = [state |-> Merged(row.state, w.patch), at |-> w.at]]
          /\ unsure' = [unsure EXCEPT ![s] = un \ InPatch(w.patch)]
          /\ row.at < w.at
      BY <1>7, <2>2 DEF WriteAnswered, Executed, IsNewer
    <3>3. Good(Drained(o, t), tr, [state |-> Merged(row.state, w.patch), at |-> w.at], lt, un \ InPatch(w.patch))
      BY <1>1, <2>1, <3>2, Succeeds
    <3>4. w.at # 0
      BY <1>3, <3>2 DEF Rows, Objects, Writes
    <3> QED
      <4>1. Becomes(s, Drained(o, t), tr, [state |-> Merged(row.state, w.patch), at |-> w.at], lt,
                   un \ InPatch(w.patch))
        BY ONLY <1>0, <1>2, <1>5, <2>1, <3>1, <3>2, <3>3, <3>4 DEF Becomes
      <4> QED
        BY ONLY <1>0, <3>3, <1>5, <2>1, <3>4, <4>1, ObjectMoves
  <2>3. CASE ~IsNewer(s, w)
    <3> DEFINE x == [o EXCEPT !.write.phase = "reading"]
    <3>1. /\ object' = [object EXCEPT ![s] = x] /\ rows' = rows /\ unsure' = unsure
      BY <1>7, <2>3 DEF WriteAnswered, Executed
    <3>2. [w EXCEPT !.phase = "reading"] \in Writes
      BY <1>3 DEF Objects, Writes
    <3>3. /\ x \in Objects /\ x.alive = o.alive /\ x.life = o.life /\ x.clock = o.clock
          /\ x.pending = o.pending /\ x.write.phase = "reading" /\ x.write.patch = w.patch
          /\ x.write.at = w.at
      BY <1>3, <3>2 DEF Objects, Writes
    <3> HIDE DEF x
    <3>4. Good(x, tr, row, lt, un)
      BY <1>1, <2>1, <3>3 DEF Good, Ahead, Latest, Lane, Born, Harmless, InPatch
    <3> QED
      <4>1. Becomes(s, x, tr, row, lt, un)
        BY ONLY <1>0, <1>2, <1>4, <1>5, <2>1, <3>1, <3>4 DEF Becomes
      <4> QED
        BY ONLY <1>0, <3>4, <1>4, <1>5, <2>1, <4>1, ObjectMoves
  <2> QED
    BY <2>2, <2>3
<1>8. CASE WriteFails(s)
  <2>1. /\ o.write.phase = "statement" /\ truth' = truth /\ rows' = rows /\ UNCHANGED createVars
        /\ faults' \in Nat /\ updates' = updates /\ o.alive
        /\ late' \in {late, [late EXCEPT ![s] = @ \cup {Statement(o)}]}
    BY <1>2, <1>5, <1>8 DEF WriteFails, Fault
  <2>2. PICK l \in {lt, lt \cup {Statement(o)}} : late' = [late EXCEPT ![s] = l]
    BY <1>2, <2>1
  <2>3. Good(o, tr, row, l, un)
    BY <1>1, <2>1, <2>2, TimesOut
  <2>4. CASE o.write.attempt < Attempts
    <3> DEFINE x == [o EXCEPT !.write.attempt = @ + 1]
    <3>1. object' = [object EXCEPT ![s] = x] /\ unsure' = unsure
      BY <1>8, <2>4 DEF WriteFails
    <3>2. [o.write EXCEPT !.attempt = o.write.attempt + 1] \in Writes
      BY <1>3, <2>4, DirectoryAssumption DEF Objects, Writes
    <3>3. /\ x \in Objects /\ x.alive = o.alive /\ x.life = o.life /\ x.clock = o.clock
          /\ x.pending = o.pending /\ x.write.phase = o.write.phase /\ x.write.patch = o.write.patch
          /\ x.write.at = o.write.at
      BY <1>3, <3>2 DEF Objects, Writes
    <3> HIDE DEF x
    <3>4. Good(x, tr, row, l, un)
      BY <2>3, <3>3 DEF Good, Ahead, Latest, Lane, Born, Harmless, InPatch
    <3> QED
      <4>1. Becomes(s, x, tr, row, l, un)
        BY ONLY <1>0, <1>2, <1>4, <2>1, <2>2, <3>1, <3>4 DEF Becomes
      <4> QED
        BY ONLY <1>0, <3>4, <1>4, <2>1, <4>1, ObjectMoves
  <2>5. CASE ~(o.write.attempt < Attempts)
    <3>1. GivesUp(s)
      BY <1>8, <2>5 DEF WriteFails
    <3>2. PICK t \in Times : object' = [object EXCEPT ![s] = Drained(@, t)]
      BY <3>1 DEF GivesUp
    <3>3. unsure' = [unsure EXCEPT ![s] = un \cup InPatch(o.write.patch)]
      BY <3>1 DEF GivesUp
    <3>4. Good(Drained(o, t), tr, row, l, un \cup InPatch(o.write.patch))
      BY <2>1, <2>3, GivenUp
    <3> QED
      <4>1. Becomes(s, Drained(o, t), tr, row, l, un \cup InPatch(o.write.patch))
        BY ONLY <1>0, <1>2, <1>4, <2>1, <2>2, <3>2, <3>3, <3>4 DEF Becomes
      <4> QED
        BY ONLY <1>0, <3>4, <1>4, <2>1, <4>1, ObjectMoves
  <2> QED
    BY <2>4, <2>5
<1>9. CASE LateWriteLands(s)
  <2>1. PICK w \in lt :
          /\ rows' = Executed(s, w) /\ late' = [late EXCEPT ![s] = lt \ {w}]
          /\ unsure' = IF IsNewer(s, w) /\ w.life # o.life
                         THEN [unsure EXCEPT ![s] = un \cup InPatch(w.patch)] ELSE unsure
    BY <1>9 DEF LateWriteLands
  <2>2. /\ object' = object /\ truth' = truth /\ UNCHANGED createVars /\ faults' = faults /\ updates' = updates
        /\ o.alive
    BY <1>5, <1>9, <2>1 DEF LateWriteLands
  <2>3. CASE IsNewer(s, w)
    <3> DEFINE x == IF w.life # o.life THEN un \cup InPatch(w.patch) ELSE un
    <3>1. /\ rows' = [rows EXCEPT ![s] = [state |-> Merged(row.state, w.patch), at |-> w.at]]
          /\ unsure' = [unsure EXCEPT ![s] = x] /\ row.at < w.at
      BY <1>2, <2>1, <2>3 DEF Executed, IsNewer
    <3>2. Good(o, tr, [state |-> Merged(row.state, w.patch), at |-> w.at], lt \ {w}, x)
      BY <1>1, <3>1, Lands
    <3>3. w.at # 0
      BY <1>3, <3>1 DEF Rows, Statements
    <3> QED
      <4>1. Becomes(s, o, tr, [state |-> Merged(row.state, w.patch), at |-> w.at], lt \ {w}, x)
        BY ONLY <1>0, <1>2, <2>1, <2>2, <3>1, <3>2, <3>3 DEF Becomes
      <4> QED
        BY ONLY <1>0, <3>2, <2>2, <3>3, <4>1, ObjectMoves
  <2>4. CASE ~IsNewer(s, w)
    <3>1. Good(o, tr, row, lt \ {w}, un)
      BY <1>1 DEF Good, Ahead, Born
    <3>2. rows' = rows /\ unsure' = unsure
      BY <2>1, <2>4 DEF Executed
    <3> QED
      <4>1. Becomes(s, o, tr, row, lt \ {w}, un)
        BY ONLY <1>0, <1>2, <1>4, <2>1, <2>2, <3>1, <3>2 DEF Becomes
      <4> QED
        BY ONLY <1>0, <3>1, <1>4, <2>2, <4>1, ObjectMoves
  <2> QED
    BY <2>3, <2>4
<1>10. ASSUME o.write.phase = "reading", GivesUp(s), faults' \in Nat,
              UNCHANGED <<rows, createVars, truth, late, updates>>
       PROVE  IInv'
  <2>1. PICK t \in Times : object' = [object EXCEPT ![s] = Drained(@, t)]
    BY <1>10 DEF GivesUp
  <2>2. unsure' = [unsure EXCEPT ![s] = un \cup InPatch(o.write.patch)]
    BY <1>10 DEF GivesUp
  <2>3. Good(Drained(o, t), tr, row, lt, un \cup InPatch(o.write.patch))
    BY <1>1, <1>10, GivenUp
  <2> QED
    <3>1. Becomes(s, Drained(o, t), tr, row, lt, un \cup InPatch(o.write.patch))
      BY ONLY <1>0, <1>2, <1>4, <1>5, <1>10, <2>1, <2>2, <2>3 DEF Becomes
    <3> QED
      BY ONLY <1>0, <2>3, <1>4, <1>5, <1>10, <3>1, ObjectMoves
<1>11. CASE ReadsBaseline(s)
  <2>1. CASE o.write.conflict < Conflicts
    <3>1. PICK t \in Times : object' = [object EXCEPT ![s] = Retried(@, row.at, t)]
      BY <1>11, <2>1 DEF ReadsBaseline
    <3>2. /\ o.write.phase = "reading" /\ unsure' = unsure /\ rows' = rows /\ truth' = truth /\ late' = late
          /\ UNCHANGED createVars /\ faults' = faults /\ updates' = updates
      BY <1>11, <2>1 DEF ReadsBaseline
    <3>3. Good(Retried(o, row.at, t), tr, row, lt, un)
      BY <1>1, <2>1, <3>2, Retries
    <3> QED
      <4>1. Becomes(s, Retried(o, row.at, t), tr, row, lt, un)
        BY ONLY <1>0, <1>2, <1>4, <1>5, <3>1, <3>2, <3>3 DEF Becomes
      <4> QED
        BY ONLY <1>0, <3>3, <1>4, <1>5, <3>2, <4>1, ObjectMoves
  <2>2. CASE ~(o.write.conflict < Conflicts)
    BY <1>2, <1>10, <1>11, <2>2 DEF ReadsBaseline
  <2> QED
    BY <2>1, <2>2
<1>12. CASE ReadFails(s)
  BY <1>2, <1>10, <1>12 DEF ReadFails, Fault
<1>13. CASE Restart(s)
  <2> DEFINE gone == un \cup InPatch(o.write.patch) \cup InPatch(o.pending)
  <2>1. /\ o.alive /\ object' = [object EXCEPT ![s] = Asleep(o)]
        /\ unsure' = [unsure EXCEPT ![s] = gone]
        /\ rows' = rows /\ truth' = truth /\ UNCHANGED createVars /\ updates' = updates /\ faults' \in Nat
    BY <1>2, <1>13 DEF Restart, Fault
  <2>2. late' = [late EXCEPT ![s] = IF o.write.phase = "statement" THEN lt \cup {Statement(o)} ELSE lt]
    BY <1>2, <1>13 DEF Restart
  <2>3. PICK l : /\ l = IF o.write.phase = "statement" THEN lt \cup {Statement(o)} ELSE lt
                 /\ Good(o, tr, row, l, un)
    BY <1>1, TimesOut
  <2>4. Good(Asleep(o), tr, row, l, gone)
    BY <2>1, <2>3, Restarts
  <2> QED
    <3>1. Becomes(s, Asleep(o), tr, row, l, gone)
      BY ONLY <1>0, <1>2, <1>4, <2>1, <2>2, <2>3, <2>4 DEF Becomes
    <3> QED
      BY ONLY <1>0, <2>4, <1>4, <2>1, <3>1, ObjectMoves
<1> QED
  BY <1>6, <1>7, <1>8, <1>9, <1>11, <1>12, <1>13 DEF Updating

\* A step of a request that leaves rows, keys and objects alone.
GoesOn(r, p, k, a) ==
    /\ UNCHANGED <<rows, keys, object, truth, late, unsure, updates>> /\ faults' \in Nat
    /\ pc' = [pc EXCEPT ![r] = p] /\ key' = [key EXCEPT ![r] = k]
    /\ answer' = [answer EXCEPT ![r] = a]
LEMMA QuietRequests ==
  ASSUME IInv, NEW r \in Requests, NEW p \in Pcs, NEW k \in Keys \cup {NoKey},
         NEW a \in Requests \cup {NoRequest}, GoesOn(r, p, k, a),
         k = key[r] \/ pc[r] = "new", a # NoRequest => rows[a].at # 0 /\ key[a] = k,
         p \in {"new", "lookup", "insert"} => a = NoRequest /\ pc[r] \in {"new", "lookup", "insert"},
         p \in {"lookup", "conflict"} => k \in Keys,
         p \in {"init", "failing"} => rows[r].at # 0
  PROVE  IInv'
<1> USE DEF GoesOn
<1>1. /\ pc' \in [Requests -> Pcs] /\ key' \in [Requests -> Keys \cup {NoKey}]
      /\ answer' \in [Requests -> Requests \cup {NoRequest}]
  BY DEF IInv, TypeOK
<1>2. TypeOK' /\ SessionsAreGood'
  BY <1>1 DEF IInv, TypeOK, SessionsAreGood
<1>3. \A q \in Requests :
        /\ pc'[q] = IF q = r THEN p ELSE pc[q]
        /\ key'[q] = IF q = r THEN k ELSE key[q]
        /\ answer'[q] = IF q = r THEN a ELSE answer[q]
  BY DEF IInv, TypeOK
<1>4. \A q \in Requests : rows[q].at # 0 => key'[q] = key[q]
  BY <1>3 DEF IInv, PcMeans
<1>5. KeyNames'
  <2>1. \A q \in Requests : rows'[q].at # 0 /\ key'[q] # NoKey => keys'[key'[q]] = q
    BY <1>4 DEF IInv, KeyNames
  <2>2. \A l \in Keys : keys'[l] # NoRequest => rows'[keys'[l]].at # 0 /\ key'[keys'[l]] = l
    BY <1>4 DEF IInv, KeyNames, TypeOK
  <2>3. \A q \in Requests : answer'[q] # NoRequest => rows'[answer'[q]].at # 0 /\ key'[answer'[q]] = key'[q]
    <3>1. ASSUME NEW q \in Requests, answer'[q] # NoRequest, q # r
          PROVE  rows'[answer'[q]].at # 0 /\ key'[answer'[q]] = key'[q]
      <4>1. answer'[q] = answer[q] /\ answer[q] \in Requests /\ key'[q] = key[q]
        BY <1>3, <3>1 DEF IInv, TypeOK
      <4> QED
        BY <1>4, <3>1, <4>1 DEF IInv, KeyNames
    <3>2. answer'[r] # NoRequest => rows'[answer'[r]].at # 0 /\ key'[answer'[r]] = key'[r]
      BY <1>3, <1>4
    <3> QED
      BY <3>1, <3>2
  <2> QED
    BY <2>1, <2>2, <2>3 DEF KeyNames
<1>6. ASSUME NEW q \in Requests PROVE PcMeans(q)'
  <2>1. CASE q # r
    BY <1>3, <2>1 DEF IInv, PcMeans
  <2>2. CASE q = r
    BY <1>3, <2>2 DEF IInv, PcMeans
  <2> QED
    BY <2>1, <2>2
<1> QED
  BY <1>2, <1>5, <1>6 DEF IInv

\* A request that arrives, looks its key up, or is cut off.
LEMMA LookupSteps ==
  ASSUME IInv, NEW r \in Requests,
         \/ \E k \in Keys \cup {NoKey} : Arrives(r, k)
         \/ LooksUp(r) \/ ConflictLooksUp(r) \/ Cut(r)
  PROVE  IInv'
<1>0. IInv /\ r \in Requests
  OBVIOUS
<1>1. /\ key = [key EXCEPT ![r] = key[r]] /\ answer = [answer EXCEPT ![r] = answer[r]]
      /\ key[r] \in Keys \cup {NoKey} /\ answer[r] \in Requests \cup {NoRequest}
      /\ faults \in Nat /\ faults + 1 \in Nat
  BY DEF IInv, TypeOK
<1>2. answer[r] # NoRequest => rows[answer[r]].at # 0 /\ key[answer[r]] = key[r]
  BY DEF IInv, KeyNames
<1>3. UNCHANGED <<rows, keys, object, truth, late, unsure, updates>>
  BY DEF Arrives, LooksUp, ConflictLooksUp, Cut, GoesTo, Answer
<1>4. ASSUME NEW k \in Keys \cup {NoKey}, Arrives(r, k) PROVE IInv'
  <2>1. /\ pc[r] = "new" /\ key' = [key EXCEPT ![r] = k] /\ faults' = faults
        /\ pc' = [pc EXCEPT ![r] = IF k = NoKey THEN "insert" ELSE "lookup"]
        /\ answer' = [answer EXCEPT ![r] = NoRequest]
    <3>1. answer[r] = NoRequest
      BY <1>4 DEF Arrives, IInv, PcMeans
    <3> QED
      BY <1>1, <1>4, <3>1 DEF Arrives, GoesTo
  <2>2. PICK p \in Pcs : p = IF k = NoKey THEN "insert" ELSE "lookup"
    BY DEF Pcs
  <2> QED
    <3>1. GoesOn(r, p, k, NoRequest)
      BY <1>1, <1>3, <2>1, <2>2 DEF GoesOn
    <3> QED
      BY <2>1, <2>2, <3>1, QuietRequests
<1>5. ASSUME LooksUp(r) \/ ConflictLooksUp(r) PROVE IInv'
  <2>1. key[r] \in Keys /\ faults' = faults /\ key' = [key EXCEPT ![r] = key[r]]
    BY <1>1, <1>5 DEF LooksUp, ConflictLooksUp, IInv, PcMeans
  <2>2. keys[key[r]] \in Requests \cup {NoRequest}
    BY <2>1 DEF IInv, TypeOK
  <2>3. CASE keys[key[r]] # NoRequest
    <3>1. pc' = [pc EXCEPT ![r] = "done"] /\ answer' = [answer EXCEPT ![r] = keys[key[r]]]
      BY <1>5, <2>3 DEF LooksUp, ConflictLooksUp, Answer
    <3>2. rows[keys[key[r]]].at # 0 /\ key[keys[key[r]]] = key[r]
      BY <2>1, <2>3 DEF IInv, KeyNames
    <3>3. PICK p \in Pcs : p = "done"
      BY DEF Pcs, Ended
    <3>4. PICK a \in Requests \cup {NoRequest} : a = keys[key[r]]
      BY <2>2
    <3>5. pc' = [pc EXCEPT ![r] = p] /\ answer' = [answer EXCEPT ![r] = a]
          /\ rows[a].at # 0 /\ key[a] = key[r]
      BY <3>1, <3>2, <3>3, <3>4
    <3> QED
      <4>1. GoesOn(r, p, key[r], a)
        BY <1>1, <1>3, <2>1, <3>5 DEF GoesOn
      <4> QED
        BY ONLY <1>0, <1>1, <2>1, <3>3, <3>4, <3>5, <4>1, QuietRequests
  <2>4. CASE keys[key[r]] = NoRequest
    <3>1. PICK p \in {"insert", "failed"} :
            /\ pc' = [pc EXCEPT ![r] = p] /\ answer' = answer
            /\ p = "insert" => pc[r] = "lookup"
      BY <1>5, <2>4 DEF LooksUp, ConflictLooksUp, GoesTo
    <3>2. p = "insert" => answer[r] = NoRequest
      BY <3>1 DEF IInv, PcMeans
    <3>3. p \in Pcs
      BY DEF Pcs, Ended
    <3>4. GoesOn(r, p, key[r], answer[r])
      BY <1>1, <1>3, <2>1, <3>1 DEF GoesOn
    <3> QED
      BY ONLY <1>0, <1>1, <1>2, <2>1, <3>1, <3>2, <3>3, <3>4, QuietRequests
  <2> QED
    BY <2>3, <2>4
<1>6. CASE Cut(r)
  <2>1. pc' = [pc EXCEPT ![r] = "cut"] /\ answer' = answer /\ key' = key /\ faults' \in Nat
    BY <1>1, <1>6 DEF Cut, GoesTo, Fault
  <2>2. PICK p \in Pcs : p = "cut"
    BY DEF Pcs, Ended
  <2>3. GoesOn(r, p, key[r], answer[r])
    BY <1>1, <1>3, <2>1, <2>2 DEF GoesOn
  <2> QED
    BY ONLY <1>0, <1>1, <1>2, <2>2, <2>3, QuietRequests
<1> QED
  BY <1>4, <1>5, <1>6

\* A step of a request that changes its row, its key or its object.
OwnBecomes(r, o, row, un, p, a) ==
    /\ object' = [object EXCEPT ![r] = o] /\ rows' = [rows EXCEPT ![r] = row]
    /\ unsure' = [unsure EXCEPT ![r] = un] /\ UNCHANGED <<truth, late, updates, key>>
    /\ pc' = [pc EXCEPT ![r] = p] /\ answer' = [answer EXCEPT ![r] = a]
    /\ faults' \in Nat /\ keys' \in [Keys -> Requests \cup {NoRequest}]
    /\ \A k \in Keys : keys'[k] = keys[k] \/ (keys[k] = NoRequest /\ k = key[r] /\ keys'[k] = r)
    /\ key[r] # NoKey => keys'[key[r]] = r

LEMMA OwnMoves ==
  ASSUME IInv, NEW r \in Requests, NEW o, NEW row, NEW un, Good(o, truth[r], row, late[r], un),
         NEW p \in Pcs, NEW a \in {answer[r], r}, OwnBecomes(r, o, row, un, p, a),
         row.at # 0, p \in {"init", "conflict", "done", "failing", "failed"},
         p = "conflict" => key[r] \in Keys
  PROVE  IInv'
<1> USE DEF OwnBecomes
<1>1. /\ truth' = [truth EXCEPT ![r] = truth[r]] /\ late' = [late EXCEPT ![r] = late[r]]
  BY DEF IInv, TypeOK
<1>2. /\ SessionsAreGood'
      /\ object' \in [Requests -> Objects] /\ truth' \in [Requests -> Patches]
      /\ rows' \in [Requests -> Rows] /\ late' \in [Requests -> SUBSET Statements]
      /\ unsure' \in [Requests -> SUBSET Fields]
      /\ object'[r] = o /\ rows'[r] = row
      /\ \A d \in Requests \ {r} : rows'[d] = rows[d] /\ object'[d] = object[d]
  BY <1>1, OneMoves
<1>3. TypeOK'
  BY <1>2 DEF IInv, TypeOK
<1>4. \A q \in Requests : /\ answer'[q] = IF q = r THEN a ELSE answer[q]
                          /\ pc'[q] = IF q = r THEN p ELSE pc[q]
  BY DEF IInv, TypeOK
<1>5. \A q \in Requests : rows[q].at # 0 => rows'[q].at # 0
  BY <1>2
<1>6. KeyNames'
  <2>1. ASSUME NEW q \in Requests, rows'[q].at # 0, key'[q] # NoKey PROVE keys'[key'[q]] = q
    <3>1. CASE q = r
      BY <2>1, <3>1
    <3>2. CASE q # r
      <4>1. keys[key[q]] = q /\ key[q] \in Keys
        BY <1>2, <2>1, <3>2 DEF IInv, KeyNames, TypeOK
      <4>2. keys[key[q]] # NoRequest
        BY <4>1, DirectoryAssumption
      <4> QED
        BY <4>1, <4>2
    <3> QED
      BY <3>1, <3>2
  <2>2. ASSUME NEW k \in Keys, keys'[k] # NoRequest PROVE rows'[keys'[k]].at # 0 /\ key'[keys'[k]] = k
    <3>1. CASE keys'[k] = keys[k]
      BY <1>5, <2>2, <3>1 DEF IInv, KeyNames, TypeOK
    <3>2. CASE k = key[r] /\ keys'[k] = r
      BY <1>2, <3>2
    <3> QED
      BY <3>1, <3>2
  <2>3. ASSUME NEW q \in Requests, answer'[q] # NoRequest
        PROVE  rows'[answer'[q]].at # 0 /\ key'[answer'[q]] = key'[q]
    <3>1. CASE answer'[q] = answer[q]
      BY <1>5, <2>3, <3>1 DEF IInv, KeyNames, TypeOK
    <3>2. CASE q = r /\ answer'[q] = r
      BY <1>2, <3>2
    <3> QED
      BY <1>4, <3>1, <3>2
  <2> QED
    BY <2>1, <2>2, <2>3 DEF KeyNames
<1>7. ASSUME NEW q \in Requests PROVE PcMeans(q)'
  <2>1. CASE q # r
    BY <1>2, <1>4, <2>1 DEF IInv, PcMeans
  <2>2. CASE q = r
    BY <1>2, <1>4, <2>2 DEF PcMeans
  <2> QED
    BY <2>1, <2>2
<1> QED
  BY <1>2, <1>3, <1>6, <1>7 DEF IInv

\* The batch inserts a row where there is none, and takes a key that is free.
LEMMA BatchStep ==
  ASSUME IInv, NEW r \in Requests, pc[r] = "insert", KeyIsFree(r), NEW t \in Times, BatchWrites(r, t),
         NEW p \in {"init", "conflict", "failed"}, GoesTo(r, p), p = "conflict" => key[r] # NoKey,
         UNCHANGED <<key, object, truth, late, unsure, updates>>, faults' \in Nat
  PROVE  IInv'
<1> DEFINE row == [state |-> Initially, at |-> t]
<1>1. /\ Good(object[r], truth[r], rows[r], late[r], unsure[r])
      /\ ~object[r].alive /\ truth[r] = Initially
  BY DEF IInv, SessionsAreGood, Good, Born, PcMeans
<1>2. row \in Rows /\ row.at # 0 /\ row.state = Initially
  BY DEF Rows, Times, Initially
<1>3. Good(object[r], truth[r], row, late[r], unsure[r])
  <2>1. \A f \in Fields : row.state[f] = truth[r][f]
    BY <1>1, <1>2
  <2> HIDE DEF row
  <2> QED
    BY <1>1, <1>2, <2>1 DEF Good, Latest, Born
<1>4. /\ rows' = [rows EXCEPT ![r] = row] /\ pc' = [pc EXCEPT ![r] = p] /\ answer' = answer
      /\ keys' = IF key[r] = NoKey THEN keys ELSE [keys EXCEPT ![key[r]] = r]
  BY DEF BatchWrites, NewRow, GoesTo
<1>5. key[r] \in Keys \cup {NoKey} /\ keys \in [Keys -> Requests \cup {NoRequest}]
  BY DEF IInv, TypeOK
<1>6. /\ keys' \in [Keys -> Requests \cup {NoRequest}]
      /\ \A k \in Keys : keys'[k] = keys[k] \/ (keys[k] = NoRequest /\ k = key[r] /\ keys'[k] = r)
      /\ key[r] # NoKey => keys'[key[r]] = r
  BY <1>4, <1>5 DEF KeyIsFree
<1>7. p \in Pcs /\ answer' = [answer EXCEPT ![r] = answer[r]]
      /\ object' = [object EXCEPT ![r] = object[r]] /\ unsure' = [unsure EXCEPT ![r] = unsure[r]]
  BY <1>4 DEF Pcs, Ended, IInv, TypeOK
<1> HIDE DEF row
<1>8. OwnBecomes(r, object[r], row, unsure[r], p, answer[r])
  BY <1>4, <1>6, <1>7 DEF OwnBecomes
<1> QED
  BY <1>2, <1>3, <1>5, <1>7, <1>8, OwnMoves

\* A request whose row is there is called on to start the object, or marks it failed.
LEMMA KeyOfRow ==
  ASSUME IInv, NEW r \in Requests, pc[r] \in {"init", "failing"}
  PROVE  /\ rows[r].at # 0 /\ keys \in [Keys -> Requests \cup {NoRequest}]
         /\ key[r] # NoKey => keys[key[r]] = r
         /\ Good(object[r], truth[r], rows[r], late[r], unsure[r])
  BY DEF IInv, PcMeans, KeyNames, TypeOK, SessionsAreGood

LEMMA StartStep ==
  ASSUME IInv, NEW r \in Requests, pc[r] = "init", object' \in {object, Started(r)},
         NEW p \in {"done", "failing"}, pc' = [pc EXCEPT ![r] = p],
         NEW a \in {answer[r], r}, answer' = [answer EXCEPT ![r] = a],
         UNCHANGED <<rows, keys, key, truth, late, unsure, updates>>, faults' \in Nat
  PROVE  IInv'
<1>1. /\ rows[r].at # 0 /\ keys \in [Keys -> Requests \cup {NoRequest}]
      /\ key[r] # NoKey => keys[key[r]] = r
      /\ Good(object[r], truth[r], rows[r], late[r], unsure[r])
  BY KeyOfRow
<1>2. PICK o : o \in {object[r], [object[r] EXCEPT !.alive = TRUE]} /\ object' = [object EXCEPT ![r] = o]
  BY DEF Started, IInv, TypeOK
<1>3. /\ o \in Objects /\ o.life = object[r].life /\ o.clock = object[r].clock
      /\ o.pending = object[r].pending /\ o.write = object[r].write
  BY <1>1, <1>2 DEF Good, Objects
<1>4. o.alive \/ o = object[r]
  BY <1>1, <1>2 DEF Good, Objects
<1>5. Good(o, truth[r], rows[r], late[r], unsure[r])
  BY <1>1, <1>3, <1>4 DEF Good, Ahead, Latest, Lane, Born, Harmless, InPatch
<1>6. /\ p \in Pcs /\ rows' = [rows EXCEPT ![r] = rows[r]] /\ unsure' = [unsure EXCEPT ![r] = unsure[r]]
      /\ keys' \in [Keys -> Requests \cup {NoRequest}] /\ \A k \in Keys : keys'[k] = keys[k]
      /\ key[r] # NoKey => keys'[key[r]] = r
  BY <1>1 DEF Pcs, Ended, IInv, TypeOK
<1>7. OwnBecomes(r, o, rows[r], unsure[r], p, a)
  BY <1>2, <1>6 DEF OwnBecomes
<1> QED
  BY SMTT(30), <1>1, <1>5, <1>6, <1>7, OwnMoves

\* The failure takes the place of what the row said, and of its time.
LEMMA FailureStep == ASSUME IInv, NEW r \in Requests, FailureUpdate(r) PROVE IInv'
<1>1. PICK t \in Times : rows' = [rows EXCEPT ![r] = FailedRow(@, t)]
  BY DEF FailureUpdate
<1> DEFINE row == FailedRow(rows[r], t)
<1>2. /\ pc[r] = "failing" /\ unsure' = [unsure EXCEPT ![r] = Fields] /\ pc' = [pc EXCEPT ![r] = "failed"]
      /\ UNCHANGED <<truth, late, updates, key, keys, object, answer, faults>>
  BY DEF FailureUpdate, GoesTo
<1>3. /\ rows[r].at # 0 /\ keys \in [Keys -> Requests \cup {NoRequest}]
      /\ key[r] # NoKey => keys[key[r]] = r
      /\ Good(object[r], truth[r], rows[r], late[r], unsure[r])
  BY <1>2, KeyOfRow
<1>4. row \in Rows /\ row.at # 0
  BY <1>3 DEF Good, Rows, FailedRow, CreatorFailed, Times
<1> HIDE DEF row
<1>5. Good(object[r], truth[r], row, late[r], Fields)
  BY <1>3, <1>4 DEF Good, Latest, Born, Harmless, InPatch
<1>6. PICK p \in Pcs : p = "failed"
  BY DEF Pcs, Ended
<1>7. /\ rows' = [rows EXCEPT ![r] = row] /\ pc' = [pc EXCEPT ![r] = p]
      /\ object' = [object EXCEPT ![r] = object[r]] /\ answer' = [answer EXCEPT ![r] = answer[r]]
      /\ keys' \in [Keys -> Requests \cup {NoRequest}] /\ \A k \in Keys : keys'[k] = keys[k]
      /\ key[r] # NoKey => keys'[key[r]] = r
      /\ faults' \in Nat
  BY <1>1, <1>2, <1>3, <1>6 DEF row, IInv, TypeOK
<1>8. OwnBecomes(r, object[r], row, Fields, p, answer[r])
  <2>1. UNCHANGED <<truth, late, updates, key>> /\ unsure' = [unsure EXCEPT ![r] = Fields]
    BY <1>2
  <2>2. \A k \in Keys : keys'[k] = keys[k] \/ (keys[k] = NoRequest /\ k = key[r] /\ keys'[k] = r)
    BY <1>7
  <2> QED
    BY ONLY <1>7, <2>1, <2>2 DEF OwnBecomes
<1> QED
  BY <1>4, <1>5, <1>6, <1>8, OwnMoves

\* The batch was refused, or failed without effect.
LEMMA ConflictStep ==
  ASSUME IInv, NEW r \in Requests, NEW p \in {"conflict", "failed"}, GoesTo(r, p),
         p = "conflict" => key[r] # NoKey,
         UNCHANGED <<rows, keys, key, object, truth, late, unsure, updates>>, faults' \in Nat
  PROVE  IInv'
<1>1. /\ key[r] \in Keys \cup {NoKey} /\ answer[r] \in Requests \cup {NoRequest} /\ p \in Pcs
      /\ answer[r] # NoRequest => rows[answer[r]].at # 0 /\ key[answer[r]] = key[r]
  BY DEF IInv, TypeOK, KeyNames, Pcs, Ended
<1>2. GoesOn(r, p, key[r], answer[r])
  BY DEF GoesOn, GoesTo, IInv, TypeOK
<1> QED
  BY <1>1, <1>2, QuietRequests

LEMMA CreationSteps == ASSUME IInv, NEW r \in Requests, Creation(r) PROVE IInv'
<1>1. faults \in Nat /\ faults + 1 \in Nat
  BY DEF IInv, TypeOK
<1>2. CASE Inserts(r)
  <2>1. /\ pc[r] = "insert" /\ UNCHANGED <<key, object, truth, late, unsure, updates>> /\ faults' \in Nat
    BY <1>1, <1>2 DEF Inserts
  <2>2. CASE KeyIsFree(r)
    <3>1. PICK t \in Times : BatchWrites(r, t) /\ GoesTo(r, "init")
      BY <1>2, <2>2 DEF Inserts
    <3> QED
      BY <2>1, <2>2, <3>1, BatchStep
  <2>3. CASE ~KeyIsFree(r)
    BY <1>2, <2>1, <2>3, ConflictStep DEF Inserts, KeyIsFree
  <2> QED
    BY <2>2, <2>3
<1>3. CASE InsertFails(r)
  <2>1. /\ pc[r] = "insert" /\ UNCHANGED <<key, object, truth, late, unsure, updates>> /\ faults' \in Nat
        /\ KeyIsFree(r)
    BY <1>1, <1>3 DEF InsertFails, Fault
  <2>2. PICK p \in {"conflict", "failed"} : GoesTo(r, p) /\ p = IF key[r] = NoKey THEN "failed" ELSE "conflict"
    BY <1>3 DEF InsertFails
  <2>3. CASE UNCHANGED <<rows, keys>>
    BY <2>1, <2>2, <2>3, ConflictStep
  <2>4. ASSUME NEW t \in Times, BatchWrites(r, t) PROVE IInv'
    BY <2>1, <2>2, <2>4, BatchStep
  <2> QED
    BY <1>3, <2>3, <2>4 DEF InsertFails
<1>4. CASE Initializes(r)
  BY <1>1, <1>4, StartStep DEF Initializes, Answer
<1>5. CASE InitFails(r)
  <2>1. answer' = [answer EXCEPT ![r] = answer[r]] /\ pc' = [pc EXCEPT ![r] = "failing"]
    BY <1>5 DEF InitFails, GoesTo, IInv, TypeOK
  <2> QED
    BY <1>1, <1>5, <2>1, StartStep DEF InitFails, Fault
<1> QED
  BY <1>2, <1>3, <1>4, <1>5, LookupSteps, FailureStep DEF Creation

-----------------------------------------------------------------------------
(* Theorems *)

\* The inductive invariant.
THEOREM DirectoryInvariant == Spec => []IInv
<1>1. Init => IInv
  <2> SUFFICES ASSUME Init PROVE IInv
    OBVIOUS
  <2>1. Initially \in Patches /\ NoWrite \in Writes /\ Initially \in [Fields -> Int]
    BY DirectoryAssumption DEF Initially, Patches, NoWrite, Writes
  <2>2. TypeOK
    BY <2>1 DEF Init, TypeOK, Rows, Objects, Pcs
  <2>3. ASSUME NEW s \in Requests PROVE Good(object[s], truth[s], rows[s], late[s], unsure[s])
    <3>1. /\ object[s] = [alive |-> FALSE, life |-> 0, clock |-> 0, pending |-> Initially,
                         queued |-> FALSE, write |-> NoWrite]
          /\ truth[s] = Initially /\ late[s] = {} /\ unsure[s] = {}
          /\ rows[s] = [state |-> Initially, at |-> 0]
      BY DEF Init
    <3>2. object[s] \in Objects /\ rows[s] \in Rows /\ truth[s] \in Patches
      BY <2>2 DEF TypeOK
    <3>3. \A f \in Fields : Lane(object[s], f) = 0
      BY <3>1 DEF Lane, NoWrite, Initially
    <3>4. /\ object[s].write.phase = "none" /\ object[s].write.patch = Initially
          /\ ~object[s].alive /\ rows[s].state = truth[s]
      BY <3>1 DEF NoWrite
    <3> QED
      BY <3>1, <3>2, <3>3, <3>4 DEF Good, Ahead, Latest, Born
  <2>4. KeyNames /\ \A r \in Requests : PcMeans(r)
    BY DEF Init, KeyNames, PcMeans
  <2> QED
    BY <2>2, <2>3, <2>4 DEF IInv, SessionsAreGood
<1>2. IInv /\ [Next]_vars => IInv'
  <2> SUFFICES ASSUME IInv, [Next]_vars PROVE IInv'
    OBVIOUS
  <2>1. CASE Next
    BY <2>1, CreationSteps, UpdatingSteps DEF Next
  <2>2. CASE UNCHANGED vars
    BY <2>2 DEF vars, createVars, IInv, TypeOK, SessionsAreGood, KeyNames, PcMeans
  <2> QED
    BY <2>1, <2>2
<1> QED
  BY <1>1, <1>2, PTL DEF Spec

\* The types, among them the bounds of the attempts and of the conflicts of a write.
THEOREM DirectoryTypeCorrect == Spec => []TypeOK
  BY DirectoryInvariant, PTL DEF IInv

\* Requests with one Idempotency-Key, however they race, fail and are repeated,
\* make one row, and every answer names it.
THEOREM KeysMakeOneSession == Spec => []OneSessionPerKey
<1>1. IInv => OneSessionPerKey
  <2> SUFFICES ASSUME IInv PROVE OneSessionPerKey
    OBVIOUS
  <2>1. ASSUME NEW r \in Requests, answer[r] # NoRequest
        PROVE  /\ rows[answer[r]].at # 0 /\ key[answer[r]] = key[r]
               /\ key[r] # NoKey => keys[key[r]] = answer[r]
    <3>1. answer[r] \in Requests
      BY <2>1 DEF IInv, TypeOK
    <3> QED
      BY <2>1, <3>1 DEF IInv, KeyNames
  <2> QED
    BY <2>1 DEF IInv, KeyNames, OneSessionPerKey
<1> QED
  BY <1>1, DirectoryInvariant, PTL

\* No change of a Session is forgotten, whatever fails, times out, lands late or
\* is merged, except what was given up.
THEOREM DirectoryAlwaysCatchesUp == Spec => []DirectoryCatchesUp
<1>1. IInv => DirectoryCatchesUp
  <2> SUFFICES ASSUME IInv, NEW s \in Requests, NEW f \in Fields \ unsure[s]
               PROVE  Coming(s, f) = truth[s][f]
    BY DEF DirectoryCatchesUp
  <2>1. Latest(object[s], truth[s], rows[s], unsure[s])
    BY DEF IInv, SessionsAreGood, Good
  <2> QED
    BY <2>1 DEF Latest, Lane, Coming
<1> QED
  BY <1>1, DirectoryInvariant, PTL

\* The order of the values of each field.
RowOrdered(o, tr, row) ==
    \A f \in Fields :
        /\ row.state[f] <= tr[f] /\ o.write.patch[f] <= tr[f]
        /\ o.write.patch[f] # 0 => row.state[f] <= o.write.patch[f]
LateOrdered(o, tr, row, v) ==
    \A f \in InPatch(v.patch) :
        /\ v.patch[f] <= tr[f]
        /\ o.write.patch[f] # 0 => v.patch[f] <= o.write.patch[f]
        /\ row.at < v.at => row.state[f] <= v.patch[f]
InOrder(v, w) ==
    v.at < w.at => \A f \in InPatch(v.patch) \cap InPatch(w.patch) : v.patch[f] <= w.patch[f]
Ordered(o, tr, row, lt) ==
    /\ RowOrdered(o, tr, row)
    /\ \A v \in lt : LateOrdered(o, tr, row, v)
    /\ \A v, w \in lt : InOrder(v, w)

\* This is of an object in its first life whose creator has not failed it.
Unfailed(s) == object[s].life = 0 /\ pc[s] # "failed"
OrderInv ==
    \A s \in Requests : Unfailed(s) => Ordered(object[s], truth[s], rows[s], late[s])

NoFieldGoesBack(row, new) == \A f \in Fields : row.state[f] <= new.state[f]

-----------------------------------------------------------------------------
(* The lane, as values *)

\* Another write, of the last changes, or the same one again.
LEMMA WritesInOrder ==
  ASSUME NEW o, NEW tr, NEW row, NEW lt, NEW un, Good(o, tr, row, lt, un),
         Ordered(o, tr, row, lt),
         NEW x, NEW next \in Patches, \A f \in Fields : tr[f] <= next[f],
         \A f \in Fields : x.write.patch[f] \in {0, o.write.patch[f], next[f]}
  PROVE  Ordered(x, next, row, lt)
<1>1. /\ tr \in Patches /\ row \in Rows /\ lt \in SUBSET Statements /\ o.write.patch \in Patches
  BY DEF Good, Objects, Writes
<1>2. \A f \in Fields : /\ tr[f] \in Nat /\ next[f] \in Nat /\ row.state[f] \in Int
                        /\ o.write.patch[f] \in Nat
  BY <1>1 DEF Patches, Rows
<1>3. RowOrdered(x, next, row)
  BY <1>2 DEF Ordered, RowOrdered
<1>4. ASSUME NEW v \in lt PROVE LateOrdered(x, next, row, v)
  <2>1. \A f \in Fields : v.patch[f] \in Nat
    BY <1>1 DEF Statements, Patches
  <2> QED
    BY <1>2, <2>1 DEF Ordered, LateOrdered, InPatch
<1> QED
  BY <1>3, <1>4 DEF Ordered

\* What is left in the lane when a write is over.
LEMMA DrainsInOrder ==
  ASSUME NEW o, NEW tr, NEW row, NEW lt, NEW un, Good(o, tr, row, lt, un), NEW t \in Times
  PROVE  \A f \in Fields : Drained(o, t).write.patch[f] \in {0, tr[f]}
<1> DEFINE x == Drained(o, t)
<1>1. \A f \in Fields : o.pending[f] \in {0, tr[f]}
  BY DEF Good, Latest, Lane
<1>2. CASE o.queued
  <2>1. x = StartsWrite(o, o.pending, t)
    BY <1>2 DEF Drained
  <2>2. x.write.patch = o.pending
    BY <2>1 DEF StartsWrite, Write, Good, Objects
  <2> QED
    BY <1>1, <2>2
<1>3. CASE ~o.queued
  <2>1. x = [o EXCEPT !.write = NoWrite]
    BY <1>3 DEF Drained
  <2>2. x.write.patch = Initially
    BY <2>1 DEF NoWrite, Good, Objects
  <2> QED
    BY <2>2 DEF Initially
<1> QED
  BY <1>2, <1>3

\* The write in flight is carried out.
LEMMA SucceedsInOrder ==
  ASSUME NEW o, NEW tr, NEW row, NEW lt, NEW un, Good(o, tr, row, lt, un),
         Ordered(o, tr, row, lt), o.life = 0,
         o.write.phase = "statement", row.at < o.write.at
  PROVE  LET new == [state |-> Merged(row.state, o.write.patch), at |-> o.write.at]
         IN  Ordered(o, tr, new, lt) /\ NoFieldGoesBack(row, new)
<1> DEFINE p == o.write.patch
           new == [state |-> Merged(row.state, p), at |-> o.write.at]
<1>1. /\ tr \in Patches /\ row \in Rows /\ lt \in SUBSET Statements /\ p \in Patches
      /\ o.clock \in Nat /\ o.write.at = o.clock
  BY DEF Good, Ahead, Objects, Writes
<1>2. \A f \in Fields : tr[f] \in Nat /\ row.state[f] \in Int /\ p[f] \in Nat
  BY <1>1 DEF Patches, Rows
<1>3. new.at = o.clock /\ \A f \in Fields : new.state[f] = IF p[f] = 0 THEN row.state[f] ELSE p[f]
  BY <1>1 DEF Merged
<1> HIDE DEF new
<1>4. RowOrdered(o, tr, new) /\ NoFieldGoesBack(row, new)
  BY <1>2, <1>3 DEF Ordered, RowOrdered, NoFieldGoesBack
<1>5. ASSUME NEW v \in lt PROVE LateOrdered(o, tr, new, v)
  <2>1. v.at <= o.clock /\ v.at \in Nat
    BY <1>1 DEF Good, Ahead, Statements
  <2> QED
    BY <1>1, <1>3, <2>1 DEF Ordered, LateOrdered
<1> QED
  BY <1>4, <1>5 DEF Ordered, new

\* The statement in flight is left to land later.
LEMMA TimesOutInOrder ==
  ASSUME NEW o, NEW tr, NEW row, NEW lt, NEW un, Good(o, tr, row, lt, un),
         Ordered(o, tr, row, lt), o.life = 0, o.write.phase = "statement"
  PROVE  Ordered(o, tr, row, lt \cup {Statement(o)})
<1> DEFINE w == Statement(o)
<1>1. /\ o.clock \in Nat /\ o.write.at = o.clock /\ lt \in SUBSET Statements
      /\ o.write.patch \in Patches
  BY DEF Good, Ahead, Objects, Writes
<1>2. w.at = o.clock /\ w.patch = o.write.patch
  BY <1>1 DEF Statement
<1> HIDE DEF w
<1>3. LateOrdered(o, tr, row, w)
  <2>1. \A f \in Fields : o.write.patch[f] \in Nat
    BY <1>1 DEF Patches
  <2> QED
    BY <1>2, <2>1 DEF Ordered, RowOrdered, LateOrdered, InPatch
<1>4. ASSUME NEW v \in lt PROVE InOrder(v, w) /\ InOrder(w, v)
  <2>1. v.at <= o.clock /\ v.at \in Nat
    BY <1>1 DEF Good, Ahead, Statements
  <2> QED
    BY <1>1, <1>2, <2>1 DEF Ordered, LateOrdered, InOrder, InPatch
<1>5. InOrder(w, w)
  BY <1>1, <1>2 DEF InOrder
<1> QED
  BY <1>3, <1>4, <1>5 DEF Ordered, w

\* A statement that timed out lands.
LEMMA LandsInOrder ==
  ASSUME NEW o, NEW tr, NEW row, NEW lt, NEW un, Good(o, tr, row, lt, un),
         Ordered(o, tr, row, lt), NEW w \in lt, row.at < w.at
  PROVE  LET new == [state |-> Merged(row.state, w.patch), at |-> w.at]
         IN  Ordered(o, tr, new, lt \ {w}) /\ NoFieldGoesBack(row, new)
<1> DEFINE new == [state |-> Merged(row.state, w.patch), at |-> w.at]
<1>1. /\ tr \in Patches /\ row \in Rows /\ lt \in SUBSET Statements /\ w.patch \in Patches
      /\ o.write.patch \in Patches /\ w.at \in Nat
  BY DEF Good, Objects, Writes, Statements
<1>2. \A f \in Fields : /\ tr[f] \in Nat /\ row.state[f] \in Int /\ w.patch[f] \in Nat
                        /\ o.write.patch[f] \in Nat
  BY <1>1 DEF Patches, Rows
<1>3. /\ new.at = w.at
      /\ \A f \in Fields : new.state[f] = IF w.patch[f] = 0 THEN row.state[f] ELSE w.patch[f]
  BY DEF Merged
<1> HIDE DEF new
<1>4. LateOrdered(o, tr, row, w)
  BY DEF Ordered
<1>5. RowOrdered(o, tr, new)
  BY <1>2, <1>3, <1>4 DEF Ordered, RowOrdered, LateOrdered, InPatch
<1>6. NoFieldGoesBack(row, new)
  BY <1>2, <1>3, <1>4 DEF NoFieldGoesBack, LateOrdered, InPatch
<1>7. ASSUME NEW v \in lt PROVE LateOrdered(o, tr, new, v)
  <2>1. v.at \in Nat /\ row.at \in Nat /\ LateOrdered(o, tr, row, v) /\ InOrder(w, v)
    BY <1>1 DEF Ordered, Statements, Rows
  <2>2. ASSUME NEW f \in InPatch(v.patch), w.at < v.at PROVE new.state[f] <= v.patch[f]
    BY <1>1, <1>3, <2>1, <2>2 DEF LateOrdered, InOrder, InPatch
  <2> QED
    BY <1>3, <2>1, <2>2 DEF LateOrdered
<1> QED
  BY <1>5, <1>6, <1>7 DEF Ordered, new

-----------------------------------------------------------------------------
(* Steps *)

\* What belongs to a Session, after a step.
Follows(s, o, tr, row, lt) ==
    object'[s] = o /\ truth'[s] = tr /\ rows'[s] = row /\ late'[s] = lt

KeepsOrder(s) ==
    /\ Unfailed(s)' => Ordered(object'[s], truth'[s], rows'[s], late'[s])
    /\ pc[s] # "failing" /\ rows[s].at # 0 => NoFieldGoesBack(rows[s], rows'[s])

LEMMA KeptOrder ==
  ASSUME NEW s \in Requests, NEW o, NEW tr, NEW row, NEW lt, Follows(s, o, tr, row, lt),
         Ordered(o, tr, row, lt), NoFieldGoesBack(rows[s], row)
  PROVE  KeepsOrder(s)
BY DEF KeepsOrder, Follows

\* A Session that is in its first life and not failed was so before.
LEMMA WasUnfailed ==
  ASSUME IInv, NEW s \in Requests, NEW r \in Requests, Creation(r) \/ Updating(r), Unfailed(s)'
  PROVE  Unfailed(s)
<1>1. /\ object \in [Requests -> Objects] /\ pc \in [Requests -> Pcs]
      /\ object[s] \in Objects /\ object[s].life \in Nat
  BY DEF IInv, TypeOK, Objects
<1>2. CASE Creation(r)
  <2>1. object'[s].life = object[s].life
    BY <1>1, <1>2 DEF Creation, Arrives, LooksUp, Inserts, InsertFails, ConflictLooksUp,
       Initializes, InitFails, FailureUpdate, Cut, Started, Objects
  <2>2. pc[s] = "failed" => pc'[s] = "failed"
    BY <1>1, <1>2 DEF Creation, Arrives, LooksUp, Inserts, InsertFails, ConflictLooksUp,
       Initializes, InitFails, FailureUpdate, Cut, GoesTo, Answer, Ended
  <2> QED
    BY <2>1, <2>2 DEF Unfailed
<1>3. CASE Updating(r)
  <2>1. pc' = pc
    BY <1>3 DEF Updating, UpdateDirectory, WriteAnswered, WriteFails, LateWriteLands, ReadsBaseline,
       ReadFails, Restart, createVars
  <2>2. \A o \in Objects : \A p, t : StartsWrite(o, p, t).life = o.life
    BY DEF StartsWrite, Objects
  <2>3. \A o \in Objects : \A p, t : Drained(o, t).life = o.life /\ Enqueued(o, p, t).life = o.life
    BY <2>2 DEF Drained, Enqueued, Objects
  <2>4. \A o \in Objects : \A b, t : Retried(o, b, t).life = o.life
    BY DEF Retried, Objects
  <2>5. \A o \in Objects : Asleep(o).life = o.life + 1
    BY DEF Asleep, Objects
  <2>6. CASE s # r
    <3>1. object'[s] = object[s]
      BY <1>1, <1>3, <2>6 DEF Updating, UpdateDirectory, WriteAnswered, WriteFails, LateWriteLands,
         ReadsBaseline, ReadFails, Restart, GivesUp
    <3> QED
      BY <2>1, <3>1 DEF Unfailed
  <2>7. CASE s = r
    <3>1. object'[s].life = object[s].life \/ object'[s].life = object[s].life + 1
      <4>1. CASE \E changed \in Changes : UpdateDirectory(s, changed)
        BY <1>1, <2>3, <4>1 DEF UpdateDirectory
      <4>2. ASSUME GivesUp(s) PROVE object'[s].life = object[s].life
        BY <1>1, <2>3, <4>2 DEF GivesUp
      <4>3. CASE WriteAnswered(s)
        BY SMTT(30), <1>1, <2>3, <4>3 DEF WriteAnswered, Objects
      <4>4. CASE WriteFails(s)
        BY <1>1, <4>2, <4>4 DEF WriteFails, Objects
      <4>5. CASE LateWriteLands(s)
        BY <4>5 DEF LateWriteLands
      <4>6. CASE ReadsBaseline(s)
        BY <1>1, <2>4, <4>2, <4>6 DEF ReadsBaseline
      <4>7. CASE ReadFails(s)
        BY <4>2, <4>7 DEF ReadFails
      <4>8. CASE Restart(s)
        BY <1>1, <2>5, <4>8 DEF Restart
      <4> QED
        BY <1>3, <2>7, <4>1, <4>3, <4>4, <4>5, <4>6, <4>7, <4>8 DEF Updating
    <3> QED
      BY <1>1, <2>1, <3>1 DEF Unfailed
  <2> QED
    BY <2>6, <2>7
<1> QED
  BY <1>2, <1>3

\* The requests of other Sessions, and the one that creates this.
LEMMA CreationInOrder ==
  ASSUME IInv, NEW s \in Requests, Ordered(object[s], truth[s], rows[s], late[s]),
         NEW r \in Requests, Creation(r)
  PROVE  KeepsOrder(s)
<1> DEFINE o == object[s]
           row == rows[s]
<1>1. /\ object \in [Requests -> Objects] /\ rows \in [Requests -> Rows] /\ row \in Rows
      /\ pc \in [Requests -> Pcs] /\ o \in Objects
  BY DEF IInv, TypeOK
<1>2. truth'[s] = truth[s] /\ late'[s] = late[s]
  BY DEF Creation, Arrives, LooksUp, Inserts, InsertFails, ConflictLooksUp, Initializes, InitFails,
     FailureUpdate, Cut
<1>3. NoFieldGoesBack(row, row)
  BY <1>1 DEF NoFieldGoesBack, Rows
<1>4. ASSUME object' \in {object, Started(r)}, rows' = rows PROVE KeepsOrder(s)
  <2>1. object'[s].write.patch = o.write.patch
    BY <1>1, <1>4 DEF Started, Objects
  <2>2. Ordered(object'[s], truth[s], row, late[s])
    BY <2>1 DEF Ordered, RowOrdered, LateOrdered
  <2> QED
    BY <1>2, <1>3, <1>4, <2>2 DEF KeepsOrder
<1>5. CASE Inserts(r) \/ InsertFails(r)
  <2>1. pc[r] = "insert" /\ object' = object
    BY <1>5 DEF Inserts, InsertFails
  <2>2. CASE rows' = rows
    BY <1>4, <2>1, <2>2
  <2>3. CASE rows' # rows
    <3>1. PICK t \in Times : rows' = NewRow(r, t)
      BY <1>5, <2>3 DEF Inserts, InsertFails, BatchWrites
    <3>2. CASE s # r
      BY <1>1, <1>2, <1>3, <2>1, <3>1, <3>2 DEF KeepsOrder, NewRow
    <3>3. CASE s = r
      <4>1. row.at = 0 /\ ~o.alive
        BY <2>1, <3>3 DEF IInv, PcMeans
      <4>2. /\ truth[s] = Initially /\ late[s] = {} /\ o.write.patch = Initially
        BY <4>1 DEF IInv, SessionsAreGood, Good, Born, Ahead
      <4>3. rows'[s].state = Initially
        BY <1>1, <3>1, <3>3 DEF NewRow
      <4>4. RowOrdered(o, truth[s], rows'[s])
        BY <4>2, <4>3 DEF RowOrdered, Initially
      <4>5. Ordered(o, truth[s], rows'[s], late[s])
        BY <4>2, <4>4 DEF Ordered
      <4> QED
        BY <1>2, <2>1, <4>1, <4>5 DEF KeepsOrder
    <3> QED
      BY <3>2, <3>3
  <2> QED
    BY <2>2, <2>3
<1>6. CASE FailureUpdate(r)
  <2>1. pc[r] = "failing" /\ object' = object
    BY <1>6 DEF FailureUpdate
  <2>2. CASE s # r
    BY <1>1, <1>2, <1>3, <1>6, <2>1, <2>2 DEF KeepsOrder, FailureUpdate
  <2>3. CASE s = r
    <3>1. pc'[s] = "failed"
      BY <1>1, <1>6, <2>3 DEF FailureUpdate, GoesTo
    <3> QED
      BY <2>1, <2>3, <3>1 DEF KeepsOrder, Unfailed
  <2> QED
    BY <2>2, <2>3
<1>7. CASE ~(Inserts(r) \/ InsertFails(r) \/ FailureUpdate(r))
  <2>1. object' \in {object, Started(r)} /\ rows' = rows
    BY <1>7 DEF Creation, Arrives, LooksUp, ConflictLooksUp, Initializes, InitFails, Cut
  <2> QED
    BY <1>4, <2>1
<1> QED
  BY <1>5, <1>6, <1>7

\* The object of the Session itself.
LEMMA UpdatingInOrder ==
  ASSUME IInv, NEW s \in Requests, Unfailed(s), Ordered(object[s], truth[s], rows[s], late[s]),
         Updating(s)
  PROVE  KeepsOrder(s)
<1> DEFINE o == object[s]
           tr == truth[s]
           row == rows[s]
           lt == late[s]
           un == unsure[s]
<1>1. /\ Good(o, tr, row, lt, un) /\ Ordered(o, tr, row, lt) /\ o.life = 0
      /\ object \in [Requests -> Objects] /\ truth \in [Requests -> Patches]
      /\ rows \in [Requests -> Rows] /\ late \in [Requests -> SUBSET Statements]
  BY DEF IInv, SessionsAreGood, TypeOK, Unfailed
<1>2. /\ o \in Objects /\ tr \in Patches /\ row \in Rows /\ lt \in SUBSET Statements
      /\ \A f \in Fields : tr[f] \in Nat /\ row.state[f] \in Int /\ tr[f] <= tr[f]
  BY <1>1 DEF Patches, Rows
<1>3. NoFieldGoesBack(row, row)
  BY <1>2 DEF NoFieldGoesBack
\* The lane goes on with one of its writes, or with none.
<1>4. ASSUME NEW x, NEW l, Good(o, tr, row, l, un), Ordered(o, tr, row, l),
             \A f \in Fields : x.write.patch[f] \in {0, o.write.patch[f], tr[f]},
             Follows(s, x, tr, row, l)
      PROVE  KeepsOrder(s)
  <2>1. Ordered(x, tr, row, l)
    BY <1>2, <1>4, WritesInOrder
  <2> QED
    BY <1>3, <1>4, <2>1, KeptOrder
<1>5. \A t \in Times, f \in Fields : Drained(o, t).write.patch[f] \in {0, tr[f]}
  BY <1>1, DrainsInOrder
<1>6. ASSUME NEW changed \in Changes, UpdateDirectory(s, changed) PROVE KeepsOrder(s)
  <2> DEFINE patch == [f \in Fields |-> IF f \in changed THEN tr[f] + 1 ELSE 0]
             next == [f \in Fields |-> IF f \in changed THEN tr[f] + 1 ELSE tr[f]]
  <2>1. PICK t \in Times : object' = [object EXCEPT ![s] = Enqueued(@, patch, t)]
    BY <1>6 DEF UpdateDirectory
  <2>2. truth' = [truth EXCEPT ![s] = next] /\ rows' = rows /\ late' = late
    BY <1>6 DEF UpdateDirectory
  <2>3. PICK x : x = Enqueued(o, patch, t)
    OBVIOUS
  <2>4. Follows(s, x, next, row, lt)
    BY <1>1, <2>1, <2>2, <2>3 DEF Follows
  <2>5. next \in Patches /\ \A f \in Fields : tr[f] <= next[f]
    BY <1>2 DEF Patches
  <2>6. \A f \in Fields : x.write.patch[f] \in {0, o.write.patch[f], next[f]}
    <3>1. CASE o.write.phase = "none"
      <4>1. x = StartsWrite(o, Merged(o.pending, patch), t)
        BY <2>3, <3>1 DEF Enqueued
      <4>2. x.write.patch = Merged(o.pending, patch)
        BY <1>2, <4>1 DEF StartsWrite, Write, Objects
      <4>3. \A f \in Fields : o.pending[f] \in {0, tr[f]}
        BY <1>1 DEF Good, Latest, Lane
      <4>4. \A f \in Fields : tr[f] + 1 # 0
        BY <1>2
      <4> QED
        BY <4>2, <4>3, <4>4 DEF Merged
    <3>2. CASE o.write.phase # "none"
      <4>1. x = [o EXCEPT !.pending = Merged(o.pending, patch), !.queued = TRUE]
        BY <2>3, <3>2 DEF Enqueued
      <4> QED
        BY <1>2, <4>1 DEF Objects
    <3> QED
      BY <3>1, <3>2
  <2> HIDE DEF next
  <2>7. Ordered(x, next, row, lt)
    BY <1>1, <2>5, <2>6, WritesInOrder
  <2> QED
    BY <1>3, <2>4, <2>7, KeptOrder
<1>7. CASE WriteAnswered(s)
  <2> DEFINE w == o.write
  <2>1. w.phase = "statement" /\ truth' = truth /\ late' = late /\ rows' = Executed(s, w)
    BY <1>7 DEF WriteAnswered
  <2>2. CASE IsNewer(s, w)
    <3> DEFINE new == [state |-> Merged(row.state, w.patch), at |-> w.at]
    <3>1. PICK t \in Times : object' = [object EXCEPT ![s] = Drained(@, t)]
      BY <1>7, <2>2 DEF WriteAnswered
    <3>2. row.at < w.at /\ rows' = [rows EXCEPT ![s] = new]
      BY <2>1, <2>2 DEF Executed, IsNewer
    <3>3. Ordered(o, tr, new, lt) /\ NoFieldGoesBack(row, new)
      BY <1>1, <2>1, <3>2, SucceedsInOrder
    <3>4. Follows(s, Drained(o, t), tr, new, lt)
      BY <1>1, <2>1, <3>1, <3>2 DEF Follows
    <3>5. Ordered(Drained(o, t), tr, new, lt)
      <4> DEFINE x == Drained(o, t)
      <4>1. \A f \in Fields : x.write.patch[f] \in {0, tr[f]}
        BY <1>5
      <4> HIDE DEF x, new
      <4>2. /\ \A f \in Fields : new.state[f] <= tr[f]
            /\ \A v \in lt : \A f \in InPatch(v.patch) :
                 v.patch[f] <= tr[f] /\ (new.at < v.at => new.state[f] <= v.patch[f])
            /\ \A v, u \in lt : InOrder(v, u)
        BY <3>3 DEF Ordered, RowOrdered, LateOrdered
      <4>3. \A f \in Fields : 0 <= tr[f] /\ tr[f] <= tr[f]
        BY <1>2
      <4>4. RowOrdered(x, tr, new)
        BY <4>1, <4>2, <4>3 DEF RowOrdered
      <4>5. \A v \in lt : LateOrdered(x, tr, new, v)
        BY <4>1, <4>2 DEF LateOrdered, InPatch
      <4> QED
        BY <4>2, <4>4, <4>5 DEF Ordered, x
    <3> QED
      BY <3>3, <3>4, <3>5, KeptOrder
  <2>3. CASE ~IsNewer(s, w)
    <3>1. rows' = rows /\ object' = [object EXCEPT ![s].write.phase = "reading"]
      BY <1>7, <2>1, <2>3 DEF WriteAnswered, Executed
    <3>2. PICK x : x = [o EXCEPT !.write.phase = "reading"]
      OBVIOUS
    <3>3. x.write.patch = o.write.patch
      BY <1>2, <3>2 DEF Objects, Writes
    <3>4. Follows(s, x, tr, row, lt)
      BY <1>1, <2>1, <3>1, <3>2 DEF Follows
    <3> QED
      BY <1>1, <1>3, <1>4, <3>3, <3>4
  <2> QED
    BY <2>2, <2>3
<1>8. CASE WriteFails(s)
  <2>1. /\ o.write.phase = "statement" /\ truth' = truth /\ rows' = rows
        /\ late' \in {late, [late EXCEPT ![s] = @ \cup {Statement(o)}]}
    BY <1>8 DEF WriteFails
  <2>2. PICK l \in {lt, lt \cup {Statement(o)}} : late'[s] = l
    BY <1>1, <2>1
  <2>3. Good(o, tr, row, l, un) /\ Ordered(o, tr, row, l)
    BY <1>1, <2>1, <2>2, TimesOut, TimesOutInOrder
  <2>4. PICK x : /\ object'[s] = x
                 /\ \A f \in Fields : x.write.patch[f] \in {0, o.write.patch[f], tr[f]}
    <3>1. CASE o.write.attempt < Attempts
      <4>1. object' = [object EXCEPT ![s].write.attempt = @ + 1]
        BY <1>8, <3>1 DEF WriteFails
      <4>2. object'[s].write.patch = o.write.patch
        BY <1>1, <1>2, <4>1 DEF Objects, Writes
      <4> QED
        BY <4>2
    <3>2. CASE ~(o.write.attempt < Attempts)
      <4>1. PICK t \in Times : object' = [object EXCEPT ![s] = Drained(@, t)]
        BY <1>8, <3>2 DEF WriteFails, GivesUp
      <4> QED
        BY <1>1, <1>5, <4>1
    <3> QED
      BY <3>1, <3>2
  <2>5. Follows(s, x, tr, row, l)
    BY <2>1, <2>2, <2>4 DEF Follows
  <2> QED
    BY <1>3, <1>4, <2>3, <2>4, <2>5
<1>9. CASE LateWriteLands(s)
  <2>1. PICK w \in lt : rows' = Executed(s, w) /\ late' = [late EXCEPT ![s] = lt \ {w}]
    BY <1>9 DEF LateWriteLands
  <2>2. object' = object /\ truth' = truth
    BY <1>9 DEF LateWriteLands
  <2>3. CASE IsNewer(s, w)
    <3> DEFINE new == [state |-> Merged(row.state, w.patch), at |-> w.at]
    <3>1. row.at < w.at /\ rows' = [rows EXCEPT ![s] = new]
      BY <2>1, <2>3 DEF Executed, IsNewer
    <3>2. Ordered(o, tr, new, lt \ {w}) /\ NoFieldGoesBack(row, new)
      BY <1>1, <3>1, LandsInOrder
    <3>3. Follows(s, o, tr, new, lt \ {w})
      BY <1>1, <2>1, <2>2, <3>1 DEF Follows
    <3> QED
      BY <3>2, <3>3, KeptOrder
  <2>4. CASE ~IsNewer(s, w)
    <3>1. Follows(s, o, tr, row, lt \ {w})
      BY <1>1, <2>1, <2>2, <2>4 DEF Follows, Executed
    <3>2. Ordered(o, tr, row, lt \ {w})
      BY <1>1 DEF Ordered
    <3> QED
      BY <1>3, <3>1, <3>2, KeptOrder
  <2> QED
    BY <2>3, <2>4
<1>10. ASSUME GivesUp(s), UNCHANGED <<rows, truth, late>> PROVE KeepsOrder(s)
  <2>1. PICK t \in Times : object' = [object EXCEPT ![s] = Drained(@, t)]
    BY <1>10 DEF GivesUp
  <2>2. Follows(s, Drained(o, t), tr, row, lt)
    BY <1>1, <1>10, <2>1 DEF Follows
  <2> QED
    BY <1>1, <1>3, <1>4, <1>5, <2>2
<1>11. CASE ReadsBaseline(s)
  <2>1. CASE o.write.conflict < Conflicts
    <3>1. PICK t \in Times : object' = [object EXCEPT ![s] = Retried(@, row.at, t)]
      BY <1>11, <2>1 DEF ReadsBaseline
    <3>2. rows' = rows /\ truth' = truth /\ late' = late
      BY <1>11 DEF ReadsBaseline
    <3>3. \A n : Rewritten(o.write, n).patch = o.write.patch
      BY <1>2 DEF Rewritten, Objects, Writes
    <3>4. Retried(o, row.at, t).write.patch = o.write.patch
      BY <1>2, <3>3 DEF Retried, Objects
    <3>5. PICK x : x = Retried(o, row.at, t)
      OBVIOUS
    <3>6. Follows(s, x, tr, row, lt)
      BY <1>1, <3>1, <3>2, <3>5 DEF Follows
    <3> QED
      BY <1>1, <1>3, <1>4, <3>4, <3>5, <3>6
  <2>2. CASE ~(o.write.conflict < Conflicts)
    BY <1>10, <1>11, <2>2 DEF ReadsBaseline
  <2> QED
    BY <2>1, <2>2
<1>12. CASE ReadFails(s)
  BY <1>10, <1>12 DEF ReadFails
<1>13. CASE Restart(s)
  <2>1. object' = [object EXCEPT ![s] = Asleep(o)] /\ rows' = rows
    BY <1>13 DEF Restart
  <2>2. object'[s].life = 1
    BY <1>1, <1>2, <2>1 DEF Asleep, Objects
  <2> QED
    BY <1>3, <2>1, <2>2 DEF KeepsOrder, Unfailed
<1> QED
  BY <1>6, <1>7, <1>8, <1>9, <1>11, <1>12, <1>13 DEF Updating

LEMMA OrderStep ==
  ASSUME IInv, OrderInv, NEW s \in Requests, Unfailed(s), NEW r \in Requests,
         Creation(r) \/ Updating(r)
  PROVE  KeepsOrder(s)
<1>1. Ordered(object[s], truth[s], rows[s], late[s])
  BY DEF OrderInv
<1>2. CASE Creation(r)
  BY <1>1, <1>2, CreationInOrder
<1>3. CASE Updating(r) /\ r = s
  BY <1>1, <1>3, UpdatingInOrder
<1>4. CASE Updating(r) /\ r # s
  <2>1. Follows(s, object[s], truth[s], rows[s], late[s])
    BY <1>4 DEF IInv, TypeOK, Follows, Updating, UpdateDirectory, WriteAnswered, WriteFails,
       LateWriteLands, ReadsBaseline, ReadFails, Restart, GivesUp, Executed
  <2>2. NoFieldGoesBack(rows[s], rows[s])
    BY DEF IInv, TypeOK, Rows, NoFieldGoesBack
  <2> QED
    BY <1>1, <2>1, <2>2, KeptOrder
<1> QED
  BY <1>2, <1>3, <1>4

-----------------------------------------------------------------------------
(* Theorems *)

\* In the first life of an object, and until its creator fails it, the row, the
\* late statements and the write in flight have their values in order.
THEOREM OrderInvariant == Spec => []OrderInv
<1>1. Init => OrderInv
  <2>1. \A f \in Fields : Initially[f] = 0
    BY DEF Initially
  <2> QED
    BY <2>1 DEF Init, OrderInv, Ordered, RowOrdered, NoWrite
<1>2. IInv /\ OrderInv /\ [Next]_vars => OrderInv'
  <2> SUFFICES ASSUME IInv, OrderInv, [Next]_vars PROVE OrderInv'
    OBVIOUS
  <2>1. CASE UNCHANGED vars
    BY <2>1 DEF vars, createVars, OrderInv, Unfailed
  <2>2. CASE Next
    <3>1. PICK r \in Requests : Creation(r) \/ Updating(r)
      BY <2>2 DEF Next
    <3>2. ASSUME NEW s \in Requests, Unfailed(s)'
          PROVE  Ordered(object'[s], truth'[s], rows'[s], late'[s])
      BY <3>1, <3>2, WasUnfailed, OrderStep DEF KeepsOrder
    <3>3. \A s \in Requests : Unfailed(s)' => Ordered(object'[s], truth'[s], rows'[s], late'[s])
      BY <3>2
    <3> QED
      BY <3>3 DEF OrderInv
  <2> QED
    BY <2>1, <2>2
<1> QED
  BY <1>1, <1>2, DirectoryInvariant, PTL DEF Spec

\* A statement that timed out and lands late puts no older value of a field
\* back ("Do not let that older request overwrite a newer state").
THEOREM OldValuesStayAway == Spec => NoOldValueReturns
<1>1. ASSUME IInv, OrderInv, [Next]_vars, NEW s \in Requests,
             object[s].life = 0 /\ pc[s] \notin {"failing", "failed"}
      PROVE  ~GoesBack(s)
  <2>1. rows[s] \in Rows
    BY <1>1 DEF IInv, TypeOK
  <2>2. CASE UNCHANGED vars
    BY <2>1, <2>2 DEF vars, GoesBack, Rows
  <2>3. CASE Next
    <3>1. PICK r \in Requests : Creation(r) \/ Updating(r)
      BY <2>3 DEF Next
    <3>2. KeepsOrder(s)
      BY <1>1, <3>1, OrderStep DEF Unfailed
    <3>3. rows'[s] \in Rows
      BY <1>1, <3>1, CreationSteps, UpdatingSteps DEF IInv, TypeOK
    <3> QED
      BY <1>1, <2>1, <3>2, <3>3 DEF KeepsOrder, NoFieldGoesBack, GoesBack, Rows
  <2> QED
    BY <1>1, <2>2, <2>3
<1>2. IInv /\ OrderInv /\ [Next]_vars =>
        \A s \in Requests : object[s].life = 0 /\ pc[s] \notin {"failing", "failed"} => ~GoesBack(s)
  BY <1>1
<1> QED
  BY <1>2, DirectoryInvariant, OrderInvariant, PTL DEF Spec, NoOldValueReturns
=============================================================================
