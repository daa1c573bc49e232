-------------------------- MODULE EventLogProofs ---------------------------
(***************************************************************************)
(* What the pages of a Session show, for any number of pages and events:   *)
(* nothing twice or out of order whatever happens, and exactly the events  *)
(* up to the cursor while everything is steady.                            *)
(*                                                                         *)
(* The frames on the way to a page are followed as a chain of cursors that *)
(* starts at the cursor of the page: each frame takes it from one cursor   *)
(* to the next.  What a frame may do is a relation, Forward whatever       *)
(* happens and Gapless while everything is steady, and the lemmas about    *)
(* chains hold for every relation.                                         *)
(***************************************************************************)
EXTENDS MCEventLog, SequenceTheorems, TLAPS

-----------------------------------------------------------------------------
(* Types *)

Checkpoints == [cursor : Nat, state : Seq(Nat)]
Frames == [type : {"snapshot"}, cursor : Nat, ids : Seq(Nat)]
            \cup [type : {"replay_batch", "event"}, ids : Seq(Nat)]
Pages == [cursor : Nat, state : Seq(Nat), chat : Seq(Nat), pending : Seq(Nat)]

TypeOK ==
    /\ lastId \in Nat /\ pruned \in 0 .. lastId
    /\ snapshot \in Checkpoints /\ stored \in Checkpoints
    /\ fits \in BOOLEAN /\ dirty \in BOOLEAN /\ steady \in BOOLEAN
    /\ tail \in Nat
    /\ connected \subseteq Clients
    /\ wire \in [Clients -> Seq(Frames)]
    /\ page \in [Clients -> Pages]

-----------------------------------------------------------------------------
(* The inductive invariant *)

\* The ids folded into a projection with cursor n.
Below(s, n) == Increasing(s) /\ \A i \in 1 .. Len(s) : s[i] <= n

\* The ids of a frame that takes a page from one cursor to the next.
Ascends(ids, from, to) ==
    /\ Increasing(ids) /\ to = LastOf(ids, from)
    /\ \A i \in 1 .. Len(ids) : from < ids[i] /\ ids[i] <= to

Moves(f, from, to) ==
    /\ from <= to
    /\ IF f.type = "snapshot"
         THEN f.cursor = to /\ Below(f.ids, to)
         ELSE Ascends(f.ids, from, to) /\ (f.type = "event" => Len(f.ids) = 1)
MovesExactly(f, from, to) ==
    /\ Moves(f, from, to)
    /\ f.ids = IF f.type = "snapshot" THEN UpTo(to) ELSE Ids(from, to)

Forward == {x \in Frames \X Nat \X Nat : Moves(x[1], x[2], x[3])}
Gapless == {x \in Frames \X Nat \X Nat : MovesExactly(x[1], x[2], x[3])}

\* The frames w take a page from cursor p to cursor q by steps in R.
Chain(w, p, q, R) ==
    \E b \in [0 .. Len(w) -> 0 .. q] :
        /\ b[0] = p /\ b[Len(w)] = q
        /\ \A i \in 1 .. Len(w) : <<w[i], b[i - 1], b[i]>> \in R

\* What is not live comes before what is: a batch never overtakes the events
\* that wait for the timer.
LiveComesLast(p, w) ==
    /\ p.pending # <<>> => \A i \in 1 .. Len(w) : w[i].type = "event"
    /\ \A i, j \in 1 .. Len(w) : i < j /\ w[i].type = "event" => w[j].type = "event"

PageOK(p) == Below(p.state, p.cursor) /\ Below(p.chat \o p.pending, p.cursor)
WireOK(p, w, last) == LiveComesLast(p, w) /\ \E q \in 0 .. last : Chain(w, p.cursor, q, Forward)

LogInv ==
    /\ Below(snapshot.state, snapshot.cursor) /\ snapshot.cursor <= lastId
    /\ Below(stored.state, stored.cursor) /\ stored.cursor <= lastId
PagesInv ==
    \A c \in Clients :
        /\ PageOK(page[c]) /\ WireOK(page[c], wire[c], lastId)
        /\ c \notin connected => wire[c] = <<>>

\* While everything is steady: the snapshot is the log, the row has whatever
\* the table has lost, and the frames on the way take a page to the end.
LogSteady ==
    /\ snapshot = Checkpoint(lastId, UpTo(lastId))
    /\ stored = Checkpoint(stored.cursor, UpTo(stored.cursor))
    /\ pruned <= stored.cursor
    /\ dirty \/ stored = snapshot
PagesSteady ==
    /\ PagesShowThePrefix
    /\ \A c \in connected : Chain(wire[c], page[c].cursor, lastId, Gapless)

Inv == TypeOK /\ LogInv /\ PagesInv /\ (steady => LogSteady /\ PagesSteady)
-----------------------------------------------------------------------------
(* Sequences of ids *)

LEMMA Concatenated ==
    ASSUME NEW s \in Seq(Nat), NEW t \in Seq(Nat)
    PROVE  /\ s \o t \in Seq(Nat) /\ Len(s \o t) = Len(s) + Len(t)
           /\ \A i \in 1 .. Len(s) : (s \o t)[i] = s[i]
           /\ \A i \in Len(s) + 1 .. Len(s) + Len(t) : (s \o t)[i] = t[i - Len(s)]
BY ConcatProperties

LEMMA ConcatenatedTwice ==
    ASSUME NEW s \in Seq(Nat), NEW t \in Seq(Nat), NEW u \in Seq(Nat)
    PROVE  (s \o t) \o u = s \o (t \o u)
BY SMTT(30), ConcatAssociative

LEMMA IdsTyped ==
    ASSUME NEW m \in Nat, NEW n \in Nat, m <= n
    PROVE  /\ Ids(m, n) \in Seq(Nat) /\ Len(Ids(m, n)) = n - m
           /\ \A i \in 1 .. n - m : Ids(m, n)[i] = m + i
<1>1. n - m \in Nat /\ \A i \in 1 .. n - m : m + i \in Nat
  OBVIOUS
<1>2. Ids(m, n) \in [1 .. n - m -> Nat]
  BY <1>1 DEF Ids
<1> QED
  BY <1>1, <1>2 DEF Ids

\* The rows between two cursors take a page from one to the other.
LEMMA IdsAscend ==
    ASSUME NEW m \in Nat, NEW n \in Nat, m <= n
    PROVE  Ascends(Ids(m, n), m, n)
<1>0. /\ Len(Ids(m, n)) = n - m /\ n - m \in Nat
      /\ \A i \in 1 .. n - m : Ids(m, n)[i] = m + i
  BY IdsTyped
<1>1. /\ Increasing(Ids(m, n))
      /\ \A i \in 1 .. Len(Ids(m, n)) : m < Ids(m, n)[i] /\ Ids(m, n)[i] <= n
  <2>1. ASSUME NEW i \in 1 .. n - m
        PROVE  m < Ids(m, n)[i] /\ Ids(m, n)[i] <= n
    <3>1. Ids(m, n)[i] = m + i
      BY <1>0
    <3> QED
      BY <3>1
  <2>2. ASSUME NEW i \in 1 .. n - m - 1
        PROVE  Ids(m, n)[i] < Ids(m, n)[i + 1]
    <3>1. i \in 1 .. n - m /\ i + 1 \in 1 .. n - m
      OBVIOUS
    <3>2. Ids(m, n)[i] = m + i /\ Ids(m, n)[i + 1] = m + (i + 1)
      BY <1>0, <3>1
    <3> QED
      BY <3>2
  <2> QED
    BY <1>0, <2>1, <2>2 DEF Increasing
<1>2. n = LastOf(Ids(m, n), m)
  <2>1. CASE m = n
    BY <2>1, IdsTyped, EmptySeq DEF LastOf
  <2>2. CASE m < n
    <3>1. Ids(m, n) # <<>>
      BY <2>2, IdsTyped, EmptySeq
    <3>2. n - m \in 1 .. n - m
      BY <2>2
    <3>3. Ids(m, n)[n - m] = m + (n - m)
      BY <1>0, <3>2
    <3> QED
      BY <1>0, <3>1, <3>3 DEF LastOf
  <2> QED
    BY <2>1, <2>2
<1> QED
  BY <1>1, <1>2 DEF Ascends

LEMMA PrefixIsBelow ==
    ASSUME NEW n \in Nat
    PROVE  UpTo(n) \in Seq(Nat) /\ Below(UpTo(n), n)
<1>1. /\ UpTo(n) = Ids(0, n) /\ Ids(0, n) \in Seq(Nat) /\ Ascends(Ids(0, n), 0, n)
  BY IdsTyped, IdsAscend DEF UpTo
<1> QED
  BY <1>1 DEF Below, Ascends

\* A projection and the rows after it are the projection of a later cursor.
LEMMA PrefixExtends ==
    ASSUME NEW m \in Nat, NEW n \in Nat, m <= n
    PROVE  UpTo(m) \o Ids(m, n) = UpTo(n)
<1>1. UpTo(m) \in Seq(Nat) /\ Len(UpTo(m)) = m /\ \A i \in 1 .. m : UpTo(m)[i] = i
  BY IdsTyped DEF UpTo
<1>2. UpTo(n) \in Seq(Nat) /\ Len(UpTo(n)) = n /\ \A i \in 1 .. n : UpTo(n)[i] = i
  BY IdsTyped DEF UpTo
<1>3. Ids(m, n) \in Seq(Nat) /\ Len(Ids(m, n)) = n - m
      /\ \A i \in 1 .. n - m : Ids(m, n)[i] = m + i
  BY IdsTyped
<1> DEFINE s == UpTo(m) \o Ids(m, n)
<1>4. /\ s \in Seq(Nat) /\ Len(s) = m + (n - m)
      /\ \A i \in 1 .. m : s[i] = UpTo(m)[i]
      /\ \A i \in m + 1 .. m + (n - m) : s[i] = Ids(m, n)[i - m]
  <2>1. /\ s \in Seq(Nat) /\ Len(s) = Len(UpTo(m)) + Len(Ids(m, n))
        /\ \A i \in 1 .. Len(UpTo(m)) : s[i] = UpTo(m)[i]
        /\ \A i \in Len(UpTo(m)) + 1 .. Len(UpTo(m)) + Len(Ids(m, n)) :
              s[i] = Ids(m, n)[i - Len(UpTo(m))]
    <3>1. UpTo(m) \in Seq(Nat) /\ Ids(m, n) \in Seq(Nat)
      BY <1>1, <1>3
    <3> QED
      BY <3>1, Concatenated
  <2> HIDE DEF s
  <2> QED
    BY <1>1, <1>3, <2>1
<1> HIDE DEF s
<1>5. ASSUME NEW i \in 1 .. n
      PROVE  s[i] = i
  <2>1. CASE i \in 1 .. m
    BY <1>1, <1>4, <2>1
  <2>2. CASE i \in m + 1 .. n
    <3>1. i - m \in 1 .. n - m /\ i \in m + 1 .. m + (n - m)
      BY <2>2
    <3>2. Ids(m, n)[i - m] = m + (i - m) /\ s[i] = Ids(m, n)[i - m]
      BY <1>3, <1>4, <3>1
    <3> QED
      BY <3>2
  <2> QED
    BY <2>1, <2>2
<1>6. s = UpTo(n)
  <2>1. Len(s) = Len(UpTo(n))
    BY <1>2, <1>4
  <2> QED
    BY <1>2, <1>4, <1>5, <2>1, SeqEqual
<1> QED
  BY <1>6 DEF s

LEMMA OneMore ==
    ASSUME NEW n \in Nat
    PROVE  Ids(n, n + 1) = <<n + 1>>
<1>0. n + 1 \in Nat /\ n <= n + 1 /\ (n + 1) - n = 1 /\ 1 \in 1 .. 1
  OBVIOUS
<1>1. Ids(n, n + 1) \in Seq(Nat) /\ Len(Ids(n, n + 1)) = 1 /\ Ids(n, n + 1)[1] = n + 1
  BY <1>0, IdsTyped
<1> QED
  BY <1>1, SeqEqual

LEMMA OneIdAscends ==
    ASSUME NEW last \in Nat, NEW m \in 0 .. last
    PROVE  Ascends(<<last + 1>>, m, last + 1)
<1>1. Len(<<last + 1>>) = 1 /\ <<last + 1>>[1] = last + 1 /\ <<last + 1>> # <<>>
  OBVIOUS
<1>2. Increasing(<<last + 1>>)
  BY <1>1 DEF Increasing
<1>3. LastOf(<<last + 1>>, m) = last + 1
  BY <1>1 DEF LastOf
<1>4. \A i \in 1 .. Len(<<last + 1>>) : m < <<last + 1>>[i] /\ <<last + 1>>[i] <= last + 1
  BY <1>1
<1> QED
  BY <1>2, <1>3, <1>4 DEF Ascends

\* What a frame adds to a projection keeps it in order.
LEMMA OrderIsKept ==
    ASSUME NEW s \in Seq(Nat), NEW t \in Seq(Nat), NEW m \in Nat, NEW n \in Nat, m <= n,
           Below(s, m), Ascends(t, m, n)
    PROVE  s \o t \in Seq(Nat) /\ Below(s \o t, n)
<1> DEFINE u == s \o t
<1>1. /\ u \in Seq(Nat) /\ Len(u) = Len(s) + Len(t)
      /\ \A i \in 1 .. Len(s) : u[i] = s[i]
      /\ \A i \in Len(s) + 1 .. Len(s) + Len(t) : u[i] = t[i - Len(s)]
  BY ConcatProperties
<1>2. Len(s) \in Nat /\ Len(t) \in Nat /\ s \in [1 .. Len(s) -> Nat] /\ t \in [1 .. Len(t) -> Nat]
  BY LenProperties
<1>3. ASSUME NEW i \in 1 .. Len(u)
      PROVE  u[i] <= n
  <2>1. CASE i \in 1 .. Len(s)
    BY <1>1, <1>2, <2>1 DEF Below
  <2>2. CASE i > Len(s)
    <3>1. i - Len(s) \in 1 .. Len(t)
      BY <1>1, <1>2, <2>2
    <3> QED
      BY <1>1, <1>2, <2>2, <3>1 DEF Ascends
  <2> QED
    BY <1>2, <2>1, <2>2
<1>4. ASSUME NEW i \in 1 .. Len(u) - 1
      PROVE  u[i] < u[i + 1]
  <2>1. CASE i + 1 \in 1 .. Len(s)
    BY <1>1, <1>2, <2>1 DEF Below, Increasing
  <2>2. CASE i = Len(s)
    <3>1. u[i] = s[i] /\ u[i + 1] = t[1] /\ 1 \in 1 .. Len(t) /\ i \in 1 .. Len(s)
      BY <1>1, <1>2, <2>2
    <3>2. s[i] <= m /\ m < t[1] /\ s[i] \in Nat /\ t[1] \in Nat
      BY <1>2, <3>1 DEF Below, Ascends
    <3> QED
      BY <3>1, <3>2
  <2>3. CASE i > Len(s)
    <3>1. i - Len(s) \in 1 .. Len(t) - 1
      BY <1>1, <1>2, <2>3
    <3>2. u[i] = t[i - Len(s)] /\ u[i + 1] = t[(i - Len(s)) + 1]
      BY <1>1, <1>2, <2>3
    <3> QED
      BY <3>1, <3>2 DEF Ascends, Increasing
  <2>4. i + 1 \in 1 .. Len(s) \/ i = Len(s) \/ i > Len(s)
    <3>1. Len(u) \in Nat /\ Len(s) \in Nat
      BY <1>1, <1>2
    <3> HIDE DEF u
    <3> QED
      BY <3>1
  <2> HIDE DEF u
  <2> QED
    BY <2>1, <2>2, <2>3, <2>4
<1> QED
  BY <1>1, <1>3, <1>4 DEF Below, Increasing

-----------------------------------------------------------------------------
(* Chains of frames *)

LEMMA NoFrames ==
    ASSUME NEW p \in Nat, NEW R
    PROVE  Chain(<<>>, p, p, R)
<1> DEFINE b == [i \in 0 .. 0 |-> p]
<1>0. Len(<<>>) = 0
  BY EmptySeq
<1>1. b \in [0 .. Len(<<>>) -> 0 .. p] /\ b[0] = p /\ b[Len(<<>>)] = p
  BY <1>0
<1>2. \A i \in 1 .. Len(<<>>) : FALSE
  BY <1>0
<1> HIDE DEF b
<1> QED
  BY <1>1, <1>2 DEF Chain

\* A frame is put behind the others.
LEMMA OneMoreFrame ==
    ASSUME NEW w \in Seq(Frames), NEW f \in Frames,
           NEW p \in Nat, NEW q \in Nat, NEW r \in Nat, q <= r,
           NEW R, Chain(w, p, q, R), <<f, q, r>> \in R
    PROVE  Chain(Append(w, f), p, r, R)
<1>1. PICK b \in [0 .. Len(w) -> 0 .. q] :
        /\ b[0] = p /\ b[Len(w)] = q
        /\ \A i \in 1 .. Len(w) : <<w[i], b[i - 1], b[i]>> \in R
  BY DEF Chain
<1> DEFINE x == Append(w, f)
           d == [i \in 0 .. Len(w) + 1 |-> IF i = Len(w) + 1 THEN r ELSE b[i]]
<1>2. Len(w) \in Nat /\ Len(x) = Len(w) + 1 /\ x[Len(w) + 1] = f
      /\ \A i \in 1 .. Len(w) : x[i] = w[i]
  BY AppendProperties, LenProperties
<1>3. d \in [0 .. Len(x) -> 0 .. r]
  BY <1>1, <1>2
<1>4. d[0] = p /\ d[Len(x)] = r
  BY <1>1, <1>2
<1>5. ASSUME NEW i \in 1 .. Len(x)
      PROVE  <<x[i], d[i - 1], d[i]>> \in R
  <2>1. CASE i \in 1 .. Len(w)
    <3>1. x[i] = w[i] /\ d[i - 1] = b[i - 1] /\ d[i] = b[i]
      BY <1>2, <2>1
    <3> QED
      BY <1>1, <2>1, <3>1
  <2>2. CASE i = Len(w) + 1
    <3>1. x[i] = f /\ d[i - 1] = q /\ d[i] = r
      BY <1>1, <1>2, <2>2
    <3> QED
      BY <3>1
  <2>3. i \in 1 .. Len(w) \/ i = Len(w) + 1
    BY <1>2
  <2> QED
    BY <2>1, <2>2, <2>3
<1> HIDE DEF x, d
<1>6. Chain(x, p, r, R)
  BY <1>3, <1>4, <1>5 DEF Chain
<1> QED
  BY <1>6 DEF x

LEMMA FirstFrame ==
    ASSUME NEW f \in Frames, NEW p \in Nat, NEW r \in Nat, p <= r, NEW R, <<f, p, r>> \in R
    PROVE  Chain(Append(<<>>, f), p, r, R)
<1>1. <<>> \in Seq(Frames) /\ Chain(<<>>, p, p, R)
  BY NoFrames, EmptySeq
<1> QED
  BY <1>1, OneMoreFrame

\* The first frame arrives.
LEMMA OneFrameLess ==
    ASSUME NEW w \in Seq(Frames), w # <<>>, NEW p \in Nat, NEW q \in Nat,
           NEW R, Chain(w, p, q, R)
    PROVE  \E r \in 0 .. q : <<Head(w), p, r>> \in R /\ Chain(Tail(w), r, q, R)
<1>1. PICK b \in [0 .. Len(w) -> 0 .. q] :
        /\ b[0] = p /\ b[Len(w)] = q
        /\ \A i \in 1 .. Len(w) : <<w[i], b[i - 1], b[i]>> \in R
  BY DEF Chain
<1> DEFINE x == Tail(w)
           d == [i \in 0 .. Len(w) - 1 |-> b[i + 1]]
<1>2. Len(w) \in Nat \ {0} /\ Len(x) = Len(w) - 1 /\ Head(w) = w[1]
      /\ \A i \in 1 .. Len(w) - 1 : x[i] = w[i + 1]
  BY HeadTailProperties, EmptySeq, LenProperties
<1>3. d \in [0 .. Len(x) -> 0 .. q] /\ d[0] = b[1] /\ d[Len(x)] = q /\ b[1] \in 0 .. q
  BY <1>1, <1>2
<1>4. ASSUME NEW i \in 1 .. Len(x)
      PROVE  <<x[i], d[i - 1], d[i]>> \in R
  <2>1. i + 1 \in 1 .. Len(w) /\ x[i] = w[i + 1] /\ d[i - 1] = b[(i + 1) - 1] /\ d[i] = b[i + 1]
    BY <1>2
  <2> QED
    BY <1>1, <2>1
<1>5. <<Head(w), p, b[1]>> \in R
  BY <1>1, <1>2
<1>6. Chain(x, b[1], q, R)
  BY <1>3, <1>4 DEF Chain
<1> QED
  BY <1>3, <1>5, <1>6
-----------------------------------------------------------------------------
(* The page *)

\* Where a frame leaves the cursor of a page is settled by its ids.
LEMMA FrameApplied ==
    ASSUME NEW p \in Pages, PageOK(p), NEW f \in Frames, NEW r \in Nat, Moves(f, p.cursor, r),
           f.type = "replay_batch" => p.pending = <<>>
    PROVE  /\ Applied(p, f) \in Pages /\ PageOK(Applied(p, f))
           /\ Applied(p, f).cursor = r /\ p.cursor <= r
           /\ f.type # "event" => Applied(p, f).pending = <<>>
<1>0. /\ p.cursor \in Nat /\ p.state \in Seq(Nat) /\ p.chat \in Seq(Nat) /\ p.pending \in Seq(Nat)
      /\ f.ids \in Seq(Nat) /\ f.type \in {"snapshot", "replay_batch", "event"} /\ p.cursor <= r
  BY DEF Pages, Frames, Moves
<1>1. CASE f.type = "snapshot"
  <2>1. Applied(p, f) = SnapshotApplied(p, f) /\ f.cursor = r /\ Below(f.ids, r)
    BY <1>1 DEF Applied, Moves
  <2>2. f.ids \o <<>> = f.ids
    BY <1>0, ConcatEmptySeq
  <2> QED
    BY <1>0, <1>1, <2>1, <2>2 DEF SnapshotApplied, Pages, PageOK
<1>2. CASE f.type = "replay_batch"
  <2>1. Applied(p, f) = BatchApplied(p, f) /\ Ascends(f.ids, p.cursor, r) /\ p.pending = <<>>
    BY <1>2 DEF Applied, Moves
  <2>2. p.chat \o p.pending = p.chat /\ (p.chat \o f.ids) \o <<>> = p.chat \o f.ids
    BY <1>0, <2>1, ConcatEmptySeq, ConcatProperties
  <2>3. /\ p.state \o f.ids \in Seq(Nat) /\ Below(p.state \o f.ids, r)
        /\ p.chat \o f.ids \in Seq(Nat) /\ Below(p.chat \o f.ids, r)
    BY <1>0, <2>1, <2>2, OrderIsKept DEF PageOK
  <2>4. LastOf(f.ids, p.cursor) = r
    BY <2>1 DEF Ascends
  <2>5. Applied(p, f) = [cursor |-> r, state |-> p.state \o f.ids, chat |-> p.chat \o f.ids,
                         pending |-> <<>>]
    BY <2>1, <2>4 DEF BatchApplied, Pages
  <2> QED
    BY <1>0, <1>2, <2>2, <2>3, <2>5 DEF Pages, PageOK
<1>3. CASE f.type = "event"
  <2>1. Applied(p, f) = EventApplied(p, f) /\ Ascends(f.ids, p.cursor, r) /\ Len(f.ids) = 1
    BY <1>3 DEF Applied, Moves
  <2>2. p.chat \o p.pending \in Seq(Nat) /\ Below(p.chat \o p.pending, p.cursor)
        /\ (p.chat \o p.pending) \o f.ids = p.chat \o (p.pending \o f.ids)
        /\ p.pending \o f.ids \in Seq(Nat)
    <3>1. Below(p.chat \o p.pending, p.cursor)
      BY DEF PageOK
    <3>2. p.chat \o p.pending \in Seq(Nat) /\ p.pending \o f.ids \in Seq(Nat)
      BY <1>0, ConcatProperties
    <3>3. (p.chat \o p.pending) \o f.ids = p.chat \o (p.pending \o f.ids)
      BY <1>0, ConcatenatedTwice
    <3> QED
      BY <3>1, <3>2, <3>3
  <2>3. p.state \o f.ids \in Seq(Nat) /\ Below(p.state \o f.ids, r)
    BY <1>0, <2>1, OrderIsKept DEF PageOK
  <2>4. Below(p.chat \o (p.pending \o f.ids), r)
    BY <1>0, <2>1, <2>2, OrderIsKept
  <2>5. f.ids[1] = r
    BY <2>1, EmptySeq DEF Ascends, LastOf
  <2>6. Applied(p, f) = [cursor |-> r, state |-> p.state \o f.ids, chat |-> p.chat,
                         pending |-> p.pending \o f.ids]
    BY <2>1, <2>5 DEF EventApplied, Pages
  <2> QED
    BY <1>0, <1>3, <2>2, <2>3, <2>4, <2>6 DEF Pages, PageOK
<1> QED
  BY <1>0, <1>1, <1>2, <1>3

\* A frame that leaves nothing out keeps a page that leaves nothing out.
LEMMA FrameAppliedExactly ==
    ASSUME NEW p \in Pages, p.state = UpTo(p.cursor), NEW f \in Frames, NEW r \in Nat,
           MovesExactly(f, p.cursor, r)
    PROVE  Applied(p, f).state = UpTo(r) /\ Applied(p, f).cursor = r
<1>0. /\ p.cursor \in Nat /\ f.type \in {"snapshot", "replay_batch", "event"} /\ p.cursor <= r
      /\ f.ids \in Seq(Nat)
  BY DEF Pages, Frames, Moves, MovesExactly
<1>1. CASE f.type = "snapshot"
  BY <1>1 DEF Applied, SnapshotApplied, MovesExactly, Moves
<1>2. CASE f.type # "snapshot"
  <2>1. f.ids = Ids(p.cursor, r) /\ r = LastOf(f.ids, p.cursor)
        /\ (f.type = "event" => Len(f.ids) = 1)
    BY <1>2 DEF MovesExactly, Moves, Ascends
  <2>2. f.type = "event" => f.ids[1] = r
    BY <2>1, <1>0, EmptySeq DEF LastOf
  <2>3. p.state \o f.ids = UpTo(r)
    BY <1>0, <2>1, PrefixExtends
  <2>4. Applied(p, f) = IF f.type = "event" THEN EventApplied(p, f) ELSE BatchApplied(p, f)
    BY <1>0, <1>2 DEF Applied
  <2> QED
    BY <2>1, <2>2, <2>3, <2>4 DEF EventApplied, BatchApplied, Pages
<1> QED
  BY <1>1, <1>2

\* The first frame on the way arrives.
LEMMA FrameArrives ==
    ASSUME NEW p \in Pages, PageOK(p), NEW w \in Seq(Frames), w # <<>>,
           NEW last \in Nat, WireOK(p, w, last)
    PROVE  LET q == Applied(p, Head(w))
           IN  /\ q \in Pages /\ PageOK(q) /\ WireOK(q, Tail(w), last)
               /\ p.cursor <= q.cursor
<1>1. p.cursor \in Nat
  BY DEF Pages
<1>2. PICK end \in 0 .. last : Chain(w, p.cursor, end, Forward)
  BY DEF WireOK
<1>3. PICK r \in 0 .. end : <<Head(w), p.cursor, r>> \in Forward /\ Chain(Tail(w), r, end, Forward)
  BY <1>1, <1>2, OneFrameLess
<1>4. Head(w) \in Frames /\ Moves(Head(w), p.cursor, r)
  BY <1>3 DEF Forward
<1>5. /\ Len(w) \in Nat \ {0} /\ Head(w) = w[1] /\ Len(Tail(w)) = Len(w) - 1
      /\ \A i \in 1 .. Len(w) - 1 : Tail(w)[i] = w[i + 1]
  BY HeadTailProperties, EmptySeq, LenProperties
<1>6. Head(w).type = "replay_batch" => p.pending = <<>>
  BY <1>5 DEF WireOK, LiveComesLast
<1> DEFINE q == Applied(p, Head(w))
<1>7. /\ q \in Pages /\ PageOK(q) /\ q.cursor = r /\ p.cursor <= r
      /\ Head(w).type # "event" => q.pending = <<>>
  BY <1>4, <1>6, FrameApplied
<1>8. LiveComesLast(q, Tail(w))
  <2>1. \A i \in 1 .. Len(w) - 1 : i + 1 \in 1 .. Len(w) /\ 1 < i + 1
    BY <1>5
  <2>2. q.pending # <<>> => \A i \in 1 .. Len(Tail(w)) : Tail(w)[i].type = "event"
    <3>1. q.pending # <<>> => w[1].type = "event"
      BY <1>5, <1>7
    <3>2. w[1].type = "event" => \A j \in 1 .. Len(w) : 1 < j => w[j].type = "event"
      BY <1>5 DEF WireOK, LiveComesLast
    <3> QED
      BY <1>5, <2>1, <3>1, <3>2
  <2>3. ASSUME NEW i \in 1 .. Len(Tail(w)), NEW j \in 1 .. Len(Tail(w)), i < j,
               Tail(w)[i].type = "event"
        PROVE  Tail(w)[j].type = "event"
    <3>1. i + 1 \in 1 .. Len(w) /\ j + 1 \in 1 .. Len(w) /\ i + 1 < j + 1
          /\ Tail(w)[i] = w[i + 1] /\ Tail(w)[j] = w[j + 1]
      BY <1>5, <2>3
    <3> QED
      BY <2>3, <3>1 DEF WireOK, LiveComesLast
  <2> QED
    BY <2>2, <2>3 DEF LiveComesLast
<1> QED
  BY <1>2, <1>3, <1>7, <1>8 DEF WireOK

LEMMA FrameArrivesExactly ==
    ASSUME NEW p \in Pages, p.state = UpTo(p.cursor), NEW w \in Seq(Frames), w # <<>>,
           NEW last \in Nat, Chain(w, p.cursor, last, Gapless)
    PROVE  LET q == Applied(p, Head(w))
           IN  q.state = UpTo(q.cursor) /\ Chain(Tail(w), q.cursor, last, Gapless)
<1>1. p.cursor \in Nat
  BY DEF Pages
<1>2. PICK r \in 0 .. last : <<Head(w), p.cursor, r>> \in Gapless /\ Chain(Tail(w), r, last, Gapless)
  BY <1>1, OneFrameLess
<1>3. Head(w) \in Frames /\ MovesExactly(Head(w), p.cursor, r)
  BY <1>2 DEF Gapless
<1>4. Applied(p, Head(w)).state = UpTo(r) /\ Applied(p, Head(w)).cursor = r
  BY <1>3, FrameAppliedExactly
<1> QED
  BY <1>2, <1>4
-----------------------------------------------------------------------------
(* What the Durable Object sends *)

EventFrame(id) == [type |-> "event", ids |-> <<id>>]

\* The next event goes out behind what is on the way.
LEMMA EventIsSent ==
    ASSUME NEW p \in Pages, NEW w \in Seq(Frames), NEW last \in Nat
    PROVE  LET v == Append(w, EventFrame(last + 1))
           IN  /\ v \in Seq(Frames)
               /\ WireOK(p, w, last) => WireOK(p, v, last + 1)
               /\ Chain(w, p.cursor, last, Gapless) => Chain(v, p.cursor, last + 1, Gapless)
<1> DEFINE f == EventFrame(last + 1)
           v == Append(w, f)
<1>1. f \in Frames /\ f.type = "event" /\ f.ids = <<last + 1>> /\ p.cursor \in Nat
  BY DEF EventFrame, Frames, Pages
<1>2. /\ v \in Seq(Frames) /\ Len(w) \in Nat /\ Len(v) = Len(w) + 1 /\ v[Len(w) + 1] = f
      /\ \A i \in 1 .. Len(w) : v[i] = w[i]
  BY <1>1, AppendProperties, LenProperties
<1>3. \A i \in 1 .. Len(v) : i \in 1 .. Len(w) \/ v[i].type = "event"
  BY <1>1, <1>2
<1>4. ASSUME LiveComesLast(p, w)
      PROVE  LiveComesLast(p, v)
  <2>1. ASSUME NEW i \in 1 .. Len(v), NEW j \in 1 .. Len(v), i < j, v[i].type = "event"
        PROVE  v[j].type = "event"
    <3>1. CASE j = Len(w) + 1
      BY <1>1, <1>2, <3>1
    <3>2. CASE j \in 1 .. Len(w)
      <4>1. i \in 1 .. Len(w) /\ v[i] = w[i] /\ v[j] = w[j]
        BY <1>2, <2>1, <3>2
      <4> QED
        BY <1>4, <2>1, <3>2, <4>1 DEF LiveComesLast
    <3> QED
      BY <1>2, <3>1, <3>2
  <2>2. p.pending # <<>> => \A i \in 1 .. Len(v) : v[i].type = "event"
    BY <1>2, <1>3, <1>4 DEF LiveComesLast
  <2> QED
    BY <2>1, <2>2 DEF LiveComesLast
<1>5. ASSUME NEW end \in 0 .. last
      PROVE  <<f, end, last + 1>> \in Forward
  <2>1. Ascends(<<last + 1>>, end, last + 1)
    BY OneIdAscends
  <2>2. Moves(f, end, last + 1)
    BY <1>1, <2>1 DEF Moves
  <2> QED
    BY <1>1, <2>2 DEF Forward
<1>6. <<f, last, last + 1>> \in Gapless
  <2>1. last \in 0 .. last /\ last + 1 \in Nat
    OBVIOUS
  <2>2. Moves(f, last, last + 1)
    BY <1>5, <2>1 DEF Forward
  <2>3. Ids(last, last + 1) = <<last + 1>>
    BY OneMore
  <2>4. MovesExactly(f, last, last + 1)
    BY <1>1, <2>2, <2>3 DEF MovesExactly
  <2> QED
    BY <1>1, <2>1, <2>4 DEF Gapless
<1>7. ASSUME WireOK(p, w, last)
      PROVE  WireOK(p, v, last + 1)
  <2>1. PICK end \in 0 .. last : Chain(w, p.cursor, end, Forward)
    BY <1>7 DEF WireOK
  <2>2. end \in Nat /\ last + 1 \in Nat /\ end <= last + 1 /\ <<f, end, last + 1>> \in Forward
    BY <1>5
  <2>3. Chain(v, p.cursor, last + 1, Forward)
    BY <1>1, <2>1, <2>2, OneMoreFrame
  <2> QED
    BY <1>4, <1>7, <2>3 DEF WireOK
<1>8. ASSUME Chain(w, p.cursor, last, Gapless)
      PROVE  Chain(v, p.cursor, last + 1, Gapless)
  BY <1>1, <1>6, <1>8, OneMoreFrame
<1> QED
  BY <1>2, <1>7, <1>8

\* appendAndBroadcast takes the log one event further.
LEMMA LogGrows ==
    ASSUME TypeOK, LogInv, NEW t, NEW w, NEW to, AppendAndBroadcast(t, w, to)
    PROVE  /\ lastId' = lastId + 1 /\ pruned' = pruned /\ lastId' \in Nat /\ pruned' \in 0 .. lastId'
           /\ snapshot' = Checkpoint(lastId', Append(snapshot.state, lastId'))
           /\ snapshot' \in Checkpoints /\ stored' \in Checkpoints
           /\ fits' \in BOOLEAN /\ dirty' \in BOOLEAN /\ tail' \in Nat
           /\ \/ stored' = snapshot'
              \/ stored' = stored /\ dirty' = TRUE
           /\ LogInv'
<1> DEFINE id == lastId + 1
           s  == Append(snapshot.state, id)
<1>1. /\ lastId \in Nat /\ snapshot.state \in Seq(Nat) /\ snapshot.cursor \in Nat
      /\ stored \in Checkpoints /\ tail \in Nat /\ pruned \in 0 .. lastId /\ stored.cursor \in Nat
  BY DEF TypeOK, Checkpoints
<1>2. lastId' = id /\ pruned' = pruned /\ fits' \in BOOLEAN /\ snapshot' = Checkpoint(id, s)
  BY DEF AppendAndBroadcast, Prepared
<1>3. \/ stored' = snapshot' /\ tail' = 0 /\ dirty' = FALSE
      \/ stored' = stored /\ tail' = tail + 1 /\ dirty' = TRUE
  BY DEF AppendAndBroadcast, Persist
<1>4. s \in Seq(Nat) /\ Below(s, id)
  <2>1. Ascends(<<id>>, snapshot.cursor, id) /\ Below(snapshot.state, snapshot.cursor)
        /\ snapshot.cursor <= id /\ id \in Nat
    BY <1>1, OneIdAscends DEF LogInv
  <2>2. <<id>> \in Seq(Nat) /\ s = snapshot.state \o <<id>>
    BY SMTT(30), <1>1, AppendIsConcat
  <2> QED
    BY <1>1, <2>1, <2>2, OrderIsKept
<1>5. snapshot' \in Checkpoints /\ Below(snapshot'.state, snapshot'.cursor) /\ snapshot'.cursor = id
  BY <1>1, <1>2, <1>4 DEF Checkpoint, Checkpoints
<1>6. LogInv'
  BY <1>1, <1>2, <1>3, <1>5 DEF LogInv
<1>7. pruned' \in 0 .. lastId' /\ lastId' \in Nat
  BY <1>1, <1>2
<1>8. stored' \in Checkpoints /\ tail' \in Nat
  BY <1>1, <1>3, <1>5
<1>10. dirty' \in BOOLEAN
  BY <1>3
<1>9. snapshot' = Checkpoint(lastId', Append(snapshot.state, lastId'))
  BY <1>2
<1> QED
  BY <1>2, <1>3, <1>5, <1>6, <1>7, <1>8, <1>9, <1>10, Zenon

\* ... and every wire one frame further, if its page is in the room.
LEMMA WiresGrow ==
    ASSUME TypeOK, NEW t, NEW w \in [Clients -> Seq(Frames)], NEW to \in SUBSET Clients,
           AppendAndBroadcast(t, w, to),
           \A c \in Clients : WireOK(page[c], w[c], lastId)
    PROVE  /\ wire' \in [Clients -> Seq(Frames)]
           /\ \A c \in Clients : WireOK(page[c], wire'[c], lastId')
           /\ \A c \in Clients \ to : wire'[c] = w[c]
           /\ \A c \in to : Chain(w[c], page[c].cursor, lastId, Gapless)
                               => Chain(wire'[c], page[c].cursor, lastId', Gapless)
<1>1. /\ lastId \in Nat /\ lastId' = lastId + 1
      /\ wire' = [c \in Clients |->
                    IF c \in to THEN Append(w[c], EventFrame(lastId + 1)) ELSE w[c]]
  BY DEF TypeOK, AppendAndBroadcast, EventFrame
<1>2. ASSUME NEW c \in Clients
      PROVE  /\ wire'[c] \in Seq(Frames) /\ WireOK(page[c], wire'[c], lastId')
             /\ c \notin to => wire'[c] = w[c]
             /\ c \in to /\ Chain(w[c], page[c].cursor, lastId, Gapless)
                  => Chain(wire'[c], page[c].cursor, lastId', Gapless)
  <2>1. page[c] \in Pages /\ w[c] \in Seq(Frames) /\ WireOK(page[c], w[c], lastId)
    BY DEF TypeOK
  <2>2. CASE c \in to
    <3>1. wire'[c] = Append(w[c], EventFrame(lastId + 1))
      BY <1>1, <2>2
    <3> QED
      BY <1>1, <2>1, <2>2, <3>1, EventIsSent
  <2>3. CASE c \notin to
    <3>1. wire'[c] = w[c]
      BY <1>1, <2>3
    <3>2. WireOK(page[c], w[c], lastId')
      <4>1. \A q \in 0 .. lastId : q \in 0 .. lastId'
        BY <1>1
      <4> QED
        BY <2>1, <4>1 DEF WireOK
    <3> QED
      BY <2>1, <2>3, <3>1, <3>2
  <2> QED
    BY <2>2, <2>3
<1>3. wire' \in [Clients -> Seq(Frames)]
  BY <1>1, <1>2
<1> QED
  BY <1>2, <1>3

\* What a page that joins is sent takes it forward, and to the end of the log
\* while everything is steady.
LEMMA WelcomeIsRight ==
    ASSUME TypeOK, LogInv, NEW p \in Pages, p.pending = <<>>, p.cursor <= lastId
    PROVE  /\ Welcome(p.cursor) \in Seq(Frames)
           /\ WireOK(p, Welcome(p.cursor), lastId)
           /\ LogSteady => Chain(Welcome(p.cursor), p.cursor, lastId, Gapless)
<1>1. /\ lastId \in Nat /\ p.cursor \in Nat /\ pruned \in 0 .. lastId
      /\ Offered \in Checkpoints /\ Offered.cursor \in Nat /\ Offered.state \in Seq(Nat)
      /\ Below(Offered.state, Offered.cursor) /\ Offered.cursor <= lastId
  BY DEF TypeOK, LogInv, Offered, Checkpoints, Pages
<1>2. ASSUME NEW n \in 0 .. lastId
      PROVE  \E r \in 0 .. lastId :
                /\ <<ReplayBatch(n), n, r>> \in Forward /\ n <= r
                /\ pruned <= n => r = lastId /\ <<ReplayBatch(n), n, r>> \in Gapless
  <2> DEFINE m == Later(pruned, n)
             r == LastOf(RowsAfter(n), n)
  <2>1. m \in Nat /\ m <= lastId /\ n <= m /\ (pruned <= n => m = n) /\ n \in Nat
    BY <1>1 DEF Later
  <2>2. RowsAfter(n) = Ids(m, lastId) /\ RowsAfter(n) \in Seq(Nat) /\ Len(RowsAfter(n)) = lastId - m
        /\ Ascends(RowsAfter(n), m, lastId)
    BY <1>1, <2>1, IdsTyped, IdsAscend DEF RowsAfter
  <2>3. r = IF m = lastId THEN n ELSE lastId
    BY <1>1, <2>1, <2>2, EmptySeq DEF Ascends, LastOf
  <2>4. Ascends(RowsAfter(n), n, r)
    BY <1>1, <2>1, <2>2, <2>3 DEF Ascends
  <2>5. r \in 0 .. lastId /\ n <= r
    BY <1>1, <2>1, <2>3
  <2>6. ReplayBatch(n) \in Frames /\ ReplayBatch(n).type = "replay_batch"
        /\ ReplayBatch(n).ids = RowsAfter(n)
    BY <2>2 DEF ReplayBatch, Frames
  <2>7. Moves(ReplayBatch(n), n, r)
    BY <2>4, <2>5, <2>6 DEF Moves
  <2>8. pruned <= n => r = lastId /\ MovesExactly(ReplayBatch(n), n, r)
    BY <1>1, <2>1, <2>2, <2>3, <2>6, <2>7 DEF MovesExactly
  <2> QED
    BY <2>1, <2>5, <2>6, <2>7, <2>8 DEF Forward, Gapless
<1>3. CASE p.cursor >= Offered.cursor
  <2>1. Welcome(p.cursor) = <<ReplayBatch(p.cursor)>>
        /\ <<ReplayBatch(p.cursor)>> = Append(<<>>, ReplayBatch(p.cursor))
    BY <1>3 DEF Welcome
  <2>2. PICK r \in 0 .. lastId :
          /\ <<ReplayBatch(p.cursor), p.cursor, r>> \in Forward /\ p.cursor <= r
          /\ pruned <= p.cursor => r = lastId /\ <<ReplayBatch(p.cursor), p.cursor, r>> \in Gapless
    BY <1>1, <1>2
  <2>3. ReplayBatch(p.cursor) \in Frames
    BY <2>2 DEF Forward
  <2>4. Chain(Append(<<>>, ReplayBatch(p.cursor)), p.cursor, r, Forward)
    BY <1>1, <2>2, <2>3, FirstFrame
  <2>5. LogSteady => pruned <= p.cursor
    BY <1>1, <1>3 DEF LogSteady, Offered, Checkpoints, Checkpoint, TypeOK
  <2>6. LogSteady => Chain(Append(<<>>, ReplayBatch(p.cursor)), p.cursor, lastId, Gapless)
    BY <1>1, <2>2, <2>3, <2>5, FirstFrame
  <2>7. LiveComesLast(p, <<ReplayBatch(p.cursor)>>)
    BY DEF LiveComesLast, ReplayBatch
  <2> QED
    BY <2>1, <2>3, <2>4, <2>6, <2>7 DEF WireOK
<1>4. CASE ~(p.cursor >= Offered.cursor)
  <2> DEFINE f == SnapshotFrame(Offered)
             g == ReplayBatch(Offered.cursor)
             w == Append(<<>>, f)
  <2>1. Welcome(p.cursor) = <<f, g>> /\ <<f, g>> = Append(w, g)
    BY <1>4 DEF Welcome
  <2>2. f \in Frames /\ Moves(f, p.cursor, Offered.cursor)
    BY <1>1, <1>4 DEF SnapshotFrame, Frames, Moves
  <2>3. <<f, p.cursor, Offered.cursor>> \in Forward
    BY <1>1, <2>2 DEF Forward
  <2>4. PICK r \in 0 .. lastId :
          /\ <<g, Offered.cursor, r>> \in Forward /\ Offered.cursor <= r
          /\ pruned <= Offered.cursor => r = lastId /\ <<g, Offered.cursor, r>> \in Gapless
    BY <1>1, <1>2
  <2>5. g \in Frames /\ w \in Seq(Frames) /\ p.cursor <= Offered.cursor
    BY <1>1, <1>4, <2>2, <2>4 DEF Forward
  <2>6. Chain(w, p.cursor, Offered.cursor, Forward)
    BY <1>1, <2>2, <2>3, <2>5, FirstFrame
  <2>7. Chain(Append(w, g), p.cursor, r, Forward)
    <3>1. r \in Nat /\ Offered.cursor <= r /\ <<g, Offered.cursor, r>> \in Forward
      BY <1>1, <2>4
    <3> HIDE DEF w, g
    <3> QED
      BY <1>1, <2>5, <2>6, <3>1, OneMoreFrame
  <2>8. ASSUME LogSteady
        PROVE  Chain(Append(w, g), p.cursor, lastId, Gapless)
    <3>1. pruned <= Offered.cursor /\ Offered.state = UpTo(Offered.cursor)
      BY <1>1, <2>8 DEF LogSteady, Offered, Checkpoint, Checkpoints, TypeOK
    <3>2. <<f, p.cursor, Offered.cursor>> \in Gapless
      BY <1>1, <2>2, <3>1 DEF Gapless, MovesExactly, SnapshotFrame
    <3>3. Chain(w, p.cursor, Offered.cursor, Gapless)
      BY <1>1, <2>2, <2>5, <3>2, FirstFrame
    <3> QED
      BY <1>1, <2>4, <2>5, <3>1, <3>3, OneMoreFrame
  <2>9. LiveComesLast(p, <<f, g>>)
    BY DEF LiveComesLast, SnapshotFrame, ReplayBatch
  <2>10. Append(w, g) \in Seq(Frames)
    BY <2>5, AppendProperties
  <2> HIDE DEF f, g, w
  <2> QED
    BY <2>1, <2>7, <2>8, <2>9, <2>10 DEF WireOK
<1> QED
  BY <1>3, <1>4
-----------------------------------------------------------------------------
(* The steps *)

\* What is cut off the end of a projection leaves it in order.
LEMMA BeginningIsBelow ==
    ASSUME NEW s \in Seq(Nat), NEW u \in Seq(Nat), NEW n \in Nat, Below(s \o u, n)
    PROVE  Below(s \o <<>>, n)
<1>1. s \o <<>> = s
  BY ConcatEmptySeq
<1>2. /\ Len(s) \in Nat /\ Len(u) \in Nat /\ Len(s \o u) = Len(s) + Len(u)
      /\ \A i \in 1 .. Len(s) : (s \o u)[i] = s[i]
  BY ConcatProperties, LenProperties
<1>3. \A i \in 1 .. Len(s) : i \in 1 .. Len(s \o u)
  BY <1>2
<1>4. \A i \in 1 .. Len(s) - 1 : i \in 1 .. Len(s \o u) - 1 /\ i \in 1 .. Len(s) /\ i + 1 \in 1 .. Len(s)
  BY <1>2
<1>5. \A i \in 1 .. Len(s) : s[i] <= n
  BY <1>2, <1>3 DEF Below
<1>6. \A i \in 1 .. Len(s) - 1 : s[i] < s[i + 1]
  BY <1>2, <1>4 DEF Below, Increasing
<1> QED
  BY <1>1, <1>5, <1>6 DEF Below, Increasing

\* The steady log stays steady when it grows.
LEMMA SteadyLogGrows ==
    ASSUME TypeOK, LogInv, LogSteady, NEW t, NEW w, NEW to, AppendAndBroadcast(t, w, to)
    PROVE  LogSteady'
<1>1. /\ lastId \in Nat /\ stored \in Checkpoints /\ snapshot \in Checkpoints
      /\ snapshot.state = UpTo(lastId) /\ pruned <= stored.cursor
      /\ stored.cursor \in Nat /\ stored.cursor <= lastId /\ pruned \in Nat
  BY DEF TypeOK, LogInv, LogSteady, Checkpoints, Checkpoint
<1>2. UpTo(lastId + 1) = Append(UpTo(lastId), lastId + 1)
  <2>1. lastId + 1 \in Nat /\ lastId <= lastId + 1
    BY <1>1
  <2>2. UpTo(lastId) \in Seq(Nat) /\ UpTo(lastId) \o Ids(lastId, lastId + 1) = UpTo(lastId + 1)
    BY <1>1, <2>1, PrefixIsBelow, PrefixExtends
  <2>3. Ids(lastId, lastId + 1) = <<lastId + 1>>
    BY <1>1, OneMore
  <2>4. Append(UpTo(lastId), lastId + 1) = UpTo(lastId) \o <<lastId + 1>>
    BY <2>1, <2>2, AppendIsConcat
  <2> QED
    BY <2>2, <2>3, <2>4
<1>3. /\ lastId' = lastId + 1 /\ pruned' = pruned
      /\ snapshot' = Checkpoint(lastId', UpTo(lastId'))
      /\ stored' = snapshot' \/ (stored' = stored /\ dirty' = TRUE)
  BY <1>1, <1>2, LogGrows
<1>4. CASE stored' = snapshot'
  BY <1>1, <1>3, <1>4 DEF LogSteady, Checkpoint
<1>5. CASE stored' = stored /\ dirty' = TRUE
  BY <1>1, <1>3, <1>5 DEF LogSteady, Checkpoint
<1> QED
  BY <1>3, <1>4, <1>5

\* A page that keeps its state and cursor, and its pending events or none.
Keeps(p, q) ==
    q \in Pages /\ q.cursor = p.cursor /\ q.state = p.state
    /\ (q = p \/ q = [p EXCEPT !.pending = <<>>])

LEMMA PageIsKept ==
    ASSUME NEW p \in Pages, NEW q, Keeps(p, q), PageOK(p), NEW w, NEW last
    PROVE  PageOK(q) /\ (WireOK(p, w, last) => WireOK(q, w, last))
<1>1. /\ p.state \in Seq(Nat) /\ p.chat \in Seq(Nat) /\ p.pending \in Seq(Nat) /\ p.cursor \in Nat
  BY DEF Pages
<1>2. PageOK(q)
  <2>1. CASE q = p
    BY <2>1
  <2>2. CASE q = [p EXCEPT !.pending = <<>>]
    <3>1. q.chat = p.chat /\ q.pending = <<>> /\ q.state = p.state /\ q.cursor = p.cursor
      BY <2>2 DEF Pages
    <3> QED
      BY <1>1, <3>1, BeginningIsBelow DEF PageOK
  <2> QED
    BY <2>1, <2>2 DEF Keeps
<1>3. q.cursor = p.cursor /\ (q.pending # <<>> => p.pending # <<>>)
  BY DEF Keeps, Pages
<1>4. LiveComesLast(p, w) => LiveComesLast(q, w)
  BY <1>3 DEF LiveComesLast
<1> QED
  BY <1>2, <1>3, <1>4 DEF WireOK

\* Whatever is reported, to the pages in `to`, which are then the ones in the
\* room.
LEMMA ReportsKeepInv ==
    ASSUME Inv, NEW t, NEW w \in [Clients -> Seq(Frames)], NEW to \in SUBSET Clients,
           AppendAndBroadcast(t, w, to), connected' = to,
           \A c \in Clients : WireOK(page[c], w[c], lastId),
           \A c \in Clients \ to : w[c] = <<>>,
           page' \in [Clients -> Pages], \A c \in Clients : Keeps(page[c], page'[c]),
           steady' \in BOOLEAN, steady' => steady,
           steady => \A c \in to : Chain(w[c], page[c].cursor, lastId, Gapless)
    PROVE  Inv'
<1>1. TypeOK /\ LogInv /\ PagesInv /\ (steady => LogSteady /\ PagesSteady)
  BY DEF Inv
<1>2. /\ lastId' = lastId + 1 /\ lastId' \in Nat /\ pruned' \in 0 .. lastId'
      /\ snapshot' \in Checkpoints /\ stored' \in Checkpoints
      /\ fits' \in BOOLEAN /\ dirty' \in BOOLEAN /\ tail' \in Nat /\ LogInv'
  BY <1>1, LogGrows
<1>3. /\ wire' \in [Clients -> Seq(Frames)]
      /\ \A c \in Clients : WireOK(page[c], wire'[c], lastId')
      /\ \A c \in Clients \ to : wire'[c] = w[c]
      /\ \A c \in to : Chain(w[c], page[c].cursor, lastId, Gapless)
                          => Chain(wire'[c], page[c].cursor, lastId', Gapless)
  BY <1>1, WiresGrow
<1>4. TypeOK'
  BY <1>2, <1>3 DEF TypeOK
<1>5. PagesInv'
  <2>1. ASSUME NEW c \in Clients
        PROVE  /\ PageOK(page'[c]) /\ WireOK(page'[c], wire'[c], lastId')
               /\ c \notin connected' => wire'[c] = <<>>
    <3>1. page[c] \in Pages /\ PageOK(page[c]) /\ Keeps(page[c], page'[c])
      BY <1>1 DEF TypeOK, PagesInv
    <3> QED
      BY <1>3, <3>1, PageIsKept
  <2> QED
    BY <2>1 DEF PagesInv
<1>6. ASSUME steady'
      PROVE  LogSteady' /\ PagesSteady'
  <2>1. LogSteady /\ PagesSteady
    BY <1>1, <1>6
  <2>2. LogSteady'
    BY <1>1, <2>1, SteadyLogGrows
  <2>3. PagesShowThePrefix'
    BY <2>1 DEF PagesSteady, PagesShowThePrefix, Keeps
  <2>4. \A c \in connected' : Chain(wire'[c], page'[c].cursor, lastId', Gapless)
    BY <1>3, <1>6 DEF Keeps
  <2> QED
    BY <2>2, <2>3, <2>4 DEF PagesSteady
<1> QED
  BY <1>2, <1>4, <1>5, <1>6 DEF Inv

LEMMA InitInv == MCInit => Inv
<1> SUFFICES ASSUME MCInit PROVE Inv
  OBVIOUS
<1>1. <<>> \in Seq(Nat) /\ <<>> \in Seq(Frames) /\ Nothing \in Checkpoints
      /\ Nothing.cursor = 0 /\ Nothing.state = <<>>
  BY DEF Nothing, Checkpoint, Checkpoints
<1>2. Below(<<>>, 0) /\ <<>> \o <<>> = <<>>
  BY <1>1, ConcatEmptySeq DEF Below, Increasing
<1>3. \A R : Chain(<<>>, 0, 0, R)
  BY NoFrames
<1>4. UpTo(0) = <<>>
  BY PrefixIsBelow, IdsTyped, EmptySeq DEF UpTo
<1>5. TypeOK
  <2>1. [cursor |-> 0, state |-> <<>>, chat |-> <<>>, pending |-> <<>>] \in Pages
    BY <1>1 DEF Pages
  <2>2. page \in [Clients -> Pages] /\ wire \in [Clients -> Seq(Frames)]
    BY <1>1, <2>1 DEF MCInit, Init
  <2>3. fits \in BOOLEAN /\ dirty \in BOOLEAN /\ steady \in BOOLEAN
    BY Zenon DEF MCInit, Init
  <2>4. /\ lastId = 0 /\ pruned \in 0 .. lastId /\ tail = 0 /\ connected \subseteq Clients
        /\ snapshot = Nothing /\ stored = Nothing
    BY DEF MCInit, Init
  <2> QED
    BY <1>1, <2>2, <2>3, <2>4 DEF TypeOK
<1>6. LogInv /\ LogSteady
  BY <1>1, <1>2, <1>4 DEF MCInit, Init, LogInv, LogSteady, Checkpoint, Nothing
<1>7. PagesInv
  <2>1. ASSUME NEW c \in Clients
        PROVE  PageOK(page[c]) /\ WireOK(page[c], wire[c], lastId) /\ wire[c] = <<>>
    <3>1. page[c] = [cursor |-> 0, state |-> <<>>, chat |-> <<>>, pending |-> <<>>] /\ wire[c] = <<>>
          /\ lastId = 0
      BY DEF MCInit, Init
    <3> QED
      BY <1>2, <1>3, <3>1 DEF PageOK, WireOK, LiveComesLast
  <2> QED
    BY <2>1 DEF PagesInv
<1>8. PagesSteady
  BY <1>4 DEF MCInit, Init, PagesSteady, PagesShowThePrefix
<1> QED
  BY <1>5, <1>6, <1>7, <1>8 DEF Inv

LEMMA ReportInv ==
    ASSUME Inv, Report, steady' = steady
    PROVE  Inv'
<1>1. PICK t \in BOOLEAN : AppendAndBroadcast(t, wire, connected)
  BY DEF Report
<1>2. UNCHANGED <<connected, page>>
  BY DEF Report
<1>3. \A c \in Clients : Keeps(page[c], page'[c])
  BY <1>2 DEF Inv, TypeOK, Keeps
<1>4. wire \in [Clients -> Seq(Frames)] /\ connected \in SUBSET Clients /\ page' \in [Clients -> Pages]
      /\ steady' \in BOOLEAN
  BY <1>2 DEF Inv, TypeOK
<1>5. \A c \in Clients : WireOK(page[c], wire[c], lastId) /\ (c \notin connected => wire[c] = <<>>)
  BY DEF Inv, PagesInv
<1>6. steady => \A c \in connected : Chain(wire[c], page[c].cursor, lastId, Gapless)
  BY DEF Inv, PagesSteady
<1> QED
  BY <1>1, <1>2, <1>3, <1>4, <1>5, <1>6, ReportsKeepInv

LEMMA JoinInv ==
    ASSUME Inv, NEW c \in Clients, Join(c), steady' = steady
    PROVE  Inv'
<1> DEFINE w  == [wire EXCEPT ![c] = Welcome(page[c].cursor)]
           to == connected \cup {c}
<1>1. /\ TypeOK /\ LogInv /\ PagesInv /\ (steady => LogSteady /\ PagesSteady)
      /\ wire \in [Clients -> Seq(Frames)] /\ connected \in SUBSET Clients /\ page[c] \in Pages
      /\ page \in [Clients -> Pages] /\ steady' \in BOOLEAN
  BY DEF Inv, TypeOK
<1>2. page[c].pending = <<>> /\ connected' = to /\ page' = page /\ AppendAndBroadcast(FALSE, w, to)
  BY DEF Join
<1>3. page[c].cursor <= lastId
  <2>1. PICK q \in 0 .. lastId : Chain(wire[c], page[c].cursor, q, Forward)
    BY <1>1 DEF PagesInv, WireOK
  <2>2. 0 \in 0 .. Len(wire[c])
    BY <1>1, LenProperties
  <2>3. page[c].cursor \in 0 .. q
    BY <2>1, <2>2 DEF Chain
  <2> QED
    BY <2>1, <2>3, <1>1 DEF TypeOK
<1>4. /\ Welcome(page[c].cursor) \in Seq(Frames)
      /\ WireOK(page[c], Welcome(page[c].cursor), lastId)
      /\ LogSteady => Chain(Welcome(page[c].cursor), page[c].cursor, lastId, Gapless)
  BY <1>1, <1>2, <1>3, WelcomeIsRight
<1>5. /\ w \in [Clients -> Seq(Frames)] /\ to \in SUBSET Clients
      /\ w[c] = Welcome(page[c].cursor) /\ \A d \in Clients \ {c} : w[d] = wire[d]
  BY <1>1, <1>4
<1>6. \A d \in Clients : WireOK(page[d], w[d], lastId)
  BY <1>1, <1>4, <1>5 DEF PagesInv
<1>7. \A d \in Clients \ to : w[d] = <<>>
  BY <1>1, <1>5 DEF PagesInv
<1>8. \A d \in Clients : Keeps(page[d], page'[d])
  BY <1>1, <1>2 DEF Keeps
<1>9. steady => \A d \in to : Chain(w[d], page[d].cursor, lastId, Gapless)
  BY <1>1, <1>4, <1>5 DEF PagesSteady
<1> HIDE DEF w, to
<1> QED
  BY <1>1, <1>2, <1>5, <1>6, <1>7, <1>8, <1>9, ReportsKeepInv

\* The socket of a page closes, and of the page nothing or the pending goes.
LEMMA PageIsGone ==
    ASSUME Inv, NEW c \in Clients, connected' = connected \ {c},
           AppendAndBroadcast(FALSE, [wire EXCEPT ![c] = <<>>], connected'),
           page' \in [Clients -> Pages], \A d \in Clients : Keeps(page[d], page'[d]),
           steady' \in BOOLEAN, steady' => steady
    PROVE  Inv'
<1> DEFINE w  == [wire EXCEPT ![c] = <<>>]
           to == connected \ {c}
<1>1. /\ TypeOK /\ LogInv /\ PagesInv /\ (steady => LogSteady /\ PagesSteady)
      /\ wire \in [Clients -> Seq(Frames)] /\ connected \in SUBSET Clients /\ page[c] \in Pages
      /\ connected' = to /\ AppendAndBroadcast(FALSE, w, to)
  BY DEF Inv, TypeOK
<1>2. page[c].cursor \in 0 .. lastId /\ page[c].cursor \in Nat
  <2>1. PICK q \in 0 .. lastId : Chain(wire[c], page[c].cursor, q, Forward)
    BY <1>1 DEF PagesInv, WireOK
  <2>2. 0 \in 0 .. Len(wire[c])
    BY <1>1, LenProperties
  <2>3. page[c].cursor \in 0 .. q
    BY <2>1, <2>2 DEF Chain
  <2> QED
    BY <1>1, <2>1, <2>3 DEF TypeOK
<1>3. /\ w \in [Clients -> Seq(Frames)] /\ to \in SUBSET Clients
      /\ w[c] = <<>> /\ \A d \in Clients \ {c} : w[d] = wire[d]
  BY <1>1
<1>4. WireOK(page[c], <<>>, lastId)
  <2>1. Chain(<<>>, page[c].cursor, page[c].cursor, Forward)
    BY <1>2, NoFrames
  <2>2. LiveComesLast(page[c], <<>>)
    BY DEF LiveComesLast
  <2> QED
    BY <1>2, <2>1, <2>2 DEF WireOK
<1>5. \A d \in Clients : WireOK(page[d], w[d], lastId)
  BY <1>1, <1>3, <1>4 DEF PagesInv
<1>6. \A d \in Clients \ to : w[d] = <<>>
  BY <1>1, <1>3 DEF PagesInv
<1>7. steady => \A d \in to : Chain(w[d], page[d].cursor, lastId, Gapless)
  BY <1>1, <1>3 DEF PagesSteady
<1> HIDE DEF w, to
<1> QED
  BY <1>1, <1>3, <1>5, <1>6, <1>7, ReportsKeepInv

LEMMA LeaveInv ==
    ASSUME Inv, NEW c \in Clients, Leave(c), steady' = steady
    PROVE  Inv'
<1>1. /\ connected' = connected \ {c} /\ page' = page
      /\ AppendAndBroadcast(FALSE, [wire EXCEPT ![c] = <<>>], connected')
  BY DEF Leave
<1>2. page' \in [Clients -> Pages] /\ \A d \in Clients : Keeps(page[d], page'[d])
  BY <1>1 DEF Inv, TypeOK, Keeps
<1>3. steady' \in BOOLEAN
  BY DEF Inv, TypeOK
<1> QED
  BY <1>1, <1>2, <1>3, PageIsGone

LEMMA NavigateInv ==
    ASSUME Inv, NEW c \in Clients, Navigate(c), steady' \in BOOLEAN, steady' => steady
    PROVE  Inv'
<1>1. /\ connected' = connected \ {c} /\ page' = [page EXCEPT ![c].pending = <<>>]
      /\ AppendAndBroadcast(FALSE, [wire EXCEPT ![c] = <<>>], connected')
  BY DEF Navigate
<1>2. page' \in [Clients -> Pages] /\ \A d \in Clients : Keeps(page[d], page'[d])
  <2>1. page \in [Clients -> Pages] /\ page[c] \in Pages
    BY DEF Inv, TypeOK
  <2> DEFINE q == [page[c] EXCEPT !.pending = <<>>]
  <2>2. page' = [page EXCEPT ![c] = q]
    BY <1>1
  <2>3. q \in Pages /\ Keeps(page[c], q)
    <3>1. <<>> \in Seq(Nat)
      BY EmptySeq
    <3>2. q \in Pages /\ q.cursor = page[c].cursor /\ q.state = page[c].state
      BY <2>1, <3>1 DEF Pages
    <3> QED
      BY <3>2 DEF Keeps
  <2> QED
    BY <2>1, <2>2, <2>3 DEF Keeps
<1> QED
  BY <1>1, <1>2, PageIsGone

\* One page changes, and what is on the way to it; nothing else does.
LEMMA OnePageChanges ==
    ASSUME Inv, NEW c \in Clients, NEW q \in Pages, NEW v \in Seq(Frames),
           page' = [page EXCEPT ![c] = q], wire' = [wire EXCEPT ![c] = v],
           UNCHANGED <<logVars, connected, steady>>,
           PageOK(q), WireOK(q, v, lastId), c \notin connected => v = <<>>,
           steady => /\ q.state = UpTo(q.cursor)
                     /\ c \in connected => Chain(v, q.cursor, lastId, Gapless)
    PROVE  Inv'
<1>1. /\ TypeOK /\ LogInv /\ PagesInv /\ (steady => LogSteady /\ PagesSteady)
      /\ page \in [Clients -> Pages] /\ wire \in [Clients -> Seq(Frames)]
  BY DEF Inv, TypeOK
<1>2. /\ page' \in [Clients -> Pages] /\ wire' \in [Clients -> Seq(Frames)]
      /\ page'[c] = q /\ wire'[c] = v
      /\ \A d \in Clients \ {c} : page'[d] = page[d] /\ wire'[d] = wire[d]
  BY <1>1
<1>3. TypeOK' /\ LogInv' /\ (LogSteady => LogSteady')
  BY <1>1, <1>2 DEF TypeOK, LogInv, LogSteady, logVars
<1>4. PagesInv'
  BY <1>1, <1>2 DEF PagesInv, logVars
<1>5. steady' => PagesSteady'
  BY <1>1, <1>2 DEF PagesSteady, PagesShowThePrefix, logVars
<1> QED
  BY <1>1, <1>3, <1>4, <1>5 DEF Inv

LEMMA DeliverInv ==
    ASSUME Inv, NEW c \in Clients, Deliver(c), steady' = steady
    PROVE  Inv' /\ page[c].cursor <= page'[c].cursor
<1> DEFINE q == Applied(page[c], Head(wire[c]))
           v == Tail(wire[c])
<1>1. /\ page[c] \in Pages /\ wire[c] \in Seq(Frames) /\ lastId \in Nat
      /\ page \in [Clients -> Pages] /\ wire \in [Clients -> Seq(Frames)]
      /\ PageOK(page[c]) /\ WireOK(page[c], wire[c], lastId)
  BY DEF Inv, TypeOK, PagesInv
<1>2. /\ c \in connected /\ wire[c] # <<>> /\ UNCHANGED <<logVars, connected, steady>>
      /\ page' = [page EXCEPT ![c] = q] /\ wire' = [wire EXCEPT ![c] = v]
  BY DEF Deliver
<1>3. q \in Pages /\ PageOK(q) /\ WireOK(q, v, lastId) /\ page[c].cursor <= q.cursor
  BY <1>1, <1>2, FrameArrives
<1>4. steady => q.state = UpTo(q.cursor) /\ Chain(v, q.cursor, lastId, Gapless)
  BY <1>1, <1>2, FrameArrivesExactly DEF Inv, PagesSteady, PagesShowThePrefix
<1>5. v \in Seq(Frames)
  BY <1>1, <1>2, HeadTailProperties
<1> HIDE DEF q, v
<1>6. Inv'
  BY <1>2, <1>3, <1>4, <1>5, OnePageChanges
<1>7. page'[c] = q
  BY <1>1, <1>2
<1> QED
  BY <1>3, <1>6, <1>7

LEMMA FlushInv ==
    ASSUME Inv, NEW c \in Clients, FlushPending(c), steady' = steady
    PROVE  Inv' /\ page'[c].cursor = page[c].cursor
<1> DEFINE p == page[c]
           q == [cursor |-> p.cursor, state |-> p.state, chat |-> p.chat \o p.pending,
                 pending |-> <<>>]
<1>1. /\ p \in Pages /\ wire[c] \in Seq(Frames) /\ lastId \in Nat
      /\ page \in [Clients -> Pages] /\ wire \in [Clients -> Seq(Frames)]
      /\ PageOK(p) /\ WireOK(p, wire[c], lastId) /\ (c \notin connected => wire[c] = <<>>)
  BY DEF Inv, TypeOK, PagesInv
<1>2. /\ p.state \in Seq(Nat) /\ p.chat \o p.pending \in Seq(Nat) /\ p.cursor \in Nat
      /\ (p.chat \o p.pending) \o <<>> = p.chat \o p.pending
  BY <1>1, ConcatProperties, ConcatEmptySeq DEF Pages
<1>3. page' = [page EXCEPT ![c] = q] /\ wire' = [wire EXCEPT ![c] = wire[c]]
      /\ UNCHANGED <<logVars, connected, steady>>
  BY <1>1 DEF FlushPending, Pages
<1>4. q \in Pages /\ PageOK(q)
  BY <1>1, <1>2 DEF Pages, PageOK
<1>5. WireOK(q, wire[c], lastId)
  BY <1>1 DEF WireOK, LiveComesLast
<1>6. steady => /\ q.state = UpTo(q.cursor)
                /\ c \in connected => Chain(wire[c], q.cursor, lastId, Gapless)
  BY DEF Inv, PagesSteady, PagesShowThePrefix
<1>7. page'[c].cursor = page[c].cursor
  BY <1>1, <1>3
<1> HIDE DEF q
<1> QED
  BY <1>1, <1>3, <1>4, <1>5, <1>6, <1>7, OnePageChanges

\* The alarm prunes no more than the row has while everything is steady.
LEMMA AlarmInv ==
    ASSUME Inv, NEW k \in 0 .. lastId, Alarm(k), steady' \in BOOLEAN,
           steady' => steady /\ (fits \/ k <= stored.cursor)
    PROVE  Inv'
<1>1. /\ TypeOK /\ LogInv /\ PagesInv /\ (steady => LogSteady /\ PagesSteady)
      /\ lastId \in Nat /\ pruned \in 0 .. lastId /\ stored \in Checkpoints /\ snapshot \in Checkpoints
      /\ stored.cursor \in Nat /\ fits \in BOOLEAN /\ dirty \in BOOLEAN /\ tail \in Nat
  BY DEF Inv, TypeOK, Checkpoints
<1>2. /\ pruned' = Later(pruned, k) /\ UNCHANGED <<lastId, snapshot, fits, connected, wire, page>>
      /\ IF dirty THEN Persist(snapshot, tail, fits) ELSE UNCHANGED <<stored, tail, dirty>>
  BY DEF Alarm, PruneExpired
<1>3. pruned' \in 0 .. lastId /\ (pruned' = pruned \/ pruned' = k)
  BY <1>1, <1>2 DEF Later
<1>4. \/ stored' = stored /\ tail' = tail /\ dirty' = dirty /\ ~(dirty /\ fits)
      \/ stored' = snapshot /\ tail' = 0 /\ dirty' = FALSE
  BY <1>1, <1>2 DEF Persist
<1>5. TypeOK' /\ LogInv'
  <2>1. stored' \in Checkpoints /\ tail' \in Nat /\ (stored' = stored \/ stored' = snapshot)
    BY <1>1, <1>4
  <2>2. dirty' \in BOOLEAN
    BY <1>1, <1>4, Zenon
  <2>3. TypeOK'
    BY <1>1, <1>2, <1>3, <2>1, <2>2 DEF TypeOK
  <2>4. LogInv'
    BY <1>1, <1>2, <2>1 DEF LogInv
  <2> QED
    BY <2>3, <2>4
<1>6. PagesInv'
  BY <1>1, <1>2 DEF PagesInv
<1>7. ASSUME steady'
      PROVE  LogSteady' /\ PagesSteady'
  <2>1. LogSteady /\ PagesSteady /\ (fits \/ k <= stored.cursor)
    BY <1>1, <1>7
  <2>2. snapshot.cursor = lastId
    BY <2>1 DEF LogSteady, Checkpoint
  <2>3. pruned <= stored.cursor /\ stored.cursor <= lastId /\ (dirty \/ stored = snapshot)
    BY <1>1, <2>1 DEF LogSteady, LogInv
  <2>4. pruned' <= stored'.cursor
    BY <1>1, <1>3, <1>4, <2>1, <2>2, <2>3
  <2>5. dirty' \/ stored' = snapshot'
    BY <1>2, <1>4, <2>3
  <2>6. LogSteady'
    BY <1>2, <1>4, <2>1, <2>4, <2>5 DEF LogSteady, Checkpoint
  <2>7. PagesSteady'
    BY <1>2, <2>1 DEF PagesSteady, PagesShowThePrefix
  <2> QED
    BY <2>6, <2>7
<1> QED
  BY <1>5, <1>6, <1>7 DEF Inv

LEMMA EvictInv ==
    ASSUME Inv, Evict, steady' = FALSE
    PROVE  Inv'
<1>1. /\ TypeOK /\ LogInv /\ PagesInv
      /\ lastId \in Nat /\ pruned \in 0 .. lastId /\ stored \in Checkpoints /\ stored.cursor \in Nat
      /\ stored.cursor <= lastId
  BY DEF Inv, TypeOK, LogInv, Checkpoints
<1>2. tail' \in Nat
  BY <1>1 DEF Evict, Later
<1>3. TypeOK' /\ LogInv' /\ PagesInv'
  BY <1>1, <1>2 DEF Evict, TypeOK, LogInv, PagesInv
<1> QED
  BY <1>3 DEF Inv

mcVars == <<vars, steady>>
NoCursorGoesBack == \A c \in Clients : page[c].cursor <= page'[c].cursor

LEMMA NextInv ==
    ASSUME Inv, MCNext
    PROVE  Inv' /\ NoCursorGoesBack
<1>0. page \in [Clients -> Pages] /\ steady \in BOOLEAN /\ \A c \in Clients : page[c].cursor \in Nat
  BY DEF Inv, TypeOK, Pages
<1>1. CASE Report /\ steady' = steady
  <2>1. page' = page
    BY <1>1 DEF Report
  <2> QED
    BY <1>0, <1>1, <2>1, ReportInv DEF NoCursorGoesBack
<1>2. ASSUME NEW k \in 0 .. lastId, fits \/ k <= stored.cursor, Alarm(k), steady' = steady
      PROVE  Inv' /\ NoCursorGoesBack
  <2>1. page' = page
    BY <1>2 DEF Alarm
  <2> QED
    BY <1>0, <1>2, <2>1, AlarmInv DEF NoCursorGoesBack
<1>3. ASSUME NEW c \in Clients, Join(c) \/ Leave(c), steady' = steady
      PROVE  Inv' /\ NoCursorGoesBack
  <2>1. page' = page
    BY <1>3 DEF Join, Leave
  <2> QED
    BY <1>0, <1>3, <2>1, JoinInv, LeaveInv DEF NoCursorGoesBack
<1>4. ASSUME NEW c \in Clients, Deliver(c), steady' = steady
      PROVE  Inv' /\ NoCursorGoesBack
  <2>1. \A d \in Clients \ {c} : page'[d] = page[d]
    BY <1>0, <1>4 DEF Deliver
  <2> QED
    BY <1>0, <1>4, <2>1, DeliverInv DEF NoCursorGoesBack
<1>5. ASSUME NEW c \in Clients, FlushPending(c), steady' = steady
      PROVE  Inv' /\ NoCursorGoesBack
  <2>1. \A d \in Clients \ {c} : page'[d] = page[d]
    BY <1>0, <1>5 DEF FlushPending
  <2> QED
    BY <1>0, <1>5, <2>1, FlushInv DEF NoCursorGoesBack
<1>6. ASSUME NEW c \in Clients, Navigate(c), steady' = steady \/ steady' = FALSE
      PROVE  Inv' /\ NoCursorGoesBack
  <2>1. \A d \in Clients : page'[d].cursor = page[d].cursor
    BY <1>0, <1>6 DEF Navigate, Pages
  <2>2. steady' \in BOOLEAN /\ (steady' => steady)
    <3>1. CASE steady' = steady
      BY <1>0, <3>1
    <3>2. CASE steady' = FALSE
      BY <3>2
    <3> QED
      BY <1>6, <3>1, <3>2
  <2>3. Inv'
    BY <1>6, <2>2, NavigateInv
  <2> QED
    BY <1>0, <2>1, <2>3 DEF NoCursorGoesBack
<1>7. CASE Evict /\ steady' = FALSE
  <2>1. page' = page
    BY <1>7 DEF Evict
  <2> QED
    <3>1. Inv'
      BY <1>7, EvictInv
    <3> QED
      BY <1>0, <2>1, <3>1 DEF NoCursorGoesBack
<1>8. ASSUME NEW k \in stored.cursor + 1 .. lastId, Alarm(k), steady' = FALSE
      PROVE  Inv' /\ NoCursorGoesBack
  <2>1. page' = page
    BY <1>8 DEF Alarm
  <2>2. k \in 0 .. lastId
    BY DEF Inv, TypeOK, Checkpoints
  <2> QED
    <3>1. steady' \in BOOLEAN /\ ~steady'
      BY <1>8
    <3>2. Inv'
      BY <1>8, <2>2, <3>1, AlarmInv
    <3> QED
      BY <1>0, <2>1, <3>2 DEF NoCursorGoesBack
<1> QED
  BY <1>1, <1>2, <1>3, <1>4, <1>5, <1>6, <1>7, <1>8 DEF MCNext, Steady, Unsteady

LEMMA StutterInv ==
    ASSUME Inv, UNCHANGED mcVars
    PROVE  Inv' /\ NoCursorGoesBack
<1>1. Inv'
  BY DEF mcVars, vars, logVars, Inv, TypeOK, LogInv, PagesInv, LogSteady, PagesSteady,
         PagesShowThePrefix
<1>2. \A c \in Clients : page[c].cursor \in Nat
  BY DEF Inv, TypeOK, Pages
<1> QED
  BY <1>1, <1>2 DEF mcVars, vars, NoCursorGoesBack

-----------------------------------------------------------------------------
(* The theorems *)

THEOREM LogInvariant == MCSpec => []Inv
<1>1. Inv /\ [MCNext]_mcVars => Inv'
  BY NextInv, StutterInv
<1> QED
  BY InitInv, <1>1, PTL DEF MCSpec, mcVars

\* While everything is steady a page shows exactly the events up to its cursor,
\* whatever it missed and whichever way it caught up (sendSnapshotIfBehind,
\* replayEvents).
THEOREM PagesShowWhatHappened == MCSpec => []SteadyPagesShowThePrefix
<1>1. Inv => SteadyPagesShowThePrefix
  BY DEF Inv, SteadyPagesShowThePrefix, PagesSteady
<1> QED
  BY LogInvariant, <1>1, PTL

\* Whatever happens, evictions, retention and navigation included, no page and
\* no snapshot has an event twice or out of order.
THEOREM NoEventTwice == MCSpec => []NothingIsRepeated
<1>1. Inv => NothingIsRepeated
  <2> SUFFICES ASSUME Inv PROVE NothingIsRepeated
    OBVIOUS
  <2>1. Increasing(snapshot.state) /\ Increasing(stored.state)
    BY DEF Inv, LogInv, Below
  <2>2. ASSUME NEW c \in Clients
        PROVE  Increasing(page[c].state) /\ Increasing(page[c].chat)
    <3>1. /\ PageOK(page[c]) /\ page[c].chat \in Seq(Nat) /\ page[c].pending \in Seq(Nat)
          /\ page[c].cursor \in Nat
      BY DEF Inv, TypeOK, PagesInv, Pages
    <3>2. Below(page[c].chat \o <<>>, page[c].cursor) /\ page[c].chat \o <<>> = page[c].chat
      BY <3>1, BeginningIsBelow, ConcatEmptySeq DEF PageOK
    <3> QED
      BY <3>1, <3>2 DEF PageOK, Below
  <2> QED
    BY <2>1, <2>2 DEF NothingIsRepeated
<1> QED
  BY LogInvariant, <1>1, PTL

\* A page never goes back to an older cursor, not even when it hydrates from a
\* snapshot after the Durable Object lost what it had in memory.
THEOREM PagesOnlyMoveForward == MCSpec => [][NoCursorGoesBack]_mcVars
<1>1. Inv /\ [MCNext]_mcVars => [NoCursorGoesBack]_mcVars
  BY NextInv, StutterInv
<1> QED
  BY LogInvariant, <1>1, PTL DEF MCSpec, mcVars
=============================================================================
