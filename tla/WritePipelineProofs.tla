-------------------------- MODULE WritePipelineProofs --------------------------
(***************************************************************************)
(* Proofs about Firestore's write path: no HARD_ASSERT fails, answers meet *)
(* the writes they are about, no write is lost, completions are told the   *)
(* truth, and to its caller the write path is PendingWrites.               *)
(***************************************************************************)
EXTENDS WritePipeline, SequenceTheorems, FiniteSetTheorems, WellFoundedInduction, TLAPS

(***************************************************************************)
(* Values                                                                  *)
(***************************************************************************)
Batches == [id : Nat, write : Writes]
Messages == Batches \cup {Handshake}
Answers == {"handshake", "ok", "refused"}
States == {"Initial", "Starting", "Open", "Error", "Backoff"}

RemoteStore ==
    [is_network_enabled : BOOLEAN, pipeline : Seq(Batches), handshake_complete : BOOLEAN,
     state : States, close_count : Nat, tokens : SUBSET Nat, idleness_timer : BOOLEAN,
     up : Seq(Messages), down : Seq(Answers), failed : SUBSET STRING]

PipelineTypes ==
    /\ mutation_queue \in [Users -> Seq(Batches)]
    /\ log \in Seq(Writes)
    /\ running \in BOOLEAN
    /\ current_user \in Users
    /\ next_batch_id \in Nat \ {0}
    /\ callbacks \in [Users -> SUBSET Batches]
    /\ issued \in Seq([user : Users, write : Writes])
    /\ acked \subseteq Writes /\ rejected \subseteq Writes
    /\ told \subseteq [write : Writes, ok : BOOLEAN]

(***************************************************************************)
(* The inductive invariant, part by part                                   *)
(***************************************************************************)
\* A mutation queue is in the order of its numbers, which are below next.
Numbered(q, next) ==
    /\ \A i \in 1..Len(q) : q[i].id > 0 /\ q[i].id < next
    /\ \A i, j \in 1..Len(q) : i < j => q[i].id < q[j].id

\* The pipeline is the front of the queue q, within its capacity.
Front(s, q) ==
    /\ Len(s.pipeline) <= Len(q) /\ Len(s.pipeline) <= kMaxPendingWrites
    /\ \A i \in 1..Len(s.pipeline) : s.pipeline[i] = q[i]

\* A starting stream has one request for credentials that is not out of date.
TokensCurrent(s) ==
    /\ \A c \in s.tokens : c <= s.close_count
    /\ s.state = "Starting" <=> s.close_count \in s.tokens

\* A stream that is not open has nothing on the wire.
WireDown(s) == s.state # "Open" => s.up = <<>> /\ s.down = <<>> /\ ~s.idleness_timer

\* CanWriteMutations: the stream is open, and the handshake over.
Ready(s) == s.state = "Open" /\ s.handshake_complete

\* Before the handshake is over nothing else is on the wire.
Shaking(s) ==
    s.state = "Open" /\ ~s.handshake_complete =>
        /\ ~s.idleness_timer
        /\ \/ s.up = <<Handshake>> /\ s.down = <<>>
           \/ s.up = <<>> /\ s.down = <<"handshake">>

\* An answer that is in keeping with what the server, whose log is lg, did.
Judged(answer, w, lg) ==
    \/ answer = "refused" /\ w \in Bad
    \/ answer = "ok" /\ w \notin Bad /\ \E k \in 1..Len(lg) : lg[k] = w

\* What is on the wire are the answers of the first writes of the pipeline, and then
\* the requests of the others.
Matching(down, up, pipeline, lg) ==
    /\ Len(down) + Len(up) = Len(pipeline)
    /\ \A i \in 1..Len(down) : Judged(down[i], pipeline[i].write, lg)
    /\ \A i \in 1..Len(up) : up[i] = pipeline[Len(down) + i]

\* So it is after the handshake, and the stream is idle only when it has no work.
Answering(s, lg) ==
    Ready(s) => /\ Matching(s.down, s.up, s.pipeline, lg)
                /\ s.idleness_timer => s.pipeline = <<>>

\* A remote store that works for the queue q: what FillWritePipeline relies on.
Working(s, q, lg) ==
    /\ s \in RemoteStore
    /\ s.is_network_enabled /\ s.failed = {}
    /\ Front(s, q) /\ TokensCurrent(s) /\ WireDown(s) /\ Shaking(s) /\ Answering(s, lg)
    /\ IsStarted(s) => s.pipeline # <<>> \/ Ready(s)

\* Between two operations, moreover, a stream that has work is started, and the
\* handshake of a closed stream is forgotten.
Settled(s, q, lg) ==
    /\ Working(s, q, lg)
    /\ s.pipeline # <<>> => IsStarted(s)
    /\ s.handshake_complete => s.state = "Open"

\* A completion that was not called yet belongs to a batch that is pending.
CallbacksPending ==
    \A u \in Users : \A c \in callbacks[u] :
        \E i \in 1..Len(mutation_queue[u]) : mutation_queue[u][i] = c

\* A write that was made, e, is where NoWriteLost says.
Kept(e) ==
    \/ InQueue(e.user, e.write)
    \/ e.write \in acked /\ InLog(e.write)
    \/ e.write \in rejected

\* What the completions were told.
ToldTheTruth == \A t \in told : t.write \in (IF t.ok THEN acked ELSE rejected)

PipelineInv ==
    /\ PipelineTypes
    /\ \A u \in Users : Numbered(mutation_queue[u], next_batch_id)
    /\ Settled(remote, Queue, log)
    /\ ~running => remote = Idle
    /\ CallbacksPending
    /\ ToldTheTruth
    /\ NoWriteLost

(***************************************************************************)
(* Numbers                                                                 *)
(***************************************************************************)
\* A nonempty set of naturals has a least element.
LEMMA LeastNatural ==
  ASSUME NEW T \in SUBSET Nat, T # {}
  PROVE  \E x \in T : \A y \in T : x <= y
<1>1. PICK R : R = OpToRel(<, Nat)
  OBVIOUS
<1>2. IsWellFoundedOn(R, Nat)
  BY <1>1, NatLessThanWellFounded
<1>3. \E x \in T : \A y \in T : ~(<<y, x>> \in R)
  BY <1>2, WFMin
<1>4. \A x, y \in Nat : y < x => <<y, x>> \in R
  BY <1>1 DEF OpToRel
<1>5. PICK x \in T : \A y \in T : ~(<<y, x>> \in R)
  BY <1>3
<1>6. ASSUME NEW y \in T PROVE x <= y
  <2>1. x \in Nat /\ y \in Nat
    OBVIOUS
  <2>2. ~(y < x)
    BY <1>4, <1>5, <2>1
  <2> QED
    BY <2>1, <2>2
<1> QED
  BY <1>6

\* A nonempty set of naturals below a bound has a greatest element.
LEMMA GreatestNatural ==
  ASSUME NEW T \in SUBSET Nat, T # {}, NEW n \in Nat, \A x \in T : x < n
  PROVE  \E x \in T : \A y \in T : y <= x
<1>1. PICK D : D = {n - x : x \in T}
  OBVIOUS
<1>2. D \in SUBSET Nat /\ D # {}
  <2>1. ASSUME NEW d \in D PROVE d \in Nat
    <3>1. PICK x \in T : d = n - x
      BY <1>1
    <3>2. x \in Nat /\ x < n
      OBVIOUS
    <3> QED
      BY <3>1, <3>2
  <2>2. PICK x \in T : TRUE
    OBVIOUS
  <2>3. n - x \in D
    BY <1>1
  <2> QED
    BY <2>1, <2>3
<1>3. PICK d \in D : \A e \in D : d <= e
  BY <1>2, LeastNatural
<1>4. PICK x \in T : d = n - x
  BY <1>1, <1>3
<1>5. ASSUME NEW y \in T PROVE y <= x
  <2>1. n - y \in D
    BY <1>1
  <2>2. d <= n - y
    BY <1>3, <2>1
  <2> QED
    BY <1>4, <2>2
<1> QED
  BY <1>5

(***************************************************************************)
(* What the methods of the stream do to its state                          *)
(***************************************************************************)
\* Start, after an error: the backoff comes first.
LEMMA StartAfterError ==
  ASSUME NEW s \in RemoteStore, s.state = "Error"
  PROVE  Start(s) = [s EXCEPT !.state = "Backoff"]
  BY DEF Start

\* Start of a stopped stream: credentials are asked for.
LEMMA StartAsks ==
  ASSUME NEW s \in RemoteStore, s.state = "Initial"
  PROVE  Start(s) = [s EXCEPT !.state = "Starting", !.tokens = s.tokens \cup {s.close_count}]
  BY DEF Start, HardAssert

\* What differs between two states of the remote store, by method.
Begun(s, t) ==
    /\ t \in RemoteStore
    /\ t.is_network_enabled = s.is_network_enabled /\ t.pipeline = s.pipeline
    /\ t.handshake_complete = s.handshake_complete /\ t.close_count = s.close_count
    /\ t.idleness_timer = s.idleness_timer /\ t.up = s.up /\ t.down = s.down
    /\ t.failed = s.failed

\* A start begins a backoff or a request for credentials, and nothing else.
LEMMA StartBegins ==
  ASSUME NEW s \in RemoteStore, s.state \in {"Initial", "Error"}
  PROVE  /\ Begun(s, Start(s))
         /\ s.state = "Error" => Start(s).state = "Backoff" /\ Start(s).tokens = s.tokens
         /\ s.state = "Initial" => /\ Start(s).state = "Starting"
                                   /\ Start(s).tokens = s.tokens \cup {s.close_count}
<1>1. CASE s.state = "Error"
  <2>1. PICK t : t = [s EXCEPT !.state = "Backoff"]
    OBVIOUS
  <2>2. t \in RemoteStore
    BY <2>1 DEF RemoteStore, States
  <2>3. Begun(s, t) /\ t.state = "Backoff" /\ t.tokens = s.tokens
    BY <2>1, <2>2 DEF RemoteStore, Begun
  <2> QED
    BY <1>1, <2>1, <2>3, StartAfterError
<1>2. CASE s.state = "Initial"
  <2>1. PICK t : t = [s EXCEPT !.state = "Starting", !.tokens = s.tokens \cup {s.close_count}]
    OBVIOUS
  <2>2. t \in RemoteStore
    BY <2>1 DEF RemoteStore, States
  <2>3. Begun(s, t) /\ t.state = "Starting" /\ t.tokens = s.tokens \cup {s.close_count}
    BY <2>1, <2>2 DEF RemoteStore, Begun
  <2> QED
    BY <1>2, <2>1, <2>3, StartAsks
<1> QED
  BY <1>1, <1>2

\* StartIfNeeded leaves a stream started if the pipeline has something for it.
LEMMA StartIfNeededStarts ==
  ASSUME NEW s \in RemoteStore, s.is_network_enabled, TokensCurrent(s)
  PROVE  /\ Begun(s, StartIfNeeded(s))
         /\ TokensCurrent(StartIfNeeded(s))
         /\ s.pipeline # <<>> => IsStarted(StartIfNeeded(s))
         /\ IsStarted(s) \/ s.pipeline = <<>> => StartIfNeeded(s) = s
         /\ StartIfNeeded(s).state = "Open" <=> s.state = "Open"
<1>1. CASE IsStarted(s) \/ s.pipeline = <<>>
  <2>1. StartIfNeeded(s) = s
    BY <1>1 DEF StartIfNeeded, ShouldStartWriteStream
  <2> QED
    BY <1>1, <2>1 DEF Begun
<1>2. CASE ~IsStarted(s) /\ s.pipeline # <<>>
  <2>1. StartIfNeeded(s) = Start(s)
    BY <1>2 DEF StartIfNeeded, ShouldStartWriteStream
  <2>2. s.state \in {"Initial", "Error"}
    BY <1>2 DEF IsStarted, RemoteStore, States
  <2>3. PICK t : t = Start(s)
    OBVIOUS
  <2>4. /\ Begun(s, t)
        /\ s.state = "Error" => t.state = "Backoff" /\ t.tokens = s.tokens
        /\ s.state = "Initial" => t.state = "Starting" /\ t.tokens = s.tokens \cup {s.close_count}
    BY <2>2, <2>3, StartBegins
  <2>5. t.close_count = s.close_count /\ s.close_count \in Nat
    BY <2>4 DEF Begun, RemoteStore
  <2>6. TokensCurrent(t)
    BY <2>2, <2>4, <2>5 DEF TokensCurrent
  <2>7. IsStarted(t) /\ t.state # "Open" /\ s.state # "Open"
    BY <2>2, <2>4 DEF IsStarted
  <2> QED
    BY <1>2, <2>1, <2>3, <2>4, <2>6, <2>7
<1> QED
  BY <1>1, <1>2

(***************************************************************************)
(* What FillWritePipeline adds                                             *)
(***************************************************************************)
\* The rows before the successor of the pipeline's last batch are the pipeline's.
LEMMA SeekFindsEnd ==
  ASSUME NEW q \in Seq(Batches), NEW n \in 0..Len(q), NEW id \in Int,
         \A i \in 1..Len(q) : q[i].id < id <=> i <= n
  PROVE  Seek(q, id) = n
<1>1. {i \in 1..Len(q) : q[i].id < id} = 1..n
  OBVIOUS
<1>2. Cardinality(1..n) = n
  BY FS_Interval
<1> QED
  BY <1>1, <1>2 DEF Seek

\* GetNextMutationBatch goes on where the pipeline ends.
LEMMA NextBatchesFollow ==
  ASSUME NEW s \in RemoteStore, NEW q \in Seq(Batches), NEW next, Numbered(q, next),
         Front(s, q)
  PROVE  \E m \in Nat : /\ m >= Len(s.pipeline) /\ m <= Len(q) /\ m <= kMaxPendingWrites
                        /\ NextBatches(q, s) = SubSeq(q, Len(s.pipeline) + 1, m)
<1> PICK n : n = Len(s.pipeline)
  OBVIOUS
<1>1. /\ n \in Nat /\ n <= Len(q) /\ n <= kMaxPendingWrites /\ Len(q) \in Nat
      /\ kMaxPendingWrites \in Nat /\ s.pipeline \in Seq(Batches)
  BY CapacityAssumption DEF Front, RemoteStore
<1> PICK last : last = IF s.pipeline = <<>> THEN -1 ELSE s.pipeline[Len(s.pipeline)].id
  OBVIOUS
<1>2. \A i \in 1..Len(q) : q[i].id \in Nat /\ q[i].id > 0
  <2> SUFFICES ASSUME NEW i \in 1..Len(q) PROVE q[i].id \in Nat /\ q[i].id > 0
    OBVIOUS
  <2>1. q[i] \in Batches
    BY <1>1
  <2> QED
    BY <2>1 DEF Numbered, Batches
<1>3. last \in Int /\ \A i \in 1..Len(q) : q[i].id < last + 1 <=> i <= n
  <2>1. CASE s.pipeline = <<>>
    BY <1>1, <1>2, <2>1
  <2>2. CASE s.pipeline # <<>>
    <3>1. n \in 1..Len(q) /\ n \in 1..Len(s.pipeline)
      BY <1>1, <2>2
    <3>2. last = q[n].id
      BY <2>2, <3>1 DEF Front
    <3>3. \A i \in 1..Len(q) : /\ i < n => q[i].id < q[n].id
                               /\ n < i => q[n].id < q[i].id
      BY <3>1 DEF Numbered
    <3>4. q[n].id \in Nat
      BY <1>2, <3>1
    <3> SUFFICES ASSUME NEW i \in 1..Len(q) PROVE q[i].id < q[n].id + 1 <=> i <= n
      BY <3>2, <3>4
    <3>5. q[i].id \in Nat
      BY <1>2
    <3>6. PICK x, y : x = q[i].id /\ y = q[n].id
      OBVIOUS
    <3>7. x \in Nat /\ y \in Nat /\ i \in Nat /\ n \in Nat
      BY <1>1, <3>4, <3>5, <3>6
    <3>8. (i < n => x < y) /\ (n < i => y < x) /\ (i = n => x = y)
      BY <3>3, <3>6
    <3>9. x < y + 1 <=> i <= n
      BY <3>7, <3>8
    <3> QED
      BY <3>6, <3>9
  <2> QED
    BY <2>1, <2>2
<1>4. Seek(q, last + 1) = n
  <2> PICK id : id = last + 1
    OBVIOUS
  <2>1. id \in Int /\ n \in 0..Len(q) /\ \A i \in 1..Len(q) : q[i].id < id <=> i <= n
    BY <1>1, <1>3
  <2> QED
    BY <2>1, SeekFindsEnd
<1> PICK m : m = IF Len(q) < n + (kMaxPendingWrites - n) THEN Len(q)
                 ELSE n + (kMaxPendingWrites - n)
  OBVIOUS
<1>5. m \in Nat /\ m >= n /\ m <= Len(q) /\ m <= kMaxPendingWrites
  BY <1>1
<1>6. NextBatches(q, s) = SubSeq(q, n + 1, m)
  BY <1>4 DEF NextBatches
<1> QED
  BY <1>5, <1>6

\* A piece of a sequence.
LEMMA Piece ==
  ASSUME NEW S, NEW q \in Seq(S), NEW n \in Nat, NEW m \in Nat, n <= m, m <= Len(q),
         NEW r, r = SubSeq(q, n + 1, m)
  PROVE  /\ r \in Seq(S) /\ Len(r) = m - n
         /\ \A i \in 1..Len(r) : r[i] = q[n + i]
  OBVIOUS

\* c is a with b after it.
Extends(a, b, c) ==
    /\ Len(c) = Len(a) + Len(b)
    /\ \A i \in 1..Len(a) : c[i] = a[i]
    /\ \A i \in 1..Len(b) : c[Len(a) + i] = b[i]

\* Two sequences put together.
LEMMA Joined ==
  ASSUME NEW S, NEW a \in Seq(S), NEW b \in Seq(S), NEW c, c = a \o b
  PROVE  c \in Seq(S) /\ Extends(a, b, c)
  BY DEF Extends

\* The state with the next batches in its pipeline.
Added(s, q) == [s EXCEPT !.pipeline = s.pipeline \o NextBatches(q, s)]

\* The pipeline is still the front of the queue: what was there stays, and what is new
\* follows it.
LEMMA AddedIsFront ==
  ASSUME NEW s \in RemoteStore, NEW q \in Seq(Batches), NEW next, Numbered(q, next),
         Front(s, q)
  PROVE  \E bs \in Seq(Batches), a \in RemoteStore :
         /\ bs = NextBatches(q, s) /\ a = Added(s, q)
         /\ Front(a, q)
         /\ Extends(s.pipeline, bs, a.pipeline)
         /\ a.is_network_enabled = s.is_network_enabled
         /\ a.handshake_complete = s.handshake_complete
         /\ a.idleness_timer = s.idleness_timer
         /\ a.close_count = s.close_count /\ a.tokens = s.tokens /\ a.failed = s.failed
         /\ a.up = s.up /\ a.down = s.down /\ a.state = s.state
<1>1. PICK old, n : old = s.pipeline /\ n = Len(old)
  OBVIOUS
<1>2. old \in Seq(Batches) /\ n \in Nat /\ n = Len(old)
  BY <1>1 DEF RemoteStore
<1>3. PICK m : /\ m \in Nat /\ m >= n /\ m <= Len(q) /\ m <= kMaxPendingWrites
               /\ NextBatches(q, s) = SubSeq(q, n + 1, m)
  BY <1>1, NextBatchesFollow
<1>4. PICK bs : bs = SubSeq(q, n + 1, m)
  OBVIOUS
<1>5. bs \in Seq(Batches) /\ Len(bs) = m - n /\ \A i \in 1..Len(bs) : bs[i] = q[n + i]
  BY <1>2, <1>3, <1>4, Piece
<1>6. PICK p : p = old \o bs
  OBVIOUS
<1>7. /\ p \in Seq(Batches) /\ Len(p) = n + Len(bs)
      /\ \A i \in 1..n : p[i] = old[i]
      /\ \A i \in 1..Len(bs) : p[n + i] = bs[i]
  <2>1. /\ p \in Seq(Batches) /\ Len(p) = Len(old) + Len(bs)
        /\ \A i \in 1..Len(old) : p[i] = old[i]
        /\ \A i \in 1..Len(bs) : p[Len(old) + i] = bs[i]
    BY <1>2, <1>5, <1>6
  <2> QED
    BY <1>2, <2>1
<1>8. \A i \in 1..n : old[i] = q[i]
  BY <1>1 DEF Front
<1>9. Len(p) = m /\ \A i \in 1..m : p[i] = q[i]
  <2>1. m \in Nat /\ n <= m /\ n \in Nat
    BY <1>2, <1>3
  <2>2. Len(p) = m
    BY <1>5, <1>7, <2>1
  <2>3. ASSUME NEW i \in 1..m, i <= n PROVE p[i] = q[i]
    BY <1>7, <1>8, <2>1, <2>3
  <2>4. ASSUME NEW i \in 1..m, i > n PROVE p[i] = q[i]
    <3>1. PICK j : j = i - n
      OBVIOUS
    <3>2. j \in 1..Len(bs) /\ i = n + j
      BY <1>5, <2>1, <2>4, <3>1
    <3> QED
      BY <1>5, <1>7, <3>2
  <2> QED
    BY <2>1, <2>2, <2>3, <2>4
<1>10. PICK a : a = [s EXCEPT !.pipeline = p]
  OBVIOUS
<1>11. a = Added(s, q) /\ bs = NextBatches(q, s)
  BY <1>1, <1>3, <1>4, <1>6, <1>10 DEF Added
<1>12. a \in RemoteStore
  BY <1>7, <1>10 DEF RemoteStore
<1>13. /\ a.pipeline = p
       /\ a.is_network_enabled = s.is_network_enabled
       /\ a.handshake_complete = s.handshake_complete
       /\ a.idleness_timer = s.idleness_timer
       /\ a.close_count = s.close_count /\ a.tokens = s.tokens /\ a.failed = s.failed
       /\ a.up = s.up /\ a.down = s.down /\ a.state = s.state
  BY <1>10, <1>12 DEF RemoteStore
<1>14. Front(a, q)
  BY <1>3, <1>9, <1>13 DEF Front
<1>15. Extends(s.pipeline, bs, a.pipeline)
  BY <1>1, <1>7, <1>13 DEF Extends
<1> QED
  BY <1>5, <1>11, <1>12, <1>13, <1>14, <1>15

(***************************************************************************)
(* The wire and the pipeline                                               *)
(***************************************************************************)
\* The same batches are added to the pipeline and to the requests.
LEMMA MatchingGrows ==
  ASSUME NEW down \in Seq(Answers), NEW up \in Seq(Messages), NEW up2 \in Seq(Messages),
         NEW p \in Seq(Batches), NEW p2 \in Seq(Batches), NEW bs \in Seq(Batches), NEW lg,
         Matching(down, up, p, lg), Extends(p, bs, p2), Extends(up, bs, up2)
  PROVE  Matching(down, up2, p2, lg)
<1>1. /\ Len(down) \in Nat /\ Len(up) \in Nat /\ Len(p) \in Nat /\ Len(bs) \in Nat
      /\ Len(down) + Len(up) = Len(p)
      /\ Len(up2) = Len(up) + Len(bs) /\ Len(p2) = Len(p) + Len(bs)
  BY DEF Matching, Extends
<1>2. ASSUME NEW i \in 1..Len(down) PROVE Judged(down[i], p2[i].write, lg)
  <2>1. i \in 1..Len(p)
    BY <1>1
  <2> QED
    BY <2>1 DEF Matching, Extends
<1>3. ASSUME NEW i \in 1..Len(up2), i <= Len(up) PROVE up2[i] = p2[Len(down) + i]
  <2>1. i \in 1..Len(up) /\ Len(down) + i \in 1..Len(p)
    BY <1>1, <1>3
  <2>2. up2[i] = up[i] /\ up[i] = p[Len(down) + i]
    BY <2>1 DEF Matching, Extends
  <2>3. p2[Len(down) + i] = p[Len(down) + i]
    BY <2>1 DEF Extends
  <2> QED
    BY <2>2, <2>3
<1>4. ASSUME NEW i \in 1..Len(up2), i > Len(up) PROVE up2[i] = p2[Len(down) + i]
  <2>1. PICK k, l, n, m : k = Len(down) /\ l = Len(up) /\ n = Len(bs) /\ m = Len(p)
    OBVIOUS
  <2>2. /\ k \in Nat /\ l \in Nat /\ n \in Nat /\ k + l = m
        /\ i \in Int /\ l < i /\ i <= l + n
    BY <1>1, <1>4, <2>1
  <2> PICK j \in 1..n : i = l + j /\ k + i = m + j
    <3>1. i - l \in 1..n /\ i = l + (i - l) /\ k + i = m + (i - l)
      BY <2>2
    <3> QED
      BY <3>1
  <2>3. up2[l + j] = bs[j] /\ p2[m + j] = bs[j]
    BY <2>1 DEF Extends
  <2> QED
    BY <2>1, <2>3
<1>5. ASSUME NEW i \in 1..Len(up2) PROVE up2[i] = p2[Len(down) + i]
  BY <1>1, <1>3, <1>4
<1>6. Len(down) + Len(up2) = Len(p2)
  <2>1. PICK k, l, n, m : k = Len(down) /\ l = Len(up) /\ n = Len(bs) /\ m = Len(p)
    OBVIOUS
  <2>2. /\ k \in Nat /\ l \in Nat /\ n \in Nat /\ k + l = m
        /\ Len(up2) = l + n /\ Len(p2) = m + n
    BY <1>1, <2>1
  <2>3. k + (l + n) = m + n
    BY <2>2
  <2> QED
    BY <2>1, <2>2, <2>3
<1> QED
  BY <1>2, <1>5, <1>6 DEF Matching

\* The first answer is taken, and its write leaves the pipeline.
LEMMA MatchingAnswered ==
  ASSUME NEW down \in Seq(Answers), NEW up \in Seq(Messages), NEW p \in Seq(Batches), NEW lg,
         Matching(down, up, p, lg), down # <<>>
  PROVE  /\ p # <<>> /\ Judged(Head(down), Head(p).write, lg)
         /\ Matching(Tail(down), up, Tail(p), lg)
<1>1. /\ Len(down) \in Nat /\ Len(up) \in Nat /\ Len(down) > 0 /\ Len(p) > 0 /\ p # <<>>
      /\ Len(down) + Len(up) = Len(p)
  BY DEF Matching
<1>2. /\ Len(Tail(down)) = Len(down) - 1 /\ Len(Tail(p)) = Len(p) - 1
      /\ Head(down) = down[1] /\ Head(p) = p[1]
      /\ \A i \in 1..Len(Tail(down)) : Tail(down)[i] = down[i + 1]
      /\ \A i \in 1..Len(Tail(p)) : Tail(p)[i] = p[i + 1]
  BY <1>1
<1>3. Judged(Head(down), Head(p).write, lg)
  BY <1>1, <1>2 DEF Matching
<1>4. ASSUME NEW i \in 1..Len(Tail(down)) PROVE Judged(Tail(down)[i], Tail(p)[i].write, lg)
  <2>1. i + 1 \in 1..Len(down) /\ i \in 1..Len(Tail(p))
    BY <1>1, <1>2
  <2> QED
    BY <1>2, <2>1 DEF Matching
<1>5. ASSUME NEW i \in 1..Len(up) PROVE up[i] = Tail(p)[Len(Tail(down)) + i]
  <2>1. PICK j : j = Len(Tail(down)) + i
    OBVIOUS
  <2>2. j \in 1..Len(Tail(p)) /\ j + 1 = Len(down) + i
    BY <1>1, <1>2, <2>1
  <2>3. up[i] = p[j + 1]
    BY <2>2 DEF Matching
  <2> QED
    BY <1>2, <2>1, <2>2, <2>3
<1> QED
  BY <1>1, <1>2, <1>3, <1>4, <1>5 DEF Matching

\* The server takes the first request, and answers it.
LEMMA MatchingReplied ==
  ASSUME NEW down \in Seq(Answers), NEW up \in Seq(Messages), NEW p \in Seq(Batches),
         NEW answer \in Answers, NEW lg, NEW lg2,
         Matching(down, up, p, lg), up # <<>>, Judged(answer, Head(up).write, lg2),
         \A a, w : Judged(a, w, lg) => Judged(a, w, lg2)
  PROVE  Matching(Append(down, answer), Tail(up), p, lg2)
<1>1. /\ Len(down) \in Nat /\ Len(up) \in Nat /\ Len(up) > 0
      /\ Len(down) + Len(up) = Len(p)
  BY DEF Matching
<1>2. PICK d : d = Append(down, answer)
  OBVIOUS
<1>3. /\ d \in Seq(Answers) /\ Len(d) = Len(down) + 1 /\ d[Len(down) + 1] = answer
      /\ \A i \in 1..Len(down) : d[i] = down[i]
  BY <1>2
<1>4. /\ Len(Tail(up)) = Len(up) - 1 /\ Head(up) = up[1]
      /\ \A i \in 1..Len(Tail(up)) : Tail(up)[i] = up[i + 1]
  BY <1>1
<1>5. up[1] = p[Len(down) + 1]
  BY <1>1 DEF Matching
<1>6. ASSUME NEW i \in 1..Len(d) PROVE Judged(d[i], p[i].write, lg2)
  <2>1. CASE i <= Len(down)
    <3>1. i \in 1..Len(down)
      BY <1>1, <1>3, <2>1
    <3> QED
      BY <1>3, <3>1 DEF Matching
  <2>2. CASE i > Len(down)
    <3>1. i = Len(down) + 1
      BY <1>1, <1>3, <2>2
    <3> QED
      BY <1>3, <1>4, <1>5, <3>1
  <2> QED
    BY <1>1, <1>3, <2>1, <2>2
<1>7. ASSUME NEW i \in 1..Len(Tail(up)) PROVE Tail(up)[i] = p[Len(d) + i]
  <2>1. i + 1 \in 1..Len(up) /\ Len(d) + i = Len(down) + (i + 1)
    BY <1>1, <1>3, <1>4
  <2>2. up[i + 1] = p[Len(down) + (i + 1)]
    BY <2>1 DEF Matching
  <2> QED
    BY <1>4, <2>1, <2>2
<1>8. Len(d) + Len(Tail(up)) = Len(p)
  BY <1>1, <1>3, <1>4
<1> QED
  BY <1>2, <1>6, <1>7, <1>8 DEF Matching

(***************************************************************************)
(* FillWritePipeline                                                       *)
(***************************************************************************)
\* MarkIdle of an open stream sets its timer.
LEMMA MarkIdleSets ==
  ASSUME NEW s \in RemoteStore, s.state = "Open"
  PROVE  \E t \in RemoteStore :
            /\ t = MarkIdle(s) /\ t.idleness_timer
            /\ t.is_network_enabled = s.is_network_enabled /\ t.pipeline = s.pipeline
            /\ t.handshake_complete = s.handshake_complete /\ t.state = s.state
            /\ t.close_count = s.close_count /\ t.tokens = s.tokens /\ t.up = s.up
            /\ t.down = s.down /\ t.failed = s.failed
<1>1. PICK t : t = [s EXCEPT !.idleness_timer = TRUE]
  OBVIOUS
<1>2. t \in RemoteStore
  BY <1>1 DEF RemoteStore
<1>3. t = MarkIdle(s)
  BY <1>1 DEF MarkIdle, IsOpen
<1> QED
  BY <1>1, <1>2, <1>3 DEF RemoteStore

\* Write, for a sequence of messages, on an open stream.
LEMMA WriteAllSends ==
  ASSUME NEW s \in RemoteStore, s.state = "Open", NEW ms \in Seq(Messages), ms # <<>>
  PROVE  \E t \in RemoteStore :
            /\ t = WriteAll(s, ms) /\ ~t.idleness_timer /\ Extends(s.up, ms, t.up)
            /\ t.is_network_enabled = s.is_network_enabled /\ t.pipeline = s.pipeline
            /\ t.handshake_complete = s.handshake_complete /\ t.state = s.state
            /\ t.close_count = s.close_count /\ t.tokens = s.tokens
            /\ t.down = s.down /\ t.failed = s.failed
<1>1. PICK u : u = s.up \o ms
  OBVIOUS
<1>2. s.up \in Seq(Messages)
  BY DEF RemoteStore
<1>3. u \in Seq(Messages) /\ Extends(s.up, ms, u)
  BY <1>1, <1>2, Joined
<1>4. PICK t : t = [s EXCEPT !.up = u, !.idleness_timer = FALSE]
  OBVIOUS
<1>5. t \in RemoteStore
  BY <1>3, <1>4 DEF RemoteStore
<1>6. t = WriteAll(s, ms)
  BY <1>1, <1>4 DEF WriteAll, HardAssert, IsOpen
<1> QED
  BY <1>3, <1>4, <1>5, <1>6 DEF RemoteStore

\* A sequence with nothing after it.
LEMMA NothingAdded ==
  ASSUME NEW S, NEW a \in Seq(S), NEW c \in Seq(S), Extends(a, <<>>, c)
  PROVE  c = a
  BY DEF Extends

\* FillWritePipeline of a remote store that works, its stream being ready: the batches
\* that are added are sent at once, or the stream becomes idle.
LEMMA FillReady ==
  ASSUME NEW s, NEW q \in Seq(Batches), NEW next, NEW lg, Numbered(q, next),
         Working(s, q, lg), Ready(s)
  PROVE  \E f : f = FillWritePipeline(s, q) /\ Working(f, q, lg) /\ Ready(f)
<1>0. /\ s \in RemoteStore /\ Front(s, q) /\ s.is_network_enabled /\ s.failed = {}
      /\ TokensCurrent(s) /\ Answering(s, lg)
      /\ s.state = "Open" /\ s.handshake_complete
  BY DEF Working, Ready
<1>1. PICK bs \in Seq(Batches), a \in RemoteStore :
         /\ bs = NextBatches(q, s) /\ a = Added(s, q)
         /\ Front(a, q)
         /\ Extends(s.pipeline, bs, a.pipeline)
         /\ a.is_network_enabled = s.is_network_enabled
         /\ a.handshake_complete = s.handshake_complete
         /\ a.idleness_timer = s.idleness_timer
         /\ a.close_count = s.close_count /\ a.tokens = s.tokens /\ a.failed = s.failed
         /\ a.up = s.up /\ a.down = s.down /\ a.state = s.state
  BY <1>0, AddedIsFront
<1>2. /\ a \in RemoteStore /\ bs \in Seq(Batches) /\ bs \in Seq(Messages)
      /\ a.state = "Open" /\ a.handshake_complete /\ TokensCurrent(a)
      /\ a.up \in Seq(Messages) /\ a.down \in Seq(Answers) /\ a.pipeline \in Seq(Batches)
      /\ s.pipeline \in Seq(Batches)
      /\ Matching(a.down, a.up, s.pipeline, lg)
      /\ a.idleness_timer => s.pipeline = <<>>
  BY <1>0, <1>1 DEF TokensCurrent, Answering, Ready, RemoteStore, Messages
<1>3. PICK g : g = WriteMutations(a, bs)
  OBVIOUS
<1>4. PICK f : f = FillWritePipeline(s, q)
  OBVIOUS
<1>5. f = StartIfNeeded(IF g.pipeline = <<>> THEN MarkIdle(g) ELSE g)
  BY <1>0, <1>1, <1>2, <1>3, <1>4 DEF FillWritePipeline, Added, IsOpen
<1>6. CASE bs = <<>>
  <2>1. g = a
    BY <1>2, <1>3, <1>6 DEF WriteMutations, WriteAll, HardAssert
  <2>2. a.pipeline = s.pipeline
    BY <1>1, <1>2, <1>6, NothingAdded
  <2>3. CASE a.pipeline = <<>>
    <3>1. PICK t \in RemoteStore :
            /\ t = MarkIdle(a) /\ t.idleness_timer
            /\ t.is_network_enabled = a.is_network_enabled /\ t.pipeline = a.pipeline
            /\ t.handshake_complete = a.handshake_complete /\ t.state = a.state
            /\ t.close_count = a.close_count /\ t.tokens = a.tokens /\ t.up = a.up
            /\ t.down = a.down /\ t.failed = a.failed
      BY <1>2, MarkIdleSets
    <3>2. f = t
      BY <1>2, <1>5, <2>1, <2>3, <3>1
         DEF StartIfNeeded, ShouldStartWriteStream, IsStarted
    <3>3. Front(t, q) /\ TokensCurrent(t) /\ Answering(t, lg) /\ Ready(t)
      BY <1>1, <1>2, <2>2, <2>3, <3>1 DEF Front, TokensCurrent, Answering, Ready
    <3>4. Working(t, q, lg)
      BY <1>0, <1>1, <1>2, <3>1, <3>3 DEF Working, WireDown, Shaking, Ready
    <3> QED
      BY <1>4, <3>2, <3>3, <3>4
  <2>4. CASE a.pipeline # <<>>
    <3>1. f = a
      BY <1>2, <1>5, <2>1, <2>4 DEF StartIfNeeded, ShouldStartWriteStream, IsStarted
    <3>2. Answering(a, lg) /\ Ready(a)
      BY <1>2, <2>2 DEF Answering, Ready
    <3>3. Working(a, q, lg)
      BY <1>0, <1>1, <1>2, <3>2 DEF Working, WireDown, Shaking, Ready
    <3> QED
      BY <1>4, <3>1, <3>2, <3>3
  <2> QED
    BY <2>3, <2>4
<1>7. CASE bs # <<>>
  <2>1. g = WriteAll(a, bs)
    BY <1>2, <1>3 DEF WriteMutations, HardAssert
  <2>2. PICK t \in RemoteStore :
            /\ t = WriteAll(a, bs) /\ ~t.idleness_timer /\ Extends(a.up, bs, t.up)
            /\ t.is_network_enabled = a.is_network_enabled /\ t.pipeline = a.pipeline
            /\ t.handshake_complete = a.handshake_complete /\ t.state = a.state
            /\ t.close_count = a.close_count /\ t.tokens = a.tokens
            /\ t.down = a.down /\ t.failed = a.failed
    BY <1>2, <1>7, WriteAllSends
  <2>3. t.pipeline # <<>>
    BY <1>1, <1>2, <1>7, <2>2 DEF Extends
  <2>4. f = t
    BY <1>2, <1>5, <2>1, <2>2, <2>3 DEF StartIfNeeded, ShouldStartWriteStream, IsStarted
  <2>5. t.up \in Seq(Messages) /\ t \in RemoteStore
    BY <2>2 DEF RemoteStore
  <2>6. Matching(t.down, t.up, t.pipeline, lg)
    BY <1>1, <1>2, <2>2, <2>5, MatchingGrows
  <2>7. Answering(t, lg) /\ Ready(t) /\ Front(t, q) /\ TokensCurrent(t)
    BY <1>1, <1>2, <2>2, <2>6 DEF Answering, Ready, Front, TokensCurrent
  <2>8. Working(t, q, lg)
    BY <1>0, <1>1, <1>2, <2>2, <2>5, <2>7 DEF Working, WireDown, Shaking, Ready
  <2> QED
    BY <1>4, <2>4, <2>7, <2>8
<1> QED
  BY <1>6, <1>7

\* The stream not being ready, what is added waits in the pipeline of a stream that is
\* started, if there is something to wait.
LEMMA FillWaiting ==
  ASSUME NEW s, NEW q \in Seq(Batches), NEW next, NEW lg, Numbered(q, next),
         Working(s, q, lg), ~Ready(s)
  PROVE  \E f : /\ f = FillWritePipeline(s, q) /\ Working(f, q, lg) /\ ~Ready(f)
                /\ f.pipeline # <<>> => IsStarted(f)
                /\ f.handshake_complete = s.handshake_complete
                /\ f.state = "Open" <=> s.state = "Open"
<1>0. /\ s \in RemoteStore /\ Front(s, q) /\ s.is_network_enabled /\ s.failed = {}
      /\ TokensCurrent(s) /\ WireDown(s) /\ Shaking(s)
      /\ IsStarted(s) => s.pipeline # <<>>
      /\ ~(s.state = "Open" /\ s.handshake_complete)
  BY DEF Working, Ready
<1>1. PICK bs \in Seq(Batches), a \in RemoteStore :
         /\ bs = NextBatches(q, s) /\ a = Added(s, q)
         /\ Front(a, q)
         /\ Extends(s.pipeline, bs, a.pipeline)
         /\ a.is_network_enabled = s.is_network_enabled
         /\ a.handshake_complete = s.handshake_complete
         /\ a.idleness_timer = s.idleness_timer
         /\ a.close_count = s.close_count /\ a.tokens = s.tokens /\ a.failed = s.failed
         /\ a.up = s.up /\ a.down = s.down /\ a.state = s.state
  BY <1>0, AddedIsFront
<1>2. /\ a \in RemoteStore /\ a.pipeline \in Seq(Batches) /\ s.pipeline \in Seq(Batches)
      /\ ~(a.state = "Open" /\ a.handshake_complete) /\ TokensCurrent(a)
      /\ a.is_network_enabled
  BY <1>0, <1>1 DEF TokensCurrent, RemoteStore
<1>3. IsStarted(a) => a.pipeline # <<>>
  <2>1. s.pipeline # <<>> => Len(s.pipeline) > 0 /\ Len(s.pipeline) \in Nat
    BY <1>2
  <2>2. s.pipeline # <<>> => a.pipeline # <<>>
    BY <1>1, <1>2, <2>1 DEF Extends
  <2> QED
    BY <1>0, <1>1, <2>2 DEF IsStarted
<1>4. PICK f : f = FillWritePipeline(s, q)
  OBVIOUS
<1>5. f = StartIfNeeded(a)
  <2>1. a.pipeline = <<>> => MarkIdle(a) = a
    BY <1>3 DEF MarkIdle, IsOpen, IsStarted
  <2>2. f = StartIfNeeded(IF a.pipeline = <<>> THEN MarkIdle(a) ELSE a)
    BY <1>0, <1>1, <1>2, <1>4 DEF FillWritePipeline, Added, IsOpen
  <2> QED
    BY <2>1, <2>2
<1>6. /\ Begun(a, f) /\ TokensCurrent(f)
      /\ a.pipeline # <<>> => IsStarted(f)
      /\ IsStarted(a) \/ a.pipeline = <<>> => f = a
      /\ f.state = "Open" <=> a.state = "Open"
  BY <1>2, <1>5, StartIfNeededStarts
<1>7. /\ f \in RemoteStore /\ f.pipeline = a.pipeline
      /\ f.is_network_enabled = s.is_network_enabled
      /\ f.handshake_complete = s.handshake_complete
      /\ f.idleness_timer = s.idleness_timer
      /\ f.up = s.up /\ f.down = s.down /\ f.failed = s.failed
      /\ f.state = "Open" <=> s.state = "Open"
  BY <1>1, <1>6 DEF Begun
<1>8. f.pipeline # <<>> => IsStarted(f)
  BY <1>6, <1>7
<1>9. IsStarted(f) => f.pipeline # <<>>
  BY <1>3, <1>6, <1>7
<1>10. Front(f, q)
  BY <1>1, <1>7 DEF Front
<1>11. WireDown(f) /\ Shaking(f)
  BY <1>0, <1>7 DEF WireDown, Shaking
<1>12. ~Ready(f)
  BY <1>0, <1>7 DEF Ready
<1>13. Working(f, q, lg)
  BY <1>0, <1>6, <1>7, <1>9, <1>10, <1>11, <1>12 DEF Working, Answering
<1> QED
  BY <1>4, <1>7, <1>8, <1>12, <1>13

\* FillWritePipeline leaves the remote store settled.
LEMMA FillSettles ==
  ASSUME NEW s, NEW q \in Seq(Batches), NEW next, NEW lg, Numbered(q, next),
         Working(s, q, lg), s.handshake_complete => s.state = "Open"
  PROVE  Settled(FillWritePipeline(s, q), q, lg)
<1>1. CASE Ready(s)
  <2>1. PICK f : f = FillWritePipeline(s, q) /\ Working(f, q, lg) /\ Ready(f)
    BY <1>1, FillReady
  <2> QED
    BY <2>1 DEF Settled, Ready, IsStarted
<1>2. CASE ~Ready(s)
  <2>1. PICK f : /\ f = FillWritePipeline(s, q) /\ Working(f, q, lg) /\ ~Ready(f)
                 /\ f.pipeline # <<>> => IsStarted(f)
                 /\ f.handshake_complete = s.handshake_complete
                 /\ f.state = "Open" <=> s.state = "Open"
    BY <1>2, FillWaiting
  <2>2. f.handshake_complete => f.state = "Open"
    BY <2>1
  <2> QED
    BY <2>1, <2>2 DEF Settled
<1> QED
  BY <1>1, <1>2

(***************************************************************************)
(* Closing the stream                                                      *)
(***************************************************************************)
\* What a stream that was closed has left.
Shut(s, t) ==
    /\ t \in RemoteStore
    /\ ~t.idleness_timer /\ t.up = <<>> /\ t.down = <<>>
    /\ t.close_count \in Nat /\ \A c \in t.tokens : c <= t.close_count
    /\ t.state \in {"Initial", "Error"} /\ TokensCurrent(t)
    /\ t.is_network_enabled = s.is_network_enabled /\ t.pipeline = s.pipeline
    /\ t.failed = s.failed

\* Close leaves nothing on the wire, and no request for credentials that would be
\* taken for a current one.
LEMMA ClosedShuts ==
  ASSUME NEW s \in RemoteStore, IsStarted(s), \A c \in s.tokens : c <= s.close_count,
         NEW state \in {"Initial", "Error"}
  PROVE  /\ Shut(s, Closed(s, state)) /\ Closed(s, state).state = state
         /\ Closed(s, state).handshake_complete = s.handshake_complete
<1>1. PICK t : t = [s EXCEPT !.idleness_timer = FALSE, !.close_count = s.close_count + 1,
                             !.up = <<>>, !.down = <<>>, !.state = state]
  OBVIOUS
<1>2. t = Closed(s, state)
  BY <1>1 DEF Closed, HardAssert
<1>3. t \in RemoteStore
  <2>1. <<>> \in Seq(Messages) /\ <<>> \in Seq(Answers)
    OBVIOUS
  <2>2. s.close_count + 1 \in Nat /\ state \in States
    BY DEF RemoteStore, States
  <2> QED
    BY <1>1, <2>1, <2>2 DEF RemoteStore
<1>4. /\ ~t.idleness_timer /\ t.up = <<>> /\ t.down = <<>> /\ t.state = state
      /\ t.close_count = s.close_count + 1 /\ t.tokens = s.tokens
      /\ t.is_network_enabled = s.is_network_enabled /\ t.pipeline = s.pipeline
      /\ t.handshake_complete = s.handshake_complete /\ t.failed = s.failed
  BY <1>1, <1>3 DEF RemoteStore
<1>5. s.close_count \in Nat /\ s.tokens \subseteq Nat
  BY DEF RemoteStore
<1>6. TokensCurrent(t) /\ \A c \in t.tokens : c <= t.close_count
  BY <1>4, <1>5 DEF TokensCurrent
<1> QED
  BY <1>2, <1>3, <1>4, <1>5, <1>6 DEF Shut

\* The handshake is forgotten, and nothing else.
LEMMA HandshakeForgotten ==
  ASSUME NEW s \in RemoteStore
  PROVE  \E t \in RemoteStore :
            /\ t = HandshakeReset(s) /\ ~t.handshake_complete
            /\ t.is_network_enabled = s.is_network_enabled /\ t.pipeline = s.pipeline
            /\ t.idleness_timer = s.idleness_timer /\ t.state = s.state
            /\ t.close_count = s.close_count /\ t.tokens = s.tokens /\ t.up = s.up
            /\ t.down = s.down /\ t.failed = s.failed
<1>1. PICK t : t = [s EXCEPT !.handshake_complete = FALSE]
  OBVIOUS
<1>2. t \in RemoteStore
  BY <1>1 DEF RemoteStore
<1>3. t = HandshakeReset(s)
  BY <1>1 DEF HandshakeReset
<1> QED
  BY <1>1, <1>2, <1>3 DEF RemoteStore

\* The handshake of a closed stream that works is forgotten.
LEMMA ResetSettles ==
  ASSUME NEW s, NEW q, NEW lg, Working(s, q, lg), s.state # "Open",
         s.pipeline # <<>> => IsStarted(s)
  PROVE  Settled(HandshakeReset(s), q, lg)
<1>1. PICK t \in RemoteStore :
            /\ t = HandshakeReset(s) /\ ~t.handshake_complete
            /\ t.is_network_enabled = s.is_network_enabled /\ t.pipeline = s.pipeline
            /\ t.idleness_timer = s.idleness_timer /\ t.state = s.state
            /\ t.close_count = s.close_count /\ t.tokens = s.tokens /\ t.up = s.up
            /\ t.down = s.down /\ t.failed = s.failed
  BY HandshakeForgotten DEF Working
<1>2. /\ s.is_network_enabled /\ s.failed = {}
      /\ Front(s, q) /\ TokensCurrent(s) /\ WireDown(s)
      /\ IsStarted(s) => s.pipeline # <<>>
  BY DEF Working, Ready
<1>3. Front(t, q) /\ TokensCurrent(t)
  BY <1>1, <1>2 DEF Front, TokensCurrent
<1>4. WireDown(t) /\ Shaking(t) /\ Answering(t, lg)
  BY <1>1, <1>2 DEF WireDown, Shaking, Answering, Ready
<1>5. IsStarted(t) <=> IsStarted(s)
  BY <1>1 DEF IsStarted
<1> QED
  BY <1>1, <1>2, <1>3, <1>4, <1>5 DEF Settled, Working

\* A closed stream works, whatever its handshake was.
LEMMA ShutWorks ==
  ASSUME NEW s, NEW t, NEW q, NEW lg, Shut(s, t), s.is_network_enabled, s.failed = {},
         Front(s, q)
  PROVE  Working(t, q, lg)
<1>1. /\ t \in RemoteStore /\ TokensCurrent(t) /\ t.state \in {"Initial", "Error"}
      /\ ~t.idleness_timer /\ t.up = <<>> /\ t.down = <<>>
      /\ t.is_network_enabled /\ t.failed = {} /\ t.pipeline = s.pipeline
  BY DEF Shut
<1>2. Front(t, q) /\ WireDown(t) /\ Shaking(t) /\ Answering(t, lg) /\ ~IsStarted(t)
  BY <1>1 DEF Front, WireDown, Shaking, Answering, Ready, IsStarted
<1> QED
  BY <1>1, <1>2 DEF Working

\* A start, if one is needed, of a closed stream that works.
LEMMA StartWorks ==
  ASSUME NEW s, NEW q, NEW lg, Working(s, q, lg), s.state # "Open"
  PROVE  /\ Working(StartIfNeeded(s), q, lg) /\ StartIfNeeded(s).state # "Open"
         /\ StartIfNeeded(s).pipeline # <<>> => IsStarted(StartIfNeeded(s))
<1>0. /\ s \in RemoteStore /\ s.is_network_enabled /\ s.failed = {}
      /\ Front(s, q) /\ TokensCurrent(s) /\ WireDown(s)
      /\ IsStarted(s) => s.pipeline # <<>>
  BY DEF Working, Ready
<1>1. PICK t : t = StartIfNeeded(s)
  OBVIOUS
<1>2. /\ Begun(s, t) /\ TokensCurrent(t)
      /\ s.pipeline # <<>> => IsStarted(t)
      /\ IsStarted(s) \/ s.pipeline = <<>> => t = s
      /\ t.state # "Open"
  BY <1>0, <1>1, StartIfNeededStarts
<1>3. /\ t \in RemoteStore /\ t.pipeline = s.pipeline /\ t.is_network_enabled
      /\ t.idleness_timer = s.idleness_timer /\ t.up = s.up /\ t.down = s.down
      /\ t.failed = {}
  BY <1>0, <1>2 DEF Begun
<1>4. Front(t, q) /\ WireDown(t) /\ Shaking(t) /\ Answering(t, lg)
  BY <1>0, <1>2, <1>3 DEF Front, WireDown, Shaking, Answering, Ready
<1>5. IsStarted(t) => t.pipeline # <<>>
  BY <1>0, <1>2, <1>3
<1> QED
  BY <1>1, <1>2, <1>3, <1>4, <1>5 DEF Working

\* An error that no write is to blame for leaves the remote store settled.
LEMMA FailedSettles ==
  ASSUME NEW s \in RemoteStore, NEW q, NEW lg, IsStarted(s), s.is_network_enabled,
         s.failed = {}, Front(s, q), \A c \in s.tokens : c <= s.close_count
  PROVE  Settled(Failed(s), q, lg)
<1>1. PICK c : c = Closed(s, "Error")
  OBVIOUS
<1>2. Shut(s, c)
  BY <1>1, ClosedShuts
<1>3. Working(c, q, lg) /\ c.state # "Open"
  BY <1>2, ShutWorks DEF Shut
<1>4. Settled(HandshakeReset(StartIfNeeded(c)), q, lg)
  BY <1>3, StartWorks, ResetSettles
<1> QED
  BY <1>1, <1>4 DEF Failed

\* An idle stream is stopped, and may be: nobody needs it.
LEMMA IdleStopSettles ==
  ASSUME NEW s, NEW q, NEW lg, Settled(s, q, lg), s.idleness_timer
  PROVE  Settled(Stop(s), q, lg)
<1>0. /\ s \in RemoteStore /\ s.is_network_enabled /\ s.failed = {}
      /\ Front(s, q) /\ TokensCurrent(s)
  BY DEF Settled, Working
<1>1. s.pipeline = <<>> /\ IsStarted(s)
  BY DEF Settled, Working, WireDown, Shaking, Answering, Ready, IsStarted
<1>2. PICK c : c = Closed(s, "Initial")
  OBVIOUS
<1>3. Shut(s, c)
  BY <1>0, <1>1, <1>2, ClosedShuts DEF TokensCurrent
<1>4. Working(c, q, lg) /\ c.state # "Open" /\ c.pipeline = <<>>
  BY <1>0, <1>1, <1>3, ShutWorks DEF Shut
<1>5. HardAssert(c, ~ShouldStartWriteStream(c), "StillNeeded") = c
  BY <1>4 DEF HardAssert, ShouldStartWriteStream
<1>6. StartIfNeeded(c) = c
  BY <1>4 DEF StartIfNeeded, ShouldStartWriteStream
<1>7. Stop(s) = HandshakeReset(c)
  BY <1>1, <1>2, <1>5, <1>6 DEF Stop
<1> QED
  BY <1>4, <1>7, ResetSettles

\* The network is switched off and on again, for the queue q2.
LEMMA RestartSettles ==
  ASSUME NEW s, NEW q, NEW lg, Settled(s, q, lg), NEW q2 \in Seq(Batches), NEW next,
         Numbered(q2, next)
  PROVE  Settled(RestartNetwork(s, q2), q2, lg)
<1>0. /\ s \in RemoteStore /\ s.failed = {} /\ TokensCurrent(s) /\ WireDown(s)
      /\ s.handshake_complete => s.state = "Open"
  BY DEF Settled, Working
<1>1. PICK e : e = [s EXCEPT !.is_network_enabled = FALSE]
  OBVIOUS
<1>2. e \in RemoteStore
  BY <1>0, <1>1 DEF RemoteStore
<1>3. /\ ~e.is_network_enabled /\ e.pipeline = s.pipeline /\ e.state = s.state
      /\ e.handshake_complete = s.handshake_complete
      /\ e.idleness_timer = s.idleness_timer
      /\ e.close_count = s.close_count /\ e.tokens = s.tokens /\ e.up = s.up
      /\ e.down = s.down /\ e.failed = {}
  BY <1>0, <1>1, <1>2 DEF RemoteStore
<1>4. PICK t : t = Stop(e)
  OBVIOUS
<1>5. /\ t \in RemoteStore /\ ~t.handshake_complete /\ ~IsStarted(t) /\ ~t.idleness_timer
      /\ t.up = <<>> /\ t.down = <<>> /\ t.failed = {}
      /\ \A c \in t.tokens : c <= t.close_count
      /\ t.close_count \notin t.tokens
  <2>1. CASE IsStarted(e)
    <3>1. PICK c : c = Closed(e, "Initial")
      OBVIOUS
    <3>2. Shut(e, c) /\ c.state = "Initial"
      BY <1>0, <1>2, <1>3, <2>1, <3>1, ClosedShuts DEF TokensCurrent
    <3>3. ~c.is_network_enabled
      BY <1>3, <3>2 DEF Shut
    <3>4. HardAssert(c, ~ShouldStartWriteStream(c), "StillNeeded") = c
      BY <3>3 DEF HardAssert, ShouldStartWriteStream
    <3>5. StartIfNeeded(c) = c
      BY <3>3 DEF StartIfNeeded, ShouldStartWriteStream
    <3>6. t = HandshakeReset(c)
      BY <1>4, <2>1, <3>1, <3>4, <3>5 DEF Stop
    <3>7. c \in RemoteStore
      BY <3>2 DEF Shut
    <3>8. PICK r \in RemoteStore :
            /\ r = HandshakeReset(c) /\ ~r.handshake_complete
            /\ r.is_network_enabled = c.is_network_enabled /\ r.pipeline = c.pipeline
            /\ r.idleness_timer = c.idleness_timer /\ r.state = c.state
            /\ r.close_count = c.close_count /\ r.tokens = c.tokens /\ r.up = c.up
            /\ r.down = c.down /\ r.failed = c.failed
      BY <3>7, HandshakeForgotten
    <3> QED
      BY <1>3, <3>2, <3>6, <3>8 DEF Shut, TokensCurrent, IsStarted
  <2>2. CASE ~IsStarted(e)
    <3>1. t = e
      BY <1>4, <2>2 DEF Stop
    <3>2. s.state # "Open" /\ s.state # "Starting"
      BY <1>3, <2>2 DEF IsStarted
    <3>3. ~e.handshake_complete /\ ~e.idleness_timer
      BY <1>0, <1>3, <3>2 DEF WireDown
    <3> QED
      BY <1>0, <1>2, <1>3, <2>2, <3>1, <3>2, <3>3 DEF WireDown, TokensCurrent
  <2> QED
    BY <2>1, <2>2
<1>6. PICK z : z = [t EXCEPT !.pipeline = <<>>]
  OBVIOUS
<1>7. z \in RemoteStore
  <2>1. <<>> \in Seq(Batches)
    OBVIOUS
  <2> QED
    BY <1>5, <1>6, <2>1 DEF RemoteStore
<1>8. /\ z.state = t.state /\ z.pipeline = <<>>
      /\ z.handshake_complete = t.handshake_complete /\ z.idleness_timer = t.idleness_timer
      /\ z.up = t.up /\ z.down = t.down /\ z.failed = t.failed
      /\ z.tokens = t.tokens /\ z.close_count = t.close_count
  BY <1>5, <1>6, <1>7 DEF RemoteStore
<1>9. PICK y : y = [z EXCEPT !.state = "Initial"]
  OBVIOUS
<1>10. /\ y \in RemoteStore /\ y = InhibitBackoff(z)
       /\ y.state = "Initial" /\ y.pipeline = z.pipeline
       /\ y.handshake_complete = z.handshake_complete /\ y.idleness_timer = z.idleness_timer
       /\ y.up = z.up /\ y.down = z.down /\ y.failed = z.failed
       /\ y.tokens = z.tokens /\ y.close_count = z.close_count
  <2>1. y \in RemoteStore
    BY <1>7, <1>9 DEF RemoteStore, States
  <2>2. y = InhibitBackoff(z)
    BY <1>5, <1>8, <1>9 DEF InhibitBackoff, HardAssert, IsStarted
  <2> QED
    BY <1>7, <1>9, <2>1, <2>2 DEF RemoteStore
<1>11. PICK r : r = [y EXCEPT !.is_network_enabled = TRUE]
  OBVIOUS
<1>12. /\ r \in RemoteStore
       /\ r.state = "Initial" /\ r.pipeline = <<>> /\ r.is_network_enabled
       /\ r.handshake_complete = z.handshake_complete /\ r.idleness_timer = z.idleness_timer
       /\ r.up = z.up /\ r.down = z.down /\ r.failed = z.failed
       /\ r.tokens = z.tokens /\ r.close_count = z.close_count
  <2>1. r \in RemoteStore
    BY <1>10, <1>11 DEF RemoteStore
  <2> QED
    BY <1>8, <1>10, <1>11, <2>1 DEF RemoteStore
<1>13. /\ ~r.handshake_complete /\ ~r.idleness_timer
       /\ r.up = <<>> /\ r.down = <<>> /\ r.failed = {}
  BY <1>5, <1>8, <1>12
<1>14. TokensCurrent(r)
  BY <1>5, <1>8, <1>12 DEF TokensCurrent
<1>15. Front(r, q2)
  BY <1>12, CapacityAssumption DEF Front
<1>16. WireDown(r) /\ Shaking(r) /\ Answering(r, lg) /\ ~IsStarted(r)
  BY <1>12, <1>13 DEF WireDown, Shaking, Answering, Ready, IsStarted
<1>17. Working(r, q2, lg)
  BY <1>12, <1>13, <1>14, <1>15, <1>16 DEF Working
<1>18. RestartNetwork(s, q2) = FillWritePipeline(r, q2)
  BY <1>1, <1>4, <1>6, <1>10, <1>11 DEF RestartNetwork
<1> QED
  BY <1>13, <1>17, <1>18, FillSettles

(***************************************************************************)
(* Opening the stream                                                      *)
(***************************************************************************)
\* The backoff is over: credentials are asked for.
LEMMA BackoffSettles ==
  ASSUME NEW s, NEW q, NEW lg, Settled(s, q, lg), s.state = "Backoff"
  PROVE  Settled(BackoffOver(s), q, lg)
<1>0. /\ s \in RemoteStore /\ s.is_network_enabled /\ s.failed = {}
      /\ Front(s, q) /\ TokensCurrent(s) /\ ~s.handshake_complete /\ s.pipeline # <<>>
      /\ s.up = <<>> /\ s.down = <<>> /\ ~s.idleness_timer
  BY DEF Settled, Working, WireDown, IsStarted, Ready
<1>1. PICK i : i = [s EXCEPT !.state = "Initial"]
  OBVIOUS
<1>2. i \in RemoteStore
  BY <1>0, <1>1 DEF RemoteStore, States
<1>3. /\ i.state = "Initial" /\ i.is_network_enabled = s.is_network_enabled
      /\ i.pipeline = s.pipeline
      /\ i.handshake_complete = s.handshake_complete
      /\ i.idleness_timer = s.idleness_timer
      /\ i.close_count = s.close_count /\ i.tokens = s.tokens /\ i.up = s.up
      /\ i.down = s.down /\ i.failed = s.failed
  BY <1>0, <1>1, <1>2 DEF RemoteStore
<1>4. PICK t : t = Start(i)
  OBVIOUS
<1>5. Begun(i, t) /\ t.state = "Starting" /\ t.tokens = i.tokens \cup {i.close_count}
  BY <1>2, <1>3, <1>4, StartBegins
<1>6. /\ t \in RemoteStore /\ t.is_network_enabled /\ t.failed = {}
      /\ t.pipeline = s.pipeline /\ ~t.handshake_complete /\ ~t.idleness_timer
      /\ t.up = <<>> /\ t.down = <<>>
      /\ t.close_count = s.close_count /\ t.tokens = s.tokens \cup {s.close_count}
  BY <1>0, <1>3, <1>5 DEF Begun
<1>7. s.close_count \in Nat
  BY <1>0 DEF RemoteStore
<1>8. TokensCurrent(t)
  BY <1>0, <1>5, <1>6, <1>7 DEF TokensCurrent
<1>9. Front(t, q) /\ WireDown(t) /\ Shaking(t) /\ Answering(t, lg) /\ IsStarted(t)
  BY <1>0, <1>5, <1>6 DEF Front, WireDown, Shaking, Answering, Ready, IsStarted
<1>10. t = BackoffOver(s)
  BY <1>1, <1>4 DEF BackoffOver
<1> QED
  BY <1>0, <1>6, <1>8, <1>9, <1>10 DEF Settled, Working

\* Credentials that are out of date change nothing but the requests for them.
LEMMA StaleCredentialsSettle ==
  ASSUME NEW s, NEW q, NEW lg, Settled(s, q, lg), NEW c \in s.tokens, ~UpToDate(s, c)
  PROVE  Settled(Credentials(s, c), q, lg)
<1>0. /\ s \in RemoteStore /\ Front(s, q) /\ TokensCurrent(s) /\ WireDown(s) /\ Shaking(s)
      /\ Answering(s, lg)
  BY DEF Settled, Working
<1>1. PICK t : t = [s EXCEPT !.tokens = s.tokens \ {c}]
  OBVIOUS
<1>2. t \in RemoteStore
  BY <1>0, <1>1 DEF RemoteStore
<1>3. /\ t.state = s.state /\ t.is_network_enabled = s.is_network_enabled
      /\ t.pipeline = s.pipeline
      /\ t.handshake_complete = s.handshake_complete
      /\ t.idleness_timer = s.idleness_timer
      /\ t.close_count = s.close_count /\ t.tokens = s.tokens \ {c} /\ t.up = s.up
      /\ t.down = s.down /\ t.failed = s.failed
  BY <1>0, <1>1, <1>2 DEF RemoteStore
<1>4. t = Credentials(s, c)
  BY <1>1 DEF Credentials
<1>5. TokensCurrent(t)
  BY <1>0, <1>3 DEF TokensCurrent, UpToDate
<1>6. Front(t, q) /\ WireDown(t) /\ Shaking(t) /\ Answering(t, lg)
  BY <1>0, <1>3 DEF Front, WireDown, Shaking, Answering, Ready
<1>7. (IsStarted(t) <=> IsStarted(s)) /\ (Ready(t) <=> Ready(s))
  BY <1>3 DEF IsStarted, Ready
<1> QED
  BY <1>2, <1>3, <1>4, <1>5, <1>6, <1>7 DEF Settled, Working

\* Current credentials find the stream waiting for them.
LEMMA CurrentCredentials ==
  ASSUME NEW s, NEW q, NEW lg, Settled(s, q, lg), NEW c \in s.tokens, UpToDate(s, c)
  PROVE  \E t \in RemoteStore :
            /\ t = Credentials(s, c) /\ t.state = "Starting"
            /\ t.is_network_enabled /\ t.pipeline = s.pipeline /\ t.pipeline # <<>>
            /\ ~t.handshake_complete /\ ~t.idleness_timer
            /\ t.up = <<>> /\ t.down = <<>> /\ t.failed = {}
            /\ t.close_count \notin t.tokens
            /\ \A d \in t.tokens : d <= t.close_count
<1>0. /\ s \in RemoteStore /\ s.is_network_enabled /\ s.failed = {} /\ TokensCurrent(s)
      /\ s.state = "Starting"
  BY DEF Settled, Working, TokensCurrent, UpToDate
<1>1. /\ s.pipeline # <<>> /\ ~s.handshake_complete /\ ~s.idleness_timer
      /\ s.up = <<>> /\ s.down = <<>>
  BY <1>0 DEF Settled, Working, WireDown, IsStarted, Ready
<1>2. PICK t : t = [s EXCEPT !.tokens = s.tokens \ {c}]
  OBVIOUS
<1>3. t \in RemoteStore
  BY <1>0, <1>2 DEF RemoteStore
<1>4. /\ t.state = s.state /\ t.is_network_enabled = s.is_network_enabled
      /\ t.pipeline = s.pipeline
      /\ t.handshake_complete = s.handshake_complete
      /\ t.idleness_timer = s.idleness_timer
      /\ t.close_count = s.close_count /\ t.tokens = s.tokens \ {c} /\ t.up = s.up
      /\ t.down = s.down /\ t.failed = s.failed
  BY <1>0, <1>2, <1>3 DEF RemoteStore
<1>5. t = Credentials(s, c)
  BY <1>0, <1>2, <1>4 DEF Credentials, HardAssert
<1>6. t.close_count \notin t.tokens /\ \A d \in t.tokens : d <= t.close_count
  BY <1>0, <1>4 DEF UpToDate, TokensCurrent
<1> QED
  BY <1>0, <1>1, <1>3, <1>4, <1>5, <1>6

\* With current credentials the stream opens, and the handshake is sent.
LEMMA OpenSettles ==
  ASSUME NEW s, NEW q, NEW lg, Settled(s, q, lg), NEW c \in s.tokens, UpToDate(s, c)
  PROVE  Settled(WriteAll(Opened(Credentials(s, c)), <<Handshake>>), q, lg)
<1>1. PICK t \in RemoteStore :
            /\ t = Credentials(s, c) /\ t.state = "Starting"
            /\ t.is_network_enabled /\ t.pipeline = s.pipeline /\ t.pipeline # <<>>
            /\ ~t.handshake_complete /\ ~t.idleness_timer
            /\ t.up = <<>> /\ t.down = <<>> /\ t.failed = {}
            /\ t.close_count \notin t.tokens
            /\ \A d \in t.tokens : d <= t.close_count
  BY CurrentCredentials
<1>2. PICK o : o = [t EXCEPT !.state = "Open"]
  OBVIOUS
<1>3. o \in RemoteStore
  BY <1>1, <1>2 DEF RemoteStore, States
<1>4. /\ o.state = "Open" /\ o.is_network_enabled = t.is_network_enabled
      /\ o.pipeline = t.pipeline
      /\ o.handshake_complete = t.handshake_complete
      /\ o.idleness_timer = t.idleness_timer
      /\ o.close_count = t.close_count /\ o.tokens = t.tokens /\ o.up = t.up
      /\ o.down = t.down /\ o.failed = t.failed
  BY <1>1, <1>2, <1>3 DEF RemoteStore
<1>5. o = Opened(Credentials(s, c))
  BY <1>1, <1>2 DEF Opened
<1>6. PICK ms : ms = <<Handshake>>
  OBVIOUS
<1>7. ms \in Seq(Messages) /\ ms # <<>> /\ Len(ms) = 1
  BY <1>6 DEF Messages
<1>8. PICK r \in RemoteStore :
            /\ r = WriteAll(o, ms) /\ ~r.idleness_timer /\ Extends(o.up, ms, r.up)
            /\ r.is_network_enabled = o.is_network_enabled /\ r.pipeline = o.pipeline
            /\ r.handshake_complete = o.handshake_complete /\ r.state = o.state
            /\ r.close_count = o.close_count /\ r.tokens = o.tokens
            /\ r.down = o.down /\ r.failed = o.failed
  BY <1>3, <1>4, <1>7, WriteAllSends
<1>9. r.up = ms
  <2>1. r.up \in Seq(Messages) /\ Len(r.up) = 1 /\ r.up[1] = ms[1]
    BY <1>1, <1>4, <1>7, <1>8 DEF Extends, RemoteStore
  <2> QED
    BY <1>7, <2>1
<1>10. Front(r, q) /\ TokensCurrent(r)
  BY <1>1, <1>4, <1>8 DEF Settled, Working, Front, TokensCurrent
<1>11. /\ r.state = "Open" /\ ~r.handshake_complete /\ ~r.idleness_timer
       /\ r.up = <<Handshake>> /\ r.down = <<>> /\ r.pipeline # <<>>
       /\ r.is_network_enabled /\ r.failed = {}
  BY <1>1, <1>4, <1>6, <1>8, <1>9
<1>12. WireDown(r) /\ Shaking(r) /\ Answering(r, lg) /\ IsStarted(r)
  BY <1>11 DEF WireDown, Shaking, Answering, Ready, IsStarted
<1> QED
  BY <1>5, <1>6, <1>8, <1>10, <1>11, <1>12 DEF Settled, Working

\* Credentials that could not be had: the stream fails.
LEMMA NoCredentialsSettle ==
  ASSUME NEW s, NEW q, NEW lg, Settled(s, q, lg), NEW c \in s.tokens, UpToDate(s, c)
  PROVE  Settled(Failed(Credentials(s, c)), q, lg)
<1>1. PICK t \in RemoteStore :
            /\ t = Credentials(s, c) /\ t.state = "Starting"
            /\ t.is_network_enabled /\ t.pipeline = s.pipeline /\ t.pipeline # <<>>
            /\ ~t.handshake_complete /\ ~t.idleness_timer
            /\ t.up = <<>> /\ t.down = <<>> /\ t.failed = {}
            /\ t.close_count \notin t.tokens
            /\ \A d \in t.tokens : d <= t.close_count
  BY CurrentCredentials
<1>2. Front(t, q) /\ IsStarted(t)
  BY <1>1 DEF Settled, Working, Front, IsStarted
<1> QED
  BY <1>1, <1>2, FailedSettles

(***************************************************************************)
(* Messages                                                                *)
(***************************************************************************)
\* A message on the wire is the handshake before the handshake is over, and an answer
\* that is in keeping with the server afterwards.
LEMMA ReceivedWhen ==
  ASSUME NEW s, NEW q, NEW lg, Settled(s, q, lg), s.down # <<>>
  PROVE  /\ Head(s.down) = "handshake" =>
               /\ s.state = "Open" /\ ~s.handshake_complete
               /\ s.up = <<>> /\ s.down = <<"handshake">>
         /\ Head(s.down) # "handshake" =>
               /\ Ready(s) /\ s.pipeline # <<>>
               /\ Judged(Head(s.down), Head(s.pipeline).write, lg)
               /\ Matching(Tail(s.down), s.up, Tail(s.pipeline), lg)
<1>1. /\ s.down \in Seq(Answers) /\ s.up \in Seq(Messages) /\ s.pipeline \in Seq(Batches)
      /\ s.state = "Open" /\ Shaking(s) /\ Answering(s, lg)
  BY DEF Settled, Working, WireDown, RemoteStore
<1>2. CASE Ready(s)
  <2>1. Matching(s.down, s.up, s.pipeline, lg)
    BY <1>1, <1>2 DEF Answering
  <2>2. /\ s.pipeline # <<>> /\ Judged(Head(s.down), Head(s.pipeline).write, lg)
        /\ Matching(Tail(s.down), s.up, Tail(s.pipeline), lg)
    BY <1>1, <2>1, MatchingAnswered
  <2>3. Head(s.down) # "handshake"
    BY <2>2 DEF Judged
  <2> QED
    BY <1>2, <2>2, <2>3
<1>3. CASE ~Ready(s)
  <2>1. ~s.handshake_complete /\ s.up = <<>> /\ s.down = <<"handshake">>
    BY <1>1, <1>3 DEF Ready, Shaking
  <2>2. Head(s.down) = "handshake"
    BY <2>1
  <2> QED
    BY <1>1, <2>1, <2>2
<1> QED
  BY <1>2, <1>3

\* The handshake is over: the whole pipeline is sent.
LEMMA HandshakeSettles ==
  ASSUME NEW s, NEW q, NEW lg, Settled(s, q, lg), s.down # <<>>,
         Head(s.down) = "handshake"
  PROVE  Settled(SendPipeline([Read(s) EXCEPT !.handshake_complete = TRUE]), q, lg)
<1>0. /\ s \in RemoteStore /\ s.is_network_enabled /\ s.failed = {}
      /\ Front(s, q) /\ TokensCurrent(s)
  BY DEF Settled, Working
<1>1. /\ s.state = "Open" /\ ~s.handshake_complete
      /\ s.up = <<>> /\ s.down = <<"handshake">>
  BY ReceivedWhen
<1>2. s.pipeline # <<>>
  BY <1>1 DEF Settled, Working, IsStarted, Ready
<1>3. PICK d : d = [s EXCEPT !.down = Tail(s.down)]
  OBVIOUS
<1>4. Tail(s.down) = <<>> /\ <<>> \in Seq(Answers)
  BY <1>1
<1>5. d \in RemoteStore
  BY <1>0, <1>3, <1>4 DEF RemoteStore
<1>6. /\ d.state = s.state /\ d.is_network_enabled = s.is_network_enabled
      /\ d.pipeline = s.pipeline
      /\ d.close_count = s.close_count /\ d.tokens = s.tokens /\ d.up = s.up
      /\ d.down = <<>> /\ d.failed = s.failed
  BY <1>0, <1>3, <1>4, <1>5 DEF RemoteStore
<1>7. PICK h : h = [d EXCEPT !.handshake_complete = TRUE]
  OBVIOUS
<1>8. h \in RemoteStore
  BY <1>5, <1>7 DEF RemoteStore
<1>9. /\ h.state = "Open" /\ h.is_network_enabled /\ h.pipeline = s.pipeline
      /\ h.handshake_complete /\ h.up = <<>> /\ h.down = <<>> /\ h.failed = {}
      /\ h.close_count = s.close_count /\ h.tokens = s.tokens
  BY <1>0, <1>1, <1>5, <1>6, <1>7, <1>8 DEF RemoteStore
<1>10. PICK ms : ms = h.pipeline
  OBVIOUS
<1>11. ms \in Seq(Batches) /\ ms \in Seq(Messages) /\ ms # <<>> /\ h.state = "Open"
  BY <1>2, <1>8, <1>9, <1>10 DEF RemoteStore, Messages
<1>12. PICK r \in RemoteStore :
            /\ r = WriteAll(h, ms) /\ ~r.idleness_timer /\ Extends(h.up, ms, r.up)
            /\ r.is_network_enabled = h.is_network_enabled /\ r.pipeline = h.pipeline
            /\ r.handshake_complete = h.handshake_complete /\ r.state = h.state
            /\ r.close_count = h.close_count /\ r.tokens = h.tokens
            /\ r.down = h.down /\ r.failed = h.failed
  BY <1>8, <1>11, WriteAllSends
<1>13. r = SendPipeline([Read(s) EXCEPT !.handshake_complete = TRUE])
  BY <1>3, <1>7, <1>9, <1>10, <1>12 DEF SendPipeline, WriteMutations, HardAssert, Read
<1>14. Matching(r.down, r.up, r.pipeline, lg)
  <2>1. /\ Len(r.up) = Len(r.pipeline) /\ Len(r.down) = 0 /\ Len(r.up) \in Nat
        /\ \A i \in 1..Len(r.up) : r.up[i] = r.pipeline[i]
    <3>1. Len(h.up) = 0 /\ Len(ms) \in Nat /\ r.pipeline = ms
      BY <1>9, <1>10, <1>11, <1>12
    <3>2. Len(r.up) = 0 + Len(ms) /\ \A i \in 1..Len(ms) : r.up[0 + i] = ms[i]
      BY <1>12, <3>1 DEF Extends
    <3> QED
      BY <1>9, <1>12, <3>1, <3>2
  <2> QED
    BY <2>1 DEF Matching
<1>15. Ready(r) /\ Answering(r, lg)
  BY <1>9, <1>12, <1>14 DEF Ready, Answering
<1>16. Front(r, q) /\ TokensCurrent(r) /\ WireDown(r) /\ Shaking(r) /\ IsStarted(r)
  <2>1. Front(r, q)
    BY <1>0, <1>9, <1>12 DEF Front
  <2>2. TokensCurrent(r)
    BY <1>0, <1>1, <1>9, <1>12 DEF TokensCurrent
  <2> QED
    BY <1>9, <1>12, <2>1, <2>2 DEF WireDown, Shaking, IsStarted
<1> QED
  BY <1>9, <1>12, <1>13, <1>15, <1>16 DEF Settled, Working, Ready

(***************************************************************************)
(* The first write of the queue                                            *)
(***************************************************************************)
\* What is left of a queue in order is in order.
LEMMA TailNumbered ==
  ASSUME NEW q \in Seq(Batches), NEW next, Numbered(q, next), q # <<>>
  PROVE  Tail(q) \in Seq(Batches) /\ Numbered(Tail(q), next)
<1>1. PICK r : r = Tail(q)
  OBVIOUS
<1>2. /\ r \in Seq(Batches) /\ Len(q) \in Nat /\ Len(r) = Len(q) - 1
      /\ \A i \in 1..Len(r) : i + 1 \in 1..Len(q) /\ r[i] = q[i + 1]
  BY <1>1
<1>3. \A i \in 1..Len(r) : r[i].id > 0 /\ r[i].id < next
  BY <1>2 DEF Numbered
<1>4. \A i, j \in 1..Len(r) : i < j => r[i].id < r[j].id
  <2> SUFFICES ASSUME NEW i \in 1..Len(r), NEW j \in 1..Len(r), i < j
               PROVE  r[i].id < r[j].id
    OBVIOUS
  <2>1. i + 1 \in 1..Len(q) /\ j + 1 \in 1..Len(q) /\ i + 1 < j + 1
    BY <1>2
  <2>2. q[i + 1].id < q[j + 1].id
    BY <2>1 DEF Numbered
  <2> QED
    BY <1>2, <2>2
<1> QED
  BY <1>1, <1>2, <1>3, <1>4 DEF Numbered

\* The pipeline and its queue lose their first batch together.
LEMMA TailFront ==
  ASSUME NEW s, NEW t, NEW q \in Seq(Batches), s.pipeline \in Seq(Batches), s.pipeline # <<>>,
         Front(s, q), t.pipeline = Tail(s.pipeline)
  PROVE  Front(t, Tail(q)) /\ q # <<>> /\ Head(s.pipeline) = q[1]
<1>1. PICK p : p = s.pipeline
  OBVIOUS
<1>2. /\ p \in Seq(Batches) /\ p # <<>> /\ Len(p) <= Len(q) /\ Len(p) <= kMaxPendingWrites
      /\ \A i \in 1..Len(p) : p[i] = q[i]
  BY <1>1 DEF Front
<1>3. /\ Len(p) \in Nat /\ Len(p) > 0 /\ Len(q) \in Nat /\ q # <<>>
      /\ Len(Tail(p)) = Len(p) - 1 /\ Len(Tail(q)) = Len(q) - 1
      /\ Head(p) = p[1]
      /\ \A i \in 1..Len(Tail(p)) : Tail(p)[i] = p[i + 1] /\ Tail(q)[i] = q[i + 1]
  BY <1>2
<1>4. \A i \in 1..Len(Tail(p)) : i + 1 \in 1..Len(p)
  BY <1>3
<1>5. t.pipeline = Tail(p)
  BY <1>1
<1>6. kMaxPendingWrites \in Nat
  BY CapacityAssumption
<1>7. Len(Tail(p)) <= Len(Tail(q)) /\ Len(Tail(p)) <= kMaxPendingWrites
  BY <1>2, <1>3, <1>6
<1>8. Head(p) = q[1]
  BY <1>2, <1>3
<1> QED
  BY <1>1, <1>2, <1>3, <1>4, <1>5, <1>7, <1>8 DEF Front

\* A seek for the first batch of a queue ends before everything.
LEMMA WithoutFirst ==
  ASSUME Queue \in Seq(Batches), Queue # <<>>, NEW next, Numbered(Queue, next)
  PROVE  Without(Queue[1]) = Tail(Queue)
<1>1. PICK q : q = Queue
  OBVIOUS
<1>2. q \in Seq(Batches) /\ q # <<>> /\ Len(q) \in Nat /\ 1 \in 1..Len(q) /\ q[1] \in Batches
  BY <1>1
<1>3. q[1].id \in Int
  BY <1>2 DEF Batches
<1>4. \A i \in 1..Len(q) : q[i].id < q[1].id <=> i <= 0
  <2> SUFFICES ASSUME NEW i \in 1..Len(q) PROVE ~(q[i].id < q[1].id)
    BY <1>2
  <2>1. q[i] \in Batches
    BY <1>2
  <2>2. q[i].id \in Int
    BY <2>1 DEF Batches
  <2>3. i = 1 \/ q[1].id < q[i].id
    BY <1>1, <1>2 DEF Numbered
  <2> QED
    BY <1>3, <2>2, <2>3
<1>5. Seek(q, q[1].id) = 0
  <2>1. PICK id : id = q[1].id
    OBVIOUS
  <2>2. id \in Int /\ 0 \in 0..Len(q) /\ \A i \in 1..Len(q) : q[i].id < id <=> i <= 0
    BY <1>2, <1>3, <1>4, <2>1
  <2>3. Seek(q, id) = 0
    BY <1>2, <2>2, SeekFindsEnd
  <2> QED
    BY <2>1, <2>3
<1>6. Without(q[1]) = SubSeq(q, 1, 0) \o SubSeq(q, 2, Len(q))
  BY <1>1, <1>5 DEF Without
<1>7. SubSeq(q, 1, 0) = <<>>
  BY <1>2
<1>8. SubSeq(q, 2, Len(q)) = Tail(q)
  BY <1>2, TailIsSubSeq
<1>9. <<>> \o Tail(q) = Tail(q)
  BY <1>2
<1> QED
  BY <1>1, <1>6, <1>7, <1>8, <1>9

\* The first write is acknowledged: it leaves the pipeline, and others are added.
LEMMA AnsweredSettles ==
  ASSUME NEW s, NEW q \in Seq(Batches), NEW lg, NEW next, Numbered(q, next),
         Settled(s, q, lg), s.down # <<>>, Head(s.down) # "handshake"
  PROVE  Settled(FillWritePipeline([Read(s) EXCEPT !.pipeline = Tail(Read(s).pipeline)],
                                   Tail(q)), Tail(q), lg)
<1>0. /\ s \in RemoteStore /\ s.is_network_enabled /\ s.failed = {}
      /\ Front(s, q) /\ TokensCurrent(s) /\ Answering(s, lg)
      /\ s.down \in Seq(Answers) /\ s.pipeline \in Seq(Batches)
  BY DEF Settled, Working, RemoteStore
<1>1. /\ s.state = "Open" /\ s.handshake_complete /\ s.pipeline # <<>> /\ ~s.idleness_timer
      /\ Matching(Tail(s.down), s.up, Tail(s.pipeline), lg)
  BY <1>0, ReceivedWhen DEF Answering, Ready
<1>2. Tail(s.down) \in Seq(Answers) /\ Tail(s.pipeline) \in Seq(Batches)
  BY <1>0, <1>1
<1>3. PICK d : d = [s EXCEPT !.down = Tail(s.down)]
  OBVIOUS
<1>4. d \in RemoteStore
  BY <1>0, <1>2, <1>3 DEF RemoteStore
<1>5. /\ d.state = s.state /\ d.is_network_enabled = s.is_network_enabled
      /\ d.pipeline = s.pipeline /\ d.handshake_complete = s.handshake_complete
      /\ d.idleness_timer = s.idleness_timer
      /\ d.close_count = s.close_count /\ d.tokens = s.tokens /\ d.up = s.up
      /\ d.down = Tail(s.down) /\ d.failed = s.failed
  BY <1>0, <1>3, <1>4 DEF RemoteStore
<1>6. PICK t : t = [d EXCEPT !.pipeline = Tail(s.pipeline)]
  OBVIOUS
<1>7. t \in RemoteStore
  BY <1>2, <1>4, <1>6 DEF RemoteStore
<1>8. /\ t.state = "Open" /\ t.is_network_enabled /\ t.handshake_complete
      /\ ~t.idleness_timer /\ t.pipeline = Tail(s.pipeline) /\ t.failed = {}
      /\ t.close_count = s.close_count /\ t.tokens = s.tokens /\ t.up = s.up
      /\ t.down = Tail(s.down)
  BY <1>0, <1>1, <1>4, <1>5, <1>6, <1>7 DEF RemoteStore
<1>9. Front(t, Tail(q)) /\ q # <<>>
  BY <1>0, <1>1, <1>8, TailFront
<1>10. TokensCurrent(t)
  BY <1>0, <1>1, <1>8 DEF TokensCurrent
<1>11. WireDown(t) /\ Shaking(t) /\ Answering(t, lg) /\ Ready(t)
  BY <1>1, <1>8 DEF WireDown, Shaking, Answering, Ready
<1>12. Working(t, Tail(q), lg)
  BY <1>7, <1>8, <1>9, <1>10, <1>11 DEF Working
<1>13. Tail(q) \in Seq(Batches) /\ Numbered(Tail(q), next)
  BY <1>9, TailNumbered
<1>14. Settled(FillWritePipeline(t, Tail(q)), Tail(q), lg)
  BY <1>8, <1>12, <1>13, FillSettles
<1>15. t = [Read(s) EXCEPT !.pipeline = Tail(Read(s).pipeline)]
  BY <1>3, <1>5, <1>6 DEF Read
<1> QED
  BY <1>14, <1>15

\* The first write is refused: it leaves the pipeline of a stream that is closed.
LEMMA RefusedSettles ==
  ASSUME NEW s, NEW q \in Seq(Batches), NEW lg, NEW next, Numbered(q, next),
         Settled(s, q, lg), Ready(s), s.pipeline # <<>>
  PROVE  Settled(Refused(s, Tail(q)), Tail(q), lg)
<1>0. /\ s \in RemoteStore /\ s.is_network_enabled /\ s.failed = {}
      /\ Front(s, q) /\ TokensCurrent(s) /\ IsStarted(s) /\ s.pipeline \in Seq(Batches)
  BY DEF Settled, Working, Ready, IsStarted, RemoteStore
<1>1. PICK c : c = Closed(s, "Error")
  OBVIOUS
<1>2. Shut(s, c)
  BY <1>0, <1>1, ClosedShuts DEF TokensCurrent
<1>3. /\ c \in RemoteStore /\ ~c.idleness_timer /\ c.up = <<>> /\ c.down = <<>>
      /\ c.state \in {"Initial", "Error"} /\ TokensCurrent(c)
      /\ c.is_network_enabled /\ c.pipeline = s.pipeline /\ c.failed = {}
  BY <1>0, <1>2 DEF Shut
<1>4. Tail(s.pipeline) \in Seq(Batches)
  BY <1>0
<1>5. PICK p : p = [c EXCEPT !.pipeline = Tail(s.pipeline)]
  OBVIOUS
<1>6. p \in RemoteStore
  BY <1>3, <1>4, <1>5 DEF RemoteStore
<1>7. /\ p.state = c.state /\ p.is_network_enabled = c.is_network_enabled
      /\ p.pipeline = Tail(s.pipeline) /\ p.idleness_timer = c.idleness_timer
      /\ p.close_count = c.close_count /\ p.tokens = c.tokens /\ p.up = c.up
      /\ p.down = c.down /\ p.failed = c.failed
  BY <1>3, <1>5, <1>6 DEF RemoteStore
<1>8. PICK t : t = [p EXCEPT !.state = "Initial"]
  OBVIOUS
<1>9. t \in RemoteStore
  BY <1>6, <1>8 DEF RemoteStore, States
<1>10. /\ t.state = "Initial" /\ t.is_network_enabled /\ t.pipeline = Tail(s.pipeline)
       /\ ~t.idleness_timer /\ t.up = <<>> /\ t.down = <<>> /\ t.failed = {}
       /\ t.close_count = c.close_count /\ t.tokens = c.tokens
  BY <1>3, <1>6, <1>7, <1>8, <1>9 DEF RemoteStore
<1>11. t = InhibitBackoff(p)
  BY <1>3, <1>7, <1>8 DEF InhibitBackoff, HardAssert, IsStarted
<1>12. Front(t, Tail(q)) /\ q # <<>>
  BY <1>0, <1>10, TailFront
<1>13. TokensCurrent(t)
  BY <1>3, <1>10 DEF TokensCurrent
<1>14. WireDown(t) /\ Shaking(t) /\ Answering(t, lg) /\ ~IsStarted(t) /\ ~Ready(t)
  BY <1>10 DEF WireDown, Shaking, Answering, Ready, IsStarted
<1>15. Working(t, Tail(q), lg)
  BY <1>9, <1>10, <1>12, <1>13, <1>14 DEF Working
<1>16. Tail(q) \in Seq(Batches) /\ Numbered(Tail(q), next)
  BY <1>12, TailNumbered
<1>17. PICK f : /\ f = FillWritePipeline(t, Tail(q)) /\ Working(f, Tail(q), lg) /\ ~Ready(f)
                /\ f.pipeline # <<>> => IsStarted(f)
                /\ f.handshake_complete = t.handshake_complete
                /\ f.state = "Open" <=> t.state = "Open"
  BY <1>14, <1>15, <1>16, FillWaiting
<1>18. f.state # "Open"
  BY <1>10, <1>17
<1>19. Settled(HandshakeReset(StartIfNeeded(f)), Tail(q), lg)
  BY <1>17, <1>18, StartWorks, ResetSettles
<1>20. Refused(s, Tail(q)) = HandshakeReset(StartIfNeeded(f))
  BY <1>1, <1>3, <1>5, <1>11, <1>17 DEF Refused
<1> QED
  BY <1>19, <1>20

(***************************************************************************)
(* The server                                                              *)
(***************************************************************************)
\* What the server's reply leaves of the connection.
Replied(s, m) == [s EXCEPT !.up = Tail(s.up), !.down = Append(s.down, m)]

\* A reply changes the wire, and nothing else.
LEMMA ReplyFields ==
  ASSUME NEW s \in RemoteStore, s.up # <<>>, NEW m \in Answers
  PROVE  \E t \in RemoteStore :
            /\ t = Replied(s, m) /\ t.up = Tail(s.up) /\ t.down = Append(s.down, m)
            /\ t.is_network_enabled = s.is_network_enabled /\ t.pipeline = s.pipeline
            /\ t.handshake_complete = s.handshake_complete /\ t.state = s.state
            /\ t.idleness_timer = s.idleness_timer
            /\ t.close_count = s.close_count /\ t.tokens = s.tokens
            /\ t.failed = s.failed
<1>1. s.up \in Seq(Messages) /\ s.down \in Seq(Answers)
  BY DEF RemoteStore
<1>2. Tail(s.up) \in Seq(Messages) /\ Append(s.down, m) \in Seq(Answers)
  BY <1>1
<1>3. PICK u, d : u = Tail(s.up) /\ d = Append(s.down, m)
  OBVIOUS
<1>4. PICK t : t = [s EXCEPT !.up = u, !.down = d]
  OBVIOUS
<1>5. t \in RemoteStore
  BY <1>2, <1>3, <1>4 DEF RemoteStore
<1>6. t = Replied(s, m)
  BY <1>3, <1>4 DEF Replied
<1>7. /\ t.up = u /\ t.down = d
      /\ t.is_network_enabled = s.is_network_enabled /\ t.pipeline = s.pipeline
      /\ t.handshake_complete = s.handshake_complete /\ t.state = s.state
      /\ t.idleness_timer = s.idleness_timer
      /\ t.close_count = s.close_count /\ t.tokens = s.tokens
      /\ t.failed = s.failed
  BY <1>4, <1>5 DEF RemoteStore
<1> QED
  BY <1>3, <1>5, <1>6, <1>7

\* The server answers the handshake.
LEMMA ServerHandshakeSettles ==
  ASSUME NEW s, NEW q \in Seq(Batches), NEW next, Numbered(q, next), NEW lg,
         Settled(s, q, lg), s.up # <<>>, Head(s.up) = Handshake
  PROVE  Settled(Replied(s, "handshake"), q, lg)
<1>0. /\ s \in RemoteStore /\ s.is_network_enabled /\ s.failed = {}
      /\ Front(s, q) /\ TokensCurrent(s) /\ s.state = "Open" /\ Shaking(s)
      /\ s.up \in Seq(Messages) /\ s.pipeline \in Seq(Batches) /\ s.down \in Seq(Answers)
  BY DEF Settled, Working, WireDown, RemoteStore
<1>1. ~s.handshake_complete
  <2> SUFFICES ASSUME s.handshake_complete PROVE FALSE
    OBVIOUS
  <2>1. Matching(s.down, s.up, s.pipeline, lg)
    BY <1>0 DEF Settled, Working, Answering, Ready
  <2>2. /\ 1 \in 1..Len(s.up) /\ Head(s.up) = s.up[1]
        /\ Len(s.down) + 1 \in 1..Len(s.pipeline)
    <3>1. PICK k, l, m : k = Len(s.up) /\ l = Len(s.down) /\ m = Len(s.pipeline)
      OBVIOUS
    <3>2. s.up \in Seq(Messages) /\ s.up # <<>> /\ s.down \in Seq(Answers)
      BY <1>0
    <3>3. Len(s.up) \in Nat /\ Len(s.up) > 0 /\ Len(s.down) \in Nat /\ Head(s.up) = s.up[1]
      BY <3>2
    <3>4. Len(s.down) + Len(s.up) = Len(s.pipeline)
      BY <2>1 DEF Matching
    <3>5. k \in Nat /\ k > 0 /\ l \in Nat /\ l + k = m /\ Head(s.up) = s.up[1]
      BY <3>3, <3>4, <3>1
    <3>6. 1 \in 1..k /\ l + 1 \in 1..m
      BY <3>5
    <3> QED
      BY <3>1, <3>5, <3>6
  <2>3. s.up[1] = s.pipeline[Len(s.down) + 1]
    BY <2>1, <2>2 DEF Matching
  <2>4. PICK i \in 1..Len(q) : s.up[1] = q[i]
    BY <1>0, <2>2, <2>3 DEF Front
  <2>5. q[i].id > 0
    BY DEF Numbered
  <2>6. Handshake.id = 0
    BY DEF Handshake, Batch
  <2> QED
    BY <2>2, <2>4, <2>5, <2>6
<1>2. s.up = <<Handshake>> /\ s.down = <<>> /\ ~s.idleness_timer /\ s.pipeline # <<>>
  BY <1>0, <1>1 DEF Settled, Working, Shaking, IsStarted, Ready
<1>3. PICK t \in RemoteStore :
            /\ t = Replied(s, "handshake") /\ t.up = Tail(s.up)
            /\ t.down = Append(s.down, "handshake")
            /\ t.is_network_enabled = s.is_network_enabled /\ t.pipeline = s.pipeline
            /\ t.handshake_complete = s.handshake_complete /\ t.state = s.state
            /\ t.idleness_timer = s.idleness_timer
            /\ t.close_count = s.close_count /\ t.tokens = s.tokens
            /\ t.failed = s.failed
  BY <1>0, ReplyFields DEF Answers
<1>4. t.up = <<>> /\ t.down = <<"handshake">>
  BY <1>2, <1>3
<1>5. Front(t, q) /\ TokensCurrent(t)
  BY <1>0, <1>3 DEF Front, TokensCurrent
<1>6. WireDown(t) /\ Shaking(t) /\ Answering(t, lg) /\ IsStarted(t)
  BY <1>0, <1>1, <1>2, <1>3, <1>4 DEF WireDown, Shaking, Answering, Ready, IsStarted
<1> QED
  BY <1>0, <1>1, <1>2, <1>3, <1>5, <1>6 DEF Settled, Working

\* The server answers a write, in keeping with what it did.
LEMMA ServerAnswerSettles ==
  ASSUME NEW s, NEW q, NEW lg, NEW lg2, NEW m \in {"ok", "refused"},
         Settled(s, q, lg), s.up # <<>>, Head(s.up) # Handshake,
         Judged(m, Head(s.up).write, lg2),
         \A a, w : Judged(a, w, lg) => Judged(a, w, lg2)
  PROVE  Settled(Replied(s, m), q, lg2)
<1>0. /\ s \in RemoteStore /\ s.is_network_enabled /\ s.failed = {}
      /\ Front(s, q) /\ TokensCurrent(s) /\ s.state = "Open" /\ Shaking(s)
      /\ Answering(s, lg)
      /\ s.up \in Seq(Messages) /\ s.pipeline \in Seq(Batches) /\ s.down \in Seq(Answers)
  BY DEF Settled, Working, WireDown, RemoteStore
<1>1. s.handshake_complete
  <2> SUFFICES ASSUME ~s.handshake_complete PROVE FALSE
    OBVIOUS
  <2>1. s.up = <<Handshake>>
    BY <1>0 DEF Shaking
  <2> QED
    BY <2>1
<1>2. Matching(s.down, s.up, s.pipeline, lg)
  BY <1>0, <1>1 DEF Answering, Ready
<1>3. m \in Answers
  BY DEF Answers
<1>4. PICK t \in RemoteStore :
            /\ t = Replied(s, m) /\ t.up = Tail(s.up) /\ t.down = Append(s.down, m)
            /\ t.is_network_enabled = s.is_network_enabled /\ t.pipeline = s.pipeline
            /\ t.handshake_complete = s.handshake_complete /\ t.state = s.state
            /\ t.idleness_timer = s.idleness_timer
            /\ t.close_count = s.close_count /\ t.tokens = s.tokens
            /\ t.failed = s.failed
  BY <1>0, <1>3, ReplyFields
<1>5. Matching(Append(s.down, m), Tail(s.up), s.pipeline, lg2)
  BY <1>0, <1>2, <1>3, MatchingReplied
<1>6. s.idleness_timer => s.pipeline = <<>>
  BY <1>0, <1>1 DEF Answering, Ready
<1>7. Front(t, q) /\ TokensCurrent(t)
  BY <1>0, <1>4 DEF Front, TokensCurrent
<1>8. WireDown(t) /\ Shaking(t) /\ Answering(t, lg2) /\ IsStarted(t) /\ Ready(t)
  BY <1>0, <1>1, <1>4, <1>5, <1>6 DEF WireDown, Shaking, Answering, Ready, IsStarted
<1> QED
  BY <1>0, <1>1, <1>4, <1>7, <1>8 DEF Settled, Working

(***************************************************************************)
(* The operations                                                          *)
(***************************************************************************)
\* A change of user, and the next process, number batches beyond every pending one.
LEMMA NextIdAbove ==
  ASSUME NEW queues \in [Users -> Seq(Batches)], NEW next \in Nat,
         \A u \in Users : Numbered(queues[u], next)
  PROVE  /\ LoadNextBatchId(queues) \in Nat \ {0}
         /\ \A u \in Users : Numbered(queues[u], LoadNextBatchId(queues))
<1>1. PICK ids : ids = UNION {{queues[u][i].id : i \in 1..Len(queues[u])} : u \in Users}
  OBVIOUS
<1>2. \A u \in Users : \A i \in 1..Len(queues[u]) : queues[u][i].id \in ids
  BY <1>1
<1>3. ids \in SUBSET Nat /\ \A x \in ids : x < next
  <2> SUFFICES ASSUME NEW x \in ids PROVE x \in Nat /\ x < next
    OBVIOUS
  <2>0. PICK u \in Users : \E i \in 1..Len(queues[u]) : x = queues[u][i].id
    BY <1>1
  <2>1. PICK i \in 1..Len(queues[u]) : x = queues[u][i].id
    BY <2>0
  <2>2. queues[u][i] \in Batches
    OBVIOUS
  <2> QED
    BY <2>1, <2>2 DEF Numbered, Batches
<1>4. PICK n : n = LoadNextBatchId(queues)
  OBVIOUS
<1>5. n \in Nat \ {0} /\ \A x \in ids : x < n
  <2>1. CASE ids = {}
    <3>1. n = 1
      BY <1>1, <1>4, <2>1 DEF LoadNextBatchId
    <3> QED
      BY <2>1, <3>1
  <2>2. CASE ids # {}
    <3>1. \E m \in ids : \A i \in ids : i <= m
      BY <1>3, <2>2, GreatestNatural
    <3>2. PICK m : m = CHOOSE x \in ids : \A i \in ids : i <= x
      OBVIOUS
    <3>3. m \in ids /\ \A i \in ids : i <= m
      BY <3>1, <3>2
    <3>4. n = 1 + m
      BY <1>1, <1>4, <2>2, <3>2 DEF LoadNextBatchId
    <3>5. m \in Nat
      BY <1>3, <3>3
    <3>6. ASSUME NEW x \in ids PROVE x < n
      <4>1. x \in Nat /\ x <= m
        BY <1>3, <3>3
      <4> QED
        BY <3>4, <3>5, <4>1
    <3> QED
      BY <3>4, <3>5, <3>6
  <2> QED
    BY <2>1, <2>2
<1>6. \A u \in Users : Numbered(queues[u], n)
  BY <1>2, <1>5 DEF Numbered
<1> QED
  BY <1>4, <1>5, <1>6

\* A step that changes only the connection.
LEMMA RemoteStep ==
  ASSUME PipelineInv, running' = TRUE, UNCHANGED <<local, log, current_user, outcome>>,
         Settled(remote', Queue, log)
  PROVE  PipelineInv'
<1>1. /\ UNCHANGED <<mutation_queue, next_batch_id, callbacks, issued>>
      /\ UNCHANGED <<log, current_user, acked, rejected, told>>
  BY DEF local, outcome
<1>2. PipelineTypes' /\ \A u \in Users : Numbered(mutation_queue'[u], next_batch_id')
  BY <1>1 DEF PipelineInv, PipelineTypes
<1>3. CallbacksPending' /\ ToldTheTruth' /\ NoWriteLost'
  BY <1>1 DEF PipelineInv, CallbacksPending, ToldTheTruth, NoWriteLost, InQueue, InLog
<1>4. Settled(remote', Queue', log')
  BY <1>1 DEF Queue
<1> QED
  BY <1>2, <1>3, <1>4 DEF PipelineInv

\* A new remote store works for every queue: it has nothing of it yet.
LEMMA IdleWorks ==
  ASSUME NEW q \in Seq(Batches), NEW lg
  PROVE  Working(Idle, q, lg) /\ ~Idle.handshake_complete /\ Idle.pipeline = <<>>
<1>1. /\ Idle.is_network_enabled /\ Idle.pipeline = <<>> /\ ~Idle.handshake_complete
      /\ Idle.state = "Initial" /\ Idle.close_count = 0 /\ Idle.tokens = {}
      /\ ~Idle.idleness_timer /\ Idle.up = <<>> /\ Idle.down = <<>> /\ Idle.failed = {}
  BY DEF Idle
<1>2. Idle \in RemoteStore
  <2>1. <<>> \in Seq(Messages) /\ <<>> \in Seq(Answers) /\ <<>> \in Seq(Batches)
    OBVIOUS
  <2> QED
    BY <2>1 DEF Idle, RemoteStore, States
<1>3. Front(Idle, q)
  BY <1>1, CapacityAssumption DEF Front
<1>4. TokensCurrent(Idle)
  BY <1>1 DEF TokensCurrent
<1>5. WireDown(Idle) /\ Shaking(Idle) /\ Answering(Idle, lg) /\ ~IsStarted(Idle)
  BY <1>1 DEF WireDown, Shaking, Answering, Ready, IsStarted
<1> QED
  BY <1>1, <1>2, <1>3, <1>4, <1>5 DEF Working

\* The initial state satisfies the invariant: empty queues, and a stream that is stopped.
LEMMA InvInit == Init => PipelineInv
<1> SUFFICES ASSUME Init PROVE PipelineInv
  OBVIOUS
<1>1. PipelineTypes
  BY DEF Init, PipelineTypes
<1>2. Queue \in Seq(Batches) /\ remote = Idle
  BY DEF Init, Queue
<1>3. Settled(remote, Queue, log)
  BY <1>2, IdleWorks DEF Settled
<1>4. \A u \in Users : Numbered(mutation_queue[u], next_batch_id)
  BY DEF Init, Numbered
<1>5. CallbacksPending /\ ToldTheTruth /\ NoWriteLost
  BY DEF Init, CallbacksPending, ToldTheTruth, NoWriteLost
<1> QED
  BY <1>1, <1>2, <1>3, <1>4, <1>5 DEF PipelineInv

\* SyncEngine::HandleCredentialChange and the connectivity monitor.
LEMMA InvRestartNetwork ==
  ASSUME PipelineInv, ConnectivityChanged \/ \E u \in Users : HandleCredentialChange(u)
  PROVE  PipelineInv'
<1>0. /\ mutation_queue \in [Users -> Seq(Batches)] /\ next_batch_id \in Nat \ {0}
      /\ \A u \in Users : Numbered(mutation_queue[u], next_batch_id)
      /\ current_user \in Users
  BY DEF PipelineInv, PipelineTypes
<1>1. CASE ConnectivityChanged
  <2>1. /\ running' = TRUE /\ UNCHANGED <<local, log, current_user, outcome>>
        /\ remote' = RestartNetwork(remote, Queue)
    BY <1>1 DEF ConnectivityChanged, PipelineInv, PipelineTypes
  <2>2. Queue \in Seq(Batches) /\ Numbered(Queue, next_batch_id)
    BY <1>0 DEF Queue
  <2>3. Settled(remote', Queue, log)
    BY <2>1, <2>2, RestartSettles DEF PipelineInv
  <2> QED
    BY <2>1, <2>3, RemoteStep
<1>2. CASE \E u \in Users : HandleCredentialChange(u)
  <2>1. PICK u \in Users : HandleCredentialChange(u)
    BY <1>2
  <2>2. /\ running /\ current_user' = u
        /\ next_batch_id' \in {next_batch_id, LoadNextBatchId(mutation_queue)}
        /\ remote' = RestartNetwork(remote, mutation_queue[u])
        /\ UNCHANGED <<mutation_queue, callbacks, issued, log, running, acked, rejected, told>>
    BY <2>1 DEF HandleCredentialChange, outcome
  <2>3. /\ next_batch_id' \in Nat \ {0}
        /\ \A v \in Users : Numbered(mutation_queue[v], next_batch_id')
    BY <1>0, <2>2, NextIdAbove
  <2>4. PipelineTypes'
    BY <2>2, <2>3 DEF PipelineInv, PipelineTypes
  <2>5. mutation_queue[u] \in Seq(Batches) /\ Numbered(mutation_queue[u], next_batch_id)
    BY <1>0
  <2>6. Settled(remote', mutation_queue[u], log)
    BY <2>2, <2>5, RestartSettles DEF PipelineInv
  <2>7. Settled(remote', Queue', log')
    BY <2>2, <2>6 DEF Queue
  <2>8. CallbacksPending' /\ ToldTheTruth' /\ NoWriteLost'
    BY <2>2 DEF PipelineInv, CallbacksPending, ToldTheTruth, NoWriteLost, InQueue, InLog
  <2> QED
    BY <2>2, <2>3, <2>4, <2>7, <2>8 DEF PipelineInv
<1> QED
  BY <1>1, <1>2

\* The stream: credentials, backoff, idleness, errors, the handshake.
LEMMA InvStream ==
  ASSUME PipelineInv, \/ Connect \/ BackoffElapsed \/ IdleTimeout \/ StreamFails
                      \/ HandshakeComplete
  PROVE  PipelineInv'
<1>0. Settled(remote, Queue, log) /\ running \in BOOLEAN
  BY DEF PipelineInv, PipelineTypes
<1>1. running' = TRUE /\ UNCHANGED <<local, log, current_user, outcome>>
  BY <1>0 DEF Connect, CredentialsArrive, CredentialsFail, BackoffElapsed, IdleTimeout,
     StreamFails, HandshakeComplete, Receive
<1>2. Settled(remote', Queue, log)
  <2>1. CASE \E c \in remote.tokens : CredentialsArrive(c)
    <3>1. PICK c \in remote.tokens : CredentialsArrive(c)
      BY <2>1
    <3>2. CASE UpToDate(remote, c)
      <4>1. remote' = WriteAll(Opened(Credentials(remote, c)), <<Handshake>>)
        BY <3>1, <3>2 DEF CredentialsArrive
      <4> QED
        BY <1>0, <3>2, <4>1, OpenSettles
    <3>3. CASE ~UpToDate(remote, c)
      <4>1. remote' = Credentials(remote, c)
        BY <3>1, <3>3 DEF CredentialsArrive
      <4> QED
        BY <1>0, <3>3, <4>1, StaleCredentialsSettle
    <3> QED
      BY <3>2, <3>3
  <2>2. CASE \E c \in remote.tokens : CredentialsFail(c)
    BY <1>0, <2>2, NoCredentialsSettle DEF CredentialsFail
  <2>3. CASE BackoffElapsed
    BY <1>0, <2>3, BackoffSettles DEF BackoffElapsed
  <2>4. CASE IdleTimeout
    BY <1>0, <2>4, IdleStopSettles DEF IdleTimeout
  <2>5. CASE StreamFails
    <3>1. /\ remote \in RemoteStore /\ IsStarted(remote) /\ remote.is_network_enabled
          /\ remote.failed = {} /\ Front(remote, Queue)
          /\ \A c \in remote.tokens : c <= remote.close_count
      BY <1>0, <2>5 DEF StreamFails, IsOpen, IsStarted, Settled, Working, TokensCurrent
    <3>2. remote' = Failed(remote)
      BY <2>5 DEF StreamFails
    <3> QED
      BY <3>1, <3>2, FailedSettles
  <2>6. CASE HandshakeComplete
    <3>1. /\ remote.down # <<>> /\ Head(remote.down) = "handshake"
          /\ remote' = SendPipeline([Read(remote) EXCEPT !.handshake_complete = TRUE])
      BY <2>6 DEF HandshakeComplete, Receive
    <3> QED
      BY <1>0, <3>1, HandshakeSettles
  <2> QED
    BY <2>1, <2>2, <2>3, <2>4, <2>5, <2>6 DEF Connect
<1> QED
  BY <1>1, <1>2, RemoteStep

\* The next batch is numbered beyond the pending ones, of this user and of the others.
LEMMA QueueGrows ==
  ASSUME NEW q \in Seq(Batches), NEW next \in Nat \ {0}, NEW w \in Writes, Numbered(q, next)
  PROVE  /\ Append(q, Batch(next, w)) \in Seq(Batches)
         /\ Numbered(Append(q, Batch(next, w)), next + 1)
         /\ Numbered(q, next + 1)
<1>1. PICK b, r : b = Batch(next, w) /\ r = Append(q, b)
  OBVIOUS
<1>2. b \in Batches /\ b.id = next
  BY <1>1 DEF Batch, Batches
<1>3. /\ r \in Seq(Batches) /\ Len(q) \in Nat /\ Len(r) = Len(q) + 1 /\ r[Len(q) + 1] = b
      /\ \A i \in 1..Len(q) : r[i] = q[i]
  BY <1>1, <1>2
<1>4. \A i \in 1..Len(q) : q[i].id \in Nat
  <2>1. \A i \in 1..Len(q) : q[i] \in Batches
    OBVIOUS
  <2> QED
    BY <2>1 DEF Batches
<1>5. Numbered(q, next + 1)
  BY <1>4 DEF Numbered
<1>6. \A i \in 1..Len(r) : r[i].id > 0 /\ r[i].id < next + 1
  <2> SUFFICES ASSUME NEW i \in 1..Len(r) PROVE r[i].id > 0 /\ r[i].id < next + 1
    OBVIOUS
  <2>1. CASE i \in 1..Len(q)
    BY <1>3, <1>5, <2>1 DEF Numbered
  <2>2. CASE i = Len(q) + 1
    BY <1>2, <1>3, <2>2
  <2> QED
    BY <1>3, <2>1, <2>2
<1>7. \A i, j \in 1..Len(r) : i < j => r[i].id < r[j].id
  <2> SUFFICES ASSUME NEW i \in 1..Len(r), NEW j \in 1..Len(r), i < j
               PROVE  r[i].id < r[j].id
    OBVIOUS
  <2>1. i \in 1..Len(q) /\ r[i] = q[i]
    BY <1>3
  <2>2. CASE j \in 1..Len(q)
    BY <1>3, <2>1, <2>2 DEF Numbered
  <2>3. CASE j = Len(q) + 1
    BY <1>2, <1>3, <2>1, <2>3 DEF Numbered
  <2> QED
    BY <1>3, <2>2, <2>3
<1>8. Numbered(r, next + 1)
  BY <1>6, <1>7 DEF Numbered
<1> QED
  BY <1>1, <1>3, <1>5, <1>8

\* The pipeline is the front of a queue that grows at its end, too.
LEMMA StillWorks ==
  ASSUME NEW s, NEW q \in Seq(Batches), NEW b \in Batches, NEW lg, Working(s, q, lg)
  PROVE  Working(s, Append(q, b), lg)
<1>1. PICK r : r = Append(q, b)
  OBVIOUS
<1>2. /\ Len(q) \in Nat /\ Len(r) = Len(q) + 1 /\ \A i \in 1..Len(q) : r[i] = q[i]
  BY <1>1
<1>3. s.pipeline \in Seq(Batches) /\ Len(s.pipeline) \in Nat
  BY DEF Working, RemoteStore
<1>4. Front(s, r)
  <2>1. Len(s.pipeline) <= Len(q) /\ Len(s.pipeline) <= kMaxPendingWrites
    BY DEF Working, Front
  <2>2. \A i \in 1..Len(s.pipeline) : i \in 1..Len(q) /\ s.pipeline[i] = q[i]
    BY <1>2, <1>3, <2>1 DEF Working, Front
  <2>3. Len(s.pipeline) <= Len(r)
    BY <1>2, <1>3, <2>1
  <2> QED
    BY <1>2, <2>1, <2>2, <2>3 DEF Front
<1> QED
  BY <1>1, <1>4 DEF Working

\* SyncEngine::WriteMutations.
LEMMA InvWrite ==
  ASSUME PipelineInv, NEW w \in Writes, Write(w)
  PROVE  PipelineInv'
<1>0. /\ mutation_queue \in [Users -> Seq(Batches)] /\ next_batch_id \in Nat \ {0}
      /\ \A u \in Users : Numbered(mutation_queue[u], next_batch_id)
      /\ current_user \in Users /\ Settled(remote, Queue, log) /\ running
  BY DEF PipelineInv, PipelineTypes, Write
<1>1. /\ Queue \in Seq(Batches) /\ Numbered(Queue, next_batch_id)
      /\ Queue = mutation_queue[current_user]
  BY <1>0 DEF Queue
<1>2. PICK b, q : b = Batch(next_batch_id, w) /\ q = Append(Queue, b)
  OBVIOUS
<1>3. b \in Batches /\ b.id = next_batch_id /\ b.write = w
  BY <1>0, <1>2 DEF Batch, Batches
<1>4. q \in Seq(Batches) /\ Numbered(q, next_batch_id + 1)
  BY <1>0, <1>1, <1>2, QueueGrows
<1>5. /\ issued' = Append(issued, [user |-> current_user, write |-> w])
      /\ mutation_queue' = [mutation_queue EXCEPT ![current_user] = q]
      /\ next_batch_id' = next_batch_id + 1
      /\ callbacks' \in {callbacks, [callbacks EXCEPT ![current_user] =
                                        callbacks[current_user] \cup {b}]}
      /\ remote' = FillWritePipeline(remote, mutation_queue'[current_user])
      /\ UNCHANGED <<log, running, current_user, acked, rejected, told>>
  <2>1. callbacks \in [Users -> SUBSET Batches]
    BY DEF PipelineInv, PipelineTypes
  <2> QED
    BY <1>2, <2>1 DEF Write, outcome
<1>6. /\ mutation_queue' \in [Users -> Seq(Batches)] /\ mutation_queue'[current_user] = q
      /\ \A u \in Users : u # current_user => mutation_queue'[u] = mutation_queue[u]
  BY <1>0, <1>4, <1>5
<1>7. PipelineTypes'
  <2>1. [user |-> current_user, write |-> w] \in [user : Users, write : Writes]
    BY <1>0
  <2>2. issued \in Seq([user : Users, write : Writes])
    BY DEF PipelineInv, PipelineTypes
  <2>3. issued' \in Seq([user : Users, write : Writes])
    BY <1>5, <2>1, <2>2
  <2>4. callbacks' \in [Users -> SUBSET Batches]
    BY <1>3, <1>5 DEF PipelineInv, PipelineTypes
  <2>5. next_batch_id' \in Nat \ {0}
    BY <1>0, <1>5
  <2> QED
    BY <1>5, <1>6, <2>3, <2>4, <2>5 DEF PipelineInv, PipelineTypes
<1>8. ASSUME NEW u \in Users PROVE Numbered(mutation_queue'[u], next_batch_id')
  <2>1. CASE u = current_user
    BY <1>4, <1>5, <1>6, <2>1
  <2>2. CASE u # current_user
    BY <1>0, <1>5, <1>6, <2>2, QueueGrows
  <2> QED
    BY <2>1, <2>2
<1>9. Settled(remote', Queue', log')
  <2>1. Working(remote, q, log) /\ (remote.handshake_complete => remote.state = "Open")
    BY <1>0, <1>1, <1>2, <1>3, StillWorks DEF Settled
  <2>2. Settled(FillWritePipeline(remote, q), q, log)
    BY <1>4, <2>1, FillSettles
  <2> QED
    BY <1>5, <1>6, <2>2 DEF Queue
<1>10. /\ Len(q) = Len(Queue) + 1 /\ Len(Queue) \in Nat /\ q[Len(q)] = b
       /\ \A i \in 1..Len(Queue) : i \in 1..Len(q) /\ q[i] = Queue[i]
       /\ Len(q) \in 1..Len(q)
  BY <1>1, <1>2, <1>3
<1>11. ASSUME NEW u \in Users, NEW i \in 1..Len(mutation_queue[u])
       PROVE  i \in 1..Len(mutation_queue'[u]) /\ mutation_queue'[u][i] = mutation_queue[u][i]
  BY <1>1, <1>6, <1>10
<1>12. CallbacksPending'
  <2> SUFFICES ASSUME NEW u \in Users, NEW c \in callbacks'[u]
               PROVE  \E i \in 1..Len(mutation_queue'[u]) : mutation_queue'[u][i] = c
    BY DEF CallbacksPending
  <2>1. CASE c \in callbacks[u]
    BY <1>11, <2>1 DEF PipelineInv, CallbacksPending
  <2>2. CASE c \notin callbacks[u]
    <3>1. u = current_user /\ c = b
      BY <1>5, <2>2 DEF PipelineInv, PipelineTypes
    <3> QED
      BY <1>6, <1>10, <3>1
  <2> QED
    BY <2>1, <2>2
<1>13. NoWriteLost'
  <2>1. rejected' \subseteq Bad
    BY <1>5 DEF PipelineInv, NoWriteLost
  <2>2. PICK n, e : n = Len(issued) /\ e = [user |-> current_user, write |-> w]
    OBVIOUS
  <2>3. /\ issued \in Seq([user : Users, write : Writes])
        /\ e \in [user : Users, write : Writes]
    BY <1>0, <2>2 DEF PipelineInv, PipelineTypes
  <2>4. /\ n \in Nat /\ Len(issued') = n + 1 /\ issued'[n + 1] = e
        /\ \A i \in 1..n : issued'[i] = issued[i]
    BY <1>5, <2>2, <2>3
  <2>5. ASSUME NEW i \in 1..n PROVE Kept(issued[i])'
    <3>1. PICK x : x = issued[i]
      OBVIOUS
    <3>2. x.user \in Users
      <4>1. PICK R : R = [user : Users, write : Writes]
        OBVIOUS
      <4>2. issued \in Seq(R)
        BY <2>3, <4>1
      <4>3. x \in R
        BY <2>2, <3>1, <4>2
      <4> QED
        BY <4>1, <4>3
    <3>3. Kept(x)
      BY <2>2, <3>1 DEF PipelineInv, NoWriteLost, Kept
    <3>4. InQueue(x.user, x.write) => InQueue(x.user, x.write)'
      BY <1>11, <3>2 DEF InQueue
    <3>5. InLog(x.write) => InLog(x.write)'
      BY <1>5 DEF InLog
    <3>6. Kept(x)'
      BY <1>5, <3>3, <3>4, <3>5 DEF Kept
    <3> QED
      BY <2>4, <3>1, <3>6 DEF Kept
  <2>6. Kept(e)'
    <3>1. e.user = current_user /\ e.write = b.write
      BY <1>3, <2>2
    <3>2. \E i \in 1..Len(mutation_queue'[e.user]) : mutation_queue'[e.user][i].write = e.write
      BY <1>6, <1>10, <3>1
    <3> QED
      BY <3>2 DEF Kept, InQueue
  <2>7. ASSUME NEW i \in 1..Len(issued') PROVE Kept(issued[i])'
    <3>1. CASE i \in 1..n
      BY <2>5, <3>1
    <3>2. CASE i = n + 1
      BY <2>4, <2>6, <3>2 DEF Kept
    <3> QED
      BY <2>4, <3>1, <3>2
  <2> QED
    BY <2>1, <2>7 DEF NoWriteLost, Kept
<1>14. ToldTheTruth' /\ running'
  BY <1>0, <1>5 DEF PipelineInv, ToldTheTruth
<1> QED
  BY <1>7, <1>8, <1>9, <1>12, <1>13, <1>14 DEF PipelineInv

\* The first batch leaves the queue, and its completion is told what became of it.
LEMMA InvBatchLeaves ==
  ASSUME PipelineInv, running, Queue # <<>>, NEW ok \in BOOLEAN, NotifyUser(Queue[1], ok),
         mutation_queue' = [mutation_queue EXCEPT ![current_user] = Tail(Queue)],
         acked' = IF ok THEN acked \cup {Queue[1].write} ELSE acked,
         rejected' = IF ok THEN rejected ELSE rejected \cup {Queue[1].write},
         ok => InLog(Queue[1].write), ~ok => Queue[1].write \in Bad,
         UNCHANGED <<next_batch_id, issued, log, running, current_user>>,
         Settled(remote', Tail(Queue), log)
  PROVE  PipelineInv'
<1>0. /\ mutation_queue \in [Users -> Seq(Batches)] /\ next_batch_id \in Nat \ {0}
      /\ \A u \in Users : Numbered(mutation_queue[u], next_batch_id)
      /\ current_user \in Users /\ callbacks \in [Users -> SUBSET Batches]
  BY DEF PipelineInv, PipelineTypes
<1>1. PICK q, b, r : q = Queue /\ b = Queue[1] /\ r = Tail(Queue)
  OBVIOUS
<1>2. /\ q \in Seq(Batches) /\ Numbered(q, next_batch_id) /\ q # <<>> /\ b = q[1]
      /\ q = mutation_queue[current_user]
  BY <1>0, <1>1 DEF Queue
<1>3. /\ r \in Seq(Batches) /\ Len(q) \in Nat /\ Len(r) = Len(q) - 1 /\ Len(q) > 0
      /\ \A i \in 1..Len(r) : r[i] = q[i + 1]
      /\ b \in Batches
  BY <1>1, <1>2
<1>4. Numbered(r, next_batch_id)
  BY <1>1, <1>2, TailNumbered
<1>5. /\ mutation_queue' \in [Users -> Seq(Batches)] /\ mutation_queue'[current_user] = r
      /\ \A u \in Users : u # current_user => mutation_queue'[u] = mutation_queue[u]
  BY <1>0, <1>1, <1>3
<1>6. ASSUME NEW i \in 1..Len(q) PROVE q[i] = b \/ \E j \in 1..Len(r) : r[j] = q[i]
  <2>1. CASE i = 1
    BY <1>2, <2>1
  <2>2. CASE i # 1
    <3>1. i - 1 \in 1..Len(r)
      BY <1>3, <2>2
    <3>2. r[i - 1] = q[(i - 1) + 1]
      BY <1>3, <3>1
    <3>3. (i - 1) + 1 = i
      OBVIOUS
    <3> QED
      BY <3>1, <3>2, <3>3
  <2> QED
    BY <2>1, <2>2
<1>7. ASSUME NEW i \in 1..Len(q), q[i].id = b.id PROVE q[i] = b
  <2>1. CASE i = 1
    BY <1>2, <2>1
  <2>2. CASE i # 1
    <3>1. 1 \in 1..Len(q) /\ 1 < i
      BY <1>3, <2>2
    <3>2. q[1].id < q[i].id
      BY <1>2, <3>1 DEF Numbered
    <3>3. q[i] \in Batches
      BY <1>2
    <3>4. q[i].id \in Nat
      BY <3>3 DEF Batches
    <3> QED
      BY <1>2, <1>7, <3>2, <3>4
  <2> QED
    BY <2>1, <2>2
<1>8. PICK called : called = {x \in callbacks[current_user] : x.id = b.id}
  OBVIOUS
<1>9. /\ told' = told \cup {[write |-> c.write, ok |-> ok] : c \in called}
      /\ callbacks' = [callbacks EXCEPT ![current_user] = callbacks[current_user] \ called]
  BY <1>1, <1>8 DEF NotifyUser
<1>10. \A c \in called : c = b
  <2> SUFFICES ASSUME NEW c \in called PROVE c = b
    OBVIOUS
  <2>1. c \in callbacks[current_user] /\ c.id = b.id
    BY <1>8
  <2>2. PICK i \in 1..Len(q) : q[i] = c
    BY <1>0, <1>2, <2>1 DEF PipelineInv, CallbacksPending
  <2> QED
    BY <1>7, <2>1, <2>2
<1>11. told' \subseteq told \cup {[write |-> b.write, ok |-> ok]}
  BY <1>9, <1>10
<1>12. PipelineTypes'
  <2>1. b.write \in Writes
    BY <1>3 DEF Batches
  <2>2. told' \subseteq [write : Writes, ok : BOOLEAN]
    BY <1>11, <2>1 DEF PipelineInv, PipelineTypes
  <2>3. acked' \subseteq Writes /\ rejected' \subseteq Writes
    BY <1>1, <2>1 DEF PipelineInv, PipelineTypes
  <2>4. callbacks' \in [Users -> SUBSET Batches]
    BY <1>0, <1>9
  <2> QED
    BY <1>5, <2>2, <2>3, <2>4 DEF PipelineInv, PipelineTypes
<1>13. ASSUME NEW u \in Users PROVE Numbered(mutation_queue'[u], next_batch_id')
  BY <1>0, <1>4, <1>5
<1>14. Settled(remote', Queue', log') /\ running'
  BY <1>1, <1>5 DEF Queue
<1>15. CallbacksPending'
  <2> SUFFICES ASSUME NEW u \in Users, NEW c \in callbacks'[u]
               PROVE  \E i \in 1..Len(mutation_queue'[u]) : mutation_queue'[u][i] = c
    BY DEF CallbacksPending
  <2>1. c \in callbacks[u] /\ (u = current_user => c \notin called)
    BY <1>0, <1>9
  <2>2. PICK i \in 1..Len(mutation_queue[u]) : mutation_queue[u][i] = c
    BY <2>1 DEF PipelineInv, CallbacksPending
  <2>3. CASE u = current_user
    <3>1. c # b
      BY <1>8, <2>1, <2>3
    <3> QED
      BY <1>2, <1>5, <1>6, <2>2, <2>3, <3>1
  <2>4. CASE u # current_user
    BY <1>5, <2>2, <2>4
  <2> QED
    BY <2>3, <2>4
<1>16. ToldTheTruth'
  <2> SUFFICES ASSUME NEW t \in told' PROVE t.write \in (IF t.ok THEN acked' ELSE rejected')
    BY DEF ToldTheTruth
  <2>1. CASE t \in told
    BY <2>1 DEF PipelineInv, ToldTheTruth
  <2>2. CASE t = [write |-> b.write, ok |-> ok]
    <3>1. t.write = b.write /\ t.ok = ok
      BY <2>2
    <3>2. b.write \in (IF ok THEN acked' ELSE rejected')
      BY <1>1
    <3> QED
      BY <3>1, <3>2
  <2> QED
    BY <1>11, <2>1, <2>2
<1>17. NoWriteLost'
  <2>1. rejected' \subseteq Bad
    BY <1>1 DEF PipelineInv, NoWriteLost
  <2>2. ASSUME NEW i \in 1..Len(issued) PROVE Kept(issued[i])'
    <3>1. PICK e : e = issued[i]
      OBVIOUS
    <3>2. e.user \in Users
      <4>1. PICK R : R = [user : Users, write : Writes]
        OBVIOUS
      <4>2. issued \in Seq(R)
        BY <4>1 DEF PipelineInv, PipelineTypes
      <4>3. e \in R
        BY <3>1, <4>2
      <4> QED
        BY <4>1, <4>3
    <3>3. Kept(e)
      BY <3>1 DEF PipelineInv, NoWriteLost, Kept
    <3>4. InLog(e.write) => InLog(e.write)'
      BY DEF InLog
    <3>5. acked \subseteq acked' /\ rejected \subseteq rejected'
      OBVIOUS
    <3>6. Kept(e)'
      <4>1. CASE ~InQueue(e.user, e.write)
        BY <3>3, <3>4, <3>5, <4>1 DEF Kept
      <4>2. CASE InQueue(e.user, e.write) /\ e.user # current_user
        BY <1>5, <3>2, <4>2 DEF InQueue, Kept
      <4>3. CASE InQueue(e.user, e.write) /\ e.user = current_user
        <5>1. PICK k \in 1..Len(q) : q[k].write = e.write
          BY <1>2, <4>3 DEF InQueue
        <5>2. CASE q[k] = b
          <6>1. CASE ok
            <7>1. b.write \in acked' /\ InLog(b.write)
              BY <1>1, <6>1
            <7> QED
              BY <3>4, <5>1, <5>2, <7>1 DEF Kept
          <6>2. CASE ~ok
            <7>1. b.write \in rejected'
              BY <1>1, <6>2
            <7> QED
              BY <5>1, <5>2, <7>1 DEF Kept
          <6> QED
            BY <6>1, <6>2
        <5>3. CASE \E j \in 1..Len(r) : r[j] = q[k]
          <6>1. \E j \in 1..Len(r) : r[j].write = e.write
            BY <5>1, <5>3
          <6> QED
            BY <1>5, <4>3, <6>1 DEF Kept, InQueue
        <5> QED
          BY <1>6, <5>2, <5>3
      <4> QED
        BY <4>1, <4>2, <4>3
    <3> QED
      BY <3>1, <3>6 DEF Kept
  <2> QED
    BY <2>1, <2>2 DEF NoWriteLost, Kept
<1> QED
  BY <1>12, <1>13, <1>14, <1>15, <1>16, <1>17 DEF PipelineInv

\* What an answer finds: the batch it is about is the first of the queue, and is found.
LEMMA AnswerFindsBatch ==
  ASSUME PipelineInv, remote.down # <<>>, Head(remote.down) # "handshake"
  PROVE  /\ running /\ Queue \in Seq(Batches) /\ Queue # <<>>
         /\ Numbered(Queue, next_batch_id)
         /\ remote \in RemoteStore /\ Ready(remote) /\ remote.pipeline # <<>>
         /\ Head(remote.pipeline) = Queue[1] /\ Without(Queue[1]) = Tail(Queue)
         /\ Judged(Head(remote.down), Queue[1].write, log)
         /\ \A s : Found(s, Queue[1]) = s
<1>0. /\ mutation_queue \in [Users -> Seq(Batches)]
      /\ \A u \in Users : Numbered(mutation_queue[u], next_batch_id)
      /\ current_user \in Users /\ Settled(remote, Queue, log) /\ running \in BOOLEAN
  BY DEF PipelineInv, PipelineTypes
<1>1. Queue \in Seq(Batches) /\ Numbered(Queue, next_batch_id)
  BY <1>0 DEF Queue
<1>2. running
  BY <1>0 DEF PipelineInv, Idle
<1>3. /\ Ready(remote) /\ remote.pipeline # <<>>
      /\ Judged(Head(remote.down), Head(remote.pipeline).write, log)
  BY <1>0, ReceivedWhen
<1>4. /\ remote \in RemoteStore /\ Front(remote, Queue) /\ remote.pipeline \in Seq(Batches)
  BY <1>0 DEF Settled, Working, RemoteStore
<1>5. Queue # <<>> /\ Head(remote.pipeline) = Queue[1]
  <2>1. PICK t : t = [pipeline |-> Tail(remote.pipeline)]
    OBVIOUS
  <2>2. t.pipeline = Tail(remote.pipeline)
    BY <2>1
  <2> QED
    BY <1>1, <1>3, <1>4, <2>2, TailFront
<1>6. Without(Queue[1]) = Tail(Queue)
  BY <1>1, <1>5, WithoutFirst
<1>7. 1 \in 1..Len(Queue)
  BY <1>1, <1>5
<1>8. \A s : Found(s, Queue[1]) = s
  BY <1>7 DEF Found, HardAssert
<1> QED
  BY <1>1, <1>2, <1>3, <1>4, <1>5, <1>6, <1>8

\* OnWriteStreamMutationResult: the first batch of the queue is acknowledged.
LEMMA InvMutationResult ==
  ASSUME PipelineInv, MutationResult
  PROVE  PipelineInv'
<1>1. remote.down # <<>> /\ Head(remote.down) = "ok"
  BY DEF MutationResult, Receive
<1>2. /\ running /\ Queue \in Seq(Batches) /\ Queue # <<>>
      /\ Numbered(Queue, next_batch_id)
      /\ Head(remote.pipeline) = Queue[1] /\ Without(Queue[1]) = Tail(Queue)
      /\ Judged("ok", Queue[1].write, log)
      /\ \A s : Found(s, Queue[1]) = s
  BY <1>1, AnswerFindsBatch
<1>3. PICK s : s = [Read(remote) EXCEPT !.pipeline = Tail(Read(remote).pipeline)]
  OBVIOUS
<1>4. /\ NotifyUser(Queue[1], TRUE) /\ acked' = acked \cup {Queue[1].write}
      /\ mutation_queue' = [mutation_queue EXCEPT ![current_user] = Tail(Queue)]
      /\ remote' = FillWritePipeline(s, mutation_queue'[current_user])
      /\ UNCHANGED <<next_batch_id, issued, log, running, current_user, rejected>>
  BY <1>2, <1>3 DEF MutationResult
<1>5. mutation_queue'[current_user] = Tail(Queue)
  BY <1>4 DEF PipelineInv, PipelineTypes
<1>6. Settled(remote, Queue, log)
  BY DEF PipelineInv
<1>7. Settled(FillWritePipeline(s, Tail(Queue)), Tail(Queue), log)
  BY <1>1, <1>2, <1>3, <1>6, AnsweredSettles
<1>8. InLog(Queue[1].write)
  BY <1>2 DEF Judged, InLog
<1> QED
  BY <1>2, <1>4, <1>5, <1>7, <1>8, InvBatchLeaves

\* HandleWriteError: the first batch of the queue, which the server refused, is rejected.
LEMMA InvWriteRejected ==
  ASSUME PipelineInv, WriteRejected
  PROVE  PipelineInv'
<1>1. remote.down # <<>> /\ Head(remote.down) = "refused"
  BY DEF WriteRejected, Receive
<1>2. /\ running /\ Queue \in Seq(Batches) /\ Queue # <<>>
      /\ Numbered(Queue, next_batch_id) /\ Ready(remote) /\ remote.pipeline # <<>>
      /\ Head(remote.pipeline) = Queue[1] /\ Without(Queue[1]) = Tail(Queue)
      /\ Judged("refused", Queue[1].write, log)
      /\ \A s : Found(s, Queue[1]) = s
  BY <1>1, AnswerFindsBatch
<1>3. /\ NotifyUser(Queue[1], FALSE) /\ rejected' = rejected \cup {Queue[1].write}
      /\ mutation_queue' = [mutation_queue EXCEPT ![current_user] = Tail(Queue)]
      /\ remote' = Refused(remote, mutation_queue'[current_user])
      /\ UNCHANGED <<next_batch_id, issued, log, running, current_user, acked>>
  BY <1>2 DEF WriteRejected, Blamed
<1>4. mutation_queue'[current_user] = Tail(Queue)
  BY <1>3 DEF PipelineInv, PipelineTypes
<1>5. Settled(remote, Queue, log)
  BY DEF PipelineInv
<1>6. Settled(Refused(remote, Tail(Queue)), Tail(Queue), log)
  BY <1>2, <1>5, RefusedSettles
<1>7. Queue[1].write \in Bad
  BY <1>2 DEF Judged
<1> QED
  BY <1>2, <1>3, <1>4, <1>6, <1>7, InvBatchLeaves

\* The server takes a message: what it committed stays committed.
LEMMA InvServer ==
  ASSUME PipelineInv, Server
  PROVE  PipelineInv'
<1>0. /\ mutation_queue \in [Users -> Seq(Batches)] /\ current_user \in Users
      /\ \A u \in Users : Numbered(mutation_queue[u], next_batch_id)
      /\ Settled(remote, Queue, log) /\ running \in BOOLEAN /\ log \in Seq(Writes)
  BY DEF PipelineInv, PipelineTypes
<1>1. Queue \in Seq(Batches) /\ Numbered(Queue, next_batch_id)
  BY <1>0 DEF Queue
<1>2. /\ remote.up # <<>> /\ UNCHANGED <<local, running, current_user, outcome>>
  BY DEF Server, ServerHandshake, ServerCommit, ServerRefuse, Serving
<1>3. running' = TRUE
  BY <1>0, <1>2 DEF PipelineInv, Idle
<1>4. CASE ServerHandshake
  <2>1. /\ Head(remote.up) = Handshake /\ UNCHANGED log
        /\ remote' = Replied(remote, "handshake")
    BY <1>4 DEF ServerHandshake, Reply, Replied
  <2>2. Settled(remote', Queue, log)
    BY <1>0, <1>1, <1>2, <2>1, ServerHandshakeSettles
  <2> QED
    BY <1>2, <1>3, <2>1, <2>2, RemoteStep
<1>5. CASE ServerRefuse
  <2>1. /\ Head(remote.up) # Handshake /\ Head(remote.up).write \in Bad /\ UNCHANGED log
        /\ remote' = Replied(remote, "refused")
    BY <1>5 DEF ServerRefuse, Reply, Replied
  <2>2. Judged("refused", Head(remote.up).write, log)
    BY <2>1 DEF Judged
  <2>3. Settled(remote', Queue, log)
    BY <1>0, <1>2, <2>1, <2>2, ServerAnswerSettles
  <2> QED
    BY <1>2, <1>3, <2>1, <2>3, RemoteStep
<1>6. CASE ServerCommit
  <2>1. PICK w : w = Head(remote.up).write
    OBVIOUS
  <2>2. /\ Head(remote.up) # Handshake /\ w \notin Bad /\ log' = Append(log, w)
        /\ remote' = Replied(remote, "ok")
    BY <1>6, <2>1 DEF ServerCommit, Reply, Replied
  <2>3. w \in Writes
    <3>1. remote.up \in Seq(Messages)
      BY <1>0 DEF Settled, Working, RemoteStore
    <3>2. Head(remote.up) \in Messages
      BY <1>2, <3>1
    <3> QED
      BY <2>1, <2>2, <3>2 DEF Messages, Batches
  <2>4. /\ log' \in Seq(Writes) /\ Len(log) \in Nat /\ Len(log') = Len(log) + 1
        /\ log'[Len(log) + 1] = w /\ \A k \in 1..Len(log) : log'[k] = log[k]
    BY <1>0, <2>2, <2>3
  <2>5. \A v : (\E k \in 1..Len(log) : log[k] = v) => \E k \in 1..Len(log') : log'[k] = v
    BY <2>4
  <2>6. Judged("ok", w, log') /\ \A a, v : Judged(a, v, log) => Judged(a, v, log')
    <3>1. Len(log) + 1 \in 1..Len(log')
      BY <2>4
    <3> QED
      BY <2>2, <2>4, <2>5, <3>1 DEF Judged
  <2>7. Settled(remote', Queue, log')
    BY <1>0, <1>2, <2>1, <2>2, <2>6, ServerAnswerSettles
  <2>8. /\ UNCHANGED <<mutation_queue, next_batch_id, callbacks, issued>>
        /\ UNCHANGED <<running, current_user, acked, rejected, told>>
    BY <1>2 DEF local, outcome
  <2>9. PipelineTypes' /\ \A u \in Users : Numbered(mutation_queue'[u], next_batch_id')
    BY <2>4, <2>8 DEF PipelineInv, PipelineTypes
  <2>10. CallbacksPending' /\ ToldTheTruth'
    BY <2>8 DEF PipelineInv, CallbacksPending, ToldTheTruth
  <2>11. NoWriteLost'
    <3>1. ASSUME NEW i \in 1..Len(issued) PROVE Kept(issued[i])'
      <4>1. PICK e : e = issued[i]
        OBVIOUS
      <4>2. Kept(e)
        BY <4>1 DEF PipelineInv, NoWriteLost, Kept
      <4>3. InLog(e.write) => InLog(e.write)'
        BY <2>5 DEF InLog
      <4>4. InQueue(e.user, e.write) => InQueue(e.user, e.write)'
        BY <2>8 DEF InQueue
      <4>5. Kept(e)'
        BY <2>8, <4>2, <4>3, <4>4 DEF Kept
      <4> QED
        BY <2>8, <4>1, <4>5 DEF Kept
    <3>2. rejected' \subseteq Bad
      BY <2>8 DEF PipelineInv, NoWriteLost
    <3> QED
      BY <2>8, <3>1, <3>2 DEF NoWriteLost, Kept
  <2>12. Settled(remote', Queue', log')
    BY <2>7, <2>8 DEF Queue
  <2> QED
    BY <1>3, <2>9, <2>10, <2>11, <2>12 DEF PipelineInv
<1> QED
  BY <1>4, <1>5, <1>6 DEF Server

\* A crash leaves what is persisted, and forgets the completions and the connection.
LEMMA InvCrash ==
  ASSUME PipelineInv, Crash
  PROVE  PipelineInv'
<1>1. /\ running' = FALSE /\ callbacks' = [u \in Users |-> {}] /\ remote' = Idle
      /\ UNCHANGED <<mutation_queue, next_batch_id, issued, log, current_user>>
      /\ UNCHANGED <<acked, rejected, told>>
  BY DEF Crash, outcome
<1>2. PipelineTypes' /\ \A u \in Users : Numbered(mutation_queue'[u], next_batch_id')
  BY <1>1 DEF PipelineInv, PipelineTypes
<1>3. CallbacksPending' /\ ToldTheTruth' /\ NoWriteLost'
  BY <1>1 DEF PipelineInv, CallbacksPending, ToldTheTruth, NoWriteLost, InQueue, InLog
<1>4. Queue \in Seq(Batches)
  BY DEF PipelineInv, PipelineTypes, Queue
<1>5. Settled(Idle, Queue, log)
  BY <1>4, IdleWorks DEF Settled
<1>6. Settled(remote', Queue', log')
  BY <1>1, <1>5 DEF Queue
<1> QED
  BY <1>1, <1>2, <1>3, <1>6 DEF PipelineInv

\* The next process fills its pipeline from what it finds.
LEMMA InvRestart ==
  ASSUME PipelineInv, NEW u \in Users, Restart(u)
  PROVE  PipelineInv'
<1>0. /\ mutation_queue \in [Users -> Seq(Batches)] /\ next_batch_id \in Nat \ {0}
      /\ \A v \in Users : Numbered(mutation_queue[v], next_batch_id)
  BY DEF PipelineInv, PipelineTypes
<1>1. /\ running' = TRUE /\ current_user' = u
      /\ next_batch_id' = LoadNextBatchId(mutation_queue)
      /\ remote' = FillWritePipeline(Idle, mutation_queue[u])
      /\ UNCHANGED <<mutation_queue, callbacks, issued, log, acked, rejected, told>>
  BY DEF Restart, outcome
<1>2. /\ next_batch_id' \in Nat \ {0}
      /\ \A v \in Users : Numbered(mutation_queue[v], next_batch_id')
  BY <1>0, <1>1, NextIdAbove
<1>3. PipelineTypes'
  BY <1>1, <1>2 DEF PipelineInv, PipelineTypes
<1>4. CallbacksPending' /\ ToldTheTruth' /\ NoWriteLost'
  BY <1>1 DEF PipelineInv, CallbacksPending, ToldTheTruth, NoWriteLost, InQueue, InLog
<1>5. PICK q : q = mutation_queue[u]
  OBVIOUS
<1>6. q \in Seq(Batches) /\ Numbered(q, next_batch_id)
  BY <1>0, <1>5
<1>7. Working(Idle, q, log) /\ ~Idle.handshake_complete
  BY <1>6, IdleWorks
<1>8. Settled(FillWritePipeline(Idle, q), q, log)
  BY <1>6, <1>7, FillSettles
<1>9. Settled(remote', Queue', log')
  BY <1>1, <1>5, <1>8 DEF Queue
<1> QED
  BY <1>1, <1>2, <1>3, <1>4, <1>9 DEF PipelineInv

\* A step that changes nothing.
LEMMA InvStutter ==
  ASSUME PipelineInv, UNCHANGED vars
  PROVE  PipelineInv'
<1>1. /\ UNCHANGED <<mutation_queue, next_batch_id, callbacks, issued>>
      /\ UNCHANGED <<log, running, current_user, remote, acked, rejected, told>>
  BY DEF vars, local, outcome
<1>2. PipelineTypes' /\ \A u \in Users : Numbered(mutation_queue'[u], next_batch_id')
  BY <1>1 DEF PipelineInv, PipelineTypes
<1>3. CallbacksPending' /\ ToldTheTruth' /\ NoWriteLost'
  BY <1>1 DEF PipelineInv, CallbacksPending, ToldTheTruth, NoWriteLost, InQueue, InLog
<1>4. Settled(remote', Queue', log')
  BY <1>1 DEF PipelineInv, Queue
<1> QED
  BY <1>1, <1>2, <1>3, <1>4 DEF PipelineInv

\* Every step preserves the invariant.
LEMMA InvNext == PipelineInv /\ [Next]_vars => PipelineInv'
<1> SUFFICES ASSUME PipelineInv, [Next]_vars PROVE PipelineInv'
  OBVIOUS
<1>1. CASE \E w \in Writes : Write(w)
  BY <1>1, InvWrite
<1>2. CASE ConnectivityChanged \/ \E u \in Users : HandleCredentialChange(u)
  BY <1>2, InvRestartNetwork
<1>3. CASE \E u \in Users : Restart(u)
  BY <1>3, InvRestart
<1>4. CASE Crash
  BY <1>4, InvCrash
<1>5. CASE Connect \/ BackoffElapsed \/ IdleTimeout \/ StreamFails \/ HandshakeComplete
  BY <1>5, InvStream
<1>6. CASE MutationResult
  BY <1>6, InvMutationResult
<1>7. CASE WriteRejected
  BY <1>7, InvWriteRejected
<1>8. CASE Server
  BY <1>8, InvServer
<1>9. CASE UNCHANGED vars
  BY <1>9, InvStutter
<1> QED
  BY <1>1, <1>2, <1>3, <1>4, <1>5, <1>6, <1>7, <1>8, <1>9 DEF Next, Respond

(***************************************************************************)
(* The theorems                                                            *)
(***************************************************************************)
\* PipelineInv holds in every reachable state of the write path, for every set of users
\* and writes, every capacity of the pipeline and any number of failures.
THEOREM PipelineInvariant == Spec => []PipelineInv
<1>1. Init => PipelineInv
  BY InvInit
<1>2. PipelineInv /\ [Next]_vars => PipelineInv'
  BY InvNext
<1> QED
  BY <1>1, <1>2, PTL DEF Spec

\* No HARD_ASSERT of the write path fails, in whatever order failures, reconnections,
\* changes of user, timeouts and answers come.
THEOREM HardAssertsHold == Spec => []NoHardAssertFails
<1>1. PipelineInv => NoHardAssertFails
  BY DEF PipelineInv, Settled, Working, NoHardAssertFails
<1> QED
  BY <1>1, PipelineInvariant, PTL

\* What is on the wire is, position by position, what the pipeline holds, and the
\* pipeline is the front of the queue of the user who is signed in: an answer is never
\* taken for another write's.
THEOREM AnswersMeetTheirWrites == Spec => []AnswersMatchPipeline
<1>1. PipelineInv => AnswersMatchPipeline
  <2> SUFFICES ASSUME PipelineInv PROVE AnswersMatchPipeline
    OBVIOUS
  <2>0. PICK s, q, p, d, up : s = remote /\ q = Queue /\ p = s.pipeline /\ d = s.down /\ up = s.up
    OBVIOUS
  <2>1. /\ s \in RemoteStore /\ Front(s, q) /\ (s.handshake_complete => s.state = "Open")
        /\ Answering(s, log)
    BY <2>0 DEF PipelineInv, Settled, Working
  <2>2. p \in Seq(Batches) /\ d \in Seq(Answers) /\ up \in Seq(Messages)
    BY <2>0, <2>1 DEF RemoteStore
  <2>3. q \in Seq(Batches)
    BY <2>0 DEF PipelineInv, PipelineTypes, Queue
  <2>4. /\ Len(p) <= Len(q) /\ Len(p) <= kMaxPendingWrites
        /\ \A i \in 1..Len(p) : p[i] = q[i]
    BY <2>0, <2>1 DEF Front
  <2>5. \A i \in 1..Len(p) : i <= Len(q) /\ p[i] = q[i]
    BY <2>2, <2>3, <2>4
  <2>6. ASSUME s.handshake_complete
        PROVE  /\ Len(d) <= Len(p)
               /\ \A i \in 1..Len(d) : (d[i] = "refused") = (p[i].write \in Bad)
               /\ up = SubSeq(p, Len(d) + 1, Len(p))
    <3>1. Matching(d, up, p, log)
      BY <2>0, <2>1, <2>6 DEF Answering, Ready
    <3>2. PICK k, l, m : k = Len(d) /\ l = Len(up) /\ m = Len(p)
      OBVIOUS
    <3>3. k \in Nat /\ l \in Nat /\ m \in Nat /\ k + l = m
      BY <2>2, <3>1, <3>2 DEF Matching
    <3>4. \A i \in 1..Len(d) : (d[i] = "refused") = (p[i].write \in Bad)
      BY <3>1 DEF Matching, Judged
    <3>5. PICK r : r = SubSeq(p, k + 1, m)
      OBVIOUS
    <3>6. r \in Seq(Batches) /\ Len(r) = m - k /\ \A i \in 1..Len(r) : r[i] = p[k + i]
      <4>1. k <= m /\ m <= Len(p)
        BY <3>2, <3>3
      <4> QED
        BY <2>2, <3>3, <3>5, <4>1, Piece
    <3>7. \A i \in 1..l : up[i] = p[k + i]
      BY <3>1, <3>2 DEF Matching
    <3>8. Len(r) = l
      BY <3>3, <3>6
    <3>9. up = r
      <4>1. r \in Seq(Messages)
        BY <3>6 DEF Messages
      <4>2. Len(up) = Len(r) /\ \A i \in 1..Len(up) : up[i] = r[i]
        BY <3>2, <3>6, <3>7, <3>8
      <4> QED
        BY <2>2, <4>1, <4>2, SeqEqual
    <3> QED
      BY <3>2, <3>3, <3>4, <3>5, <3>9
  <2> QED
    BY <2>0, <2>4, <2>5, <2>6 DEF AnswersMatchPipeline
<1> QED
  BY <1>1, PipelineInvariant, PTL

\* Every write ever made is pending, or acknowledged and committed, or rejected, and only
\* writes that the server refuses are rejected.
THEOREM WritesAreKept == Spec => []NoWriteLost
<1>1. PipelineInv => NoWriteLost
  BY DEF PipelineInv
<1> QED
  BY <1>1, PipelineInvariant, PTL

\* A completion is told what became of its own write, and one that is still waiting
\* belongs to a write that is still pending.
THEOREM CompletionsAreTrue == Spec => []CompletionsTellTheTruth
<1>1. PipelineInv => CompletionsTellTheTruth
  BY DEF PipelineInv, ToldTheTruth, CallbacksPending, CompletionsTellTheTruth, InQueue
<1> QED
  BY <1>1, PipelineInvariant, PTL


(***************************************************************************)
(* The write path implements PendingWrites                                 *)
(***************************************************************************)
Has(lg, w) == \E k \in 1..Len(lg) : lg[k] = w

\* The log lg has the first n writes of the queue q, and no other of them.
Prefix(q, lg, n) ==
    n \in 0..Len(q) /\ \A i \in 1..Len(q) : Has(lg, q[i].write) <=> i <= n

\* The writes of a queue after the first n.
Rest(q, n) == [i \in 1..(Len(q) - n) |-> q[n + i].write]

\* A queue, as PendingWrites sees it, when the log is lg.
Open(q, lg) ==
    LET n == Cardinality({i \in 1..Len(q) : Has(lg, q[i].write)})
    IN  [i \in 1..(Len(q) - n) |-> q[n + i].write]

\* The queues, as PendingWrites sees them.
Opens(mq, lg) == [u \in Users |-> Open(mq[u], lg)]

\* Of the queues mq, the log lg and the writes that were made: what is pending was
\* made, and is pending once; what is committed was made, and is not refused; of each
\* queue the first writes are committed.
CommitsInOrder(mq, lg, made) ==
    /\ \A u \in Users : \A i \in 1..Len(mq[u]) : mq[u][i].write \in made
    /\ \A u, v \in Users : \A i \in 1..Len(mq[u]), j \in 1..Len(mq[v]) :
           mq[u][i].write = mq[v][j].write => u = v /\ i = j
    /\ \A k \in 1..Len(lg) : lg[k] \in made /\ lg[k] \notin Bad
    /\ \A u \in Users : \E n \in 0..Len(mq[u]) : Prefix(mq[u], lg, n)

CommitInv == CommitsInOrder(mutation_queue, log, Issued)

\* g is f but for c, where it is x; t is s with x after it.
Replaces(f, g, c, x) == g = [f EXCEPT ![c] = x]
Grows(s, x, t) == t = Append(s, x)

\* What is outstanding of a queue are the writes after the ones committed.
LEMMA OpenIsRest ==
  ASSUME NEW q \in Seq(Batches), NEW lg, NEW n, Prefix(q, lg, n)
  PROVE  Open(q, lg) = Rest(q, n)
<1>1. PICK S : S = {i \in 1..Len(q) : Has(lg, q[i].write)}
  OBVIOUS
<1>2. n \in Nat /\ Len(q) \in Nat /\ n <= Len(q)
  BY DEF Prefix
<1>3. S = 1..n
  <2>1. \A i : i \in S <=> i \in 1..Len(q) /\ i <= n
    BY <1>1 DEF Prefix
  <2>2. \A i : i \in 1..Len(q) /\ i <= n <=> i \in 1..n
    BY <1>2
  <2> QED
    BY <2>1, <2>2
<1>4. Cardinality(S) = n
  BY <1>2, <1>3, FS_Interval
<1> QED
  BY <1>1, <1>4 DEF Open, Rest

\* A function on the first numbers is a sequence.
LEMMA FunctionIsSeq ==
  ASSUME NEW S, NEW m \in Nat, NEW r \in [1..m -> S]
  PROVE  r \in Seq(S) /\ Len(r) = m
<1>1. r \in Seq(S) /\ DOMAIN r = 1..m
  OBVIOUS
<1> QED
  BY <1>1

\* The writes after the first n, as a sequence.
LEMMA RestIsSeq ==
  ASSUME NEW q \in Seq(Batches), NEW n \in 0..Len(q)
  PROVE  /\ Rest(q, n) \in Seq(Writes) /\ Len(Rest(q, n)) = Len(q) - n
         /\ \A i \in 1..(Len(q) - n) : Rest(q, n)[i] = q[n + i].write
<1>1. Len(q) \in Nat /\ n \in Nat /\ Len(q) - n \in Nat
  OBVIOUS
<1>2. \A i \in 1..(Len(q) - n) : n + i \in 1..Len(q) /\ q[n + i].write \in Writes
  <2>1. \A i \in 1..(Len(q) - n) : n + i \in 1..Len(q)
    BY <1>1
  <2>2. \A i \in 1..Len(q) : q[i] \in Batches
    OBVIOUS
  <2> QED
    BY <2>1, <2>2 DEF Batches
<1>3. PICK r : r = Rest(q, n)
  OBVIOUS
<1>4. PICK m : m = Len(q) - n
  OBVIOUS
<1>5. r = [i \in 1..m |-> q[n + i].write] /\ m \in Nat
  BY <1>1, <1>3, <1>4 DEF Rest
<1>6. r \in [1..m -> Writes]
  BY <1>2, <1>4, <1>5
<1>7. r \in Seq(Writes) /\ Len(r) = m
  BY <1>5, <1>6, FunctionIsSeq
<1> QED
  BY <1>3, <1>4, <1>5, <1>7

\* The next write is the first of the rest.
LEMMA RestNext ==
  ASSUME NEW q \in Seq(Batches), NEW n \in 0..(Len(q) - 1)
  PROVE  /\ Rest(q, n) # <<>> /\ Head(Rest(q, n)) = q[n + 1].write
         /\ Tail(Rest(q, n)) = Rest(q, n + 1)
<1>1. PICK a, b, k : a = Rest(q, n) /\ b = Rest(q, n + 1) /\ k = Len(q)
  OBVIOUS
<1>2. k \in Nat /\ n \in Nat /\ n + 1 <= k /\ n \in 0..k /\ n + 1 \in 0..k
  BY <1>1
<1>3. a \in Seq(Writes) /\ Len(a) = k - n /\ \A i \in 1..(k - n) : a[i] = q[n + i].write
  BY <1>1, <1>2, RestIsSeq
<1>4. /\ b \in Seq(Writes) /\ Len(b) = k - (n + 1)
      /\ \A i \in 1..(k - (n + 1)) : b[i] = q[(n + 1) + i].write
  BY <1>1, <1>2, RestIsSeq
<1>5. a # <<>> /\ Head(a) = a[1] /\ 1 \in 1..(k - n)
  BY <1>2, <1>3
<1>6. Head(a) = q[n + 1].write
  BY <1>3, <1>5
<1>7. PICK t : t = Tail(a)
  OBVIOUS
<1>8. t \in Seq(Writes) /\ Len(t) = Len(a) - 1 /\ \A i \in 1..Len(t) : t[i] = a[i + 1]
  BY <1>3, <1>5, <1>7
<1>9. Len(t) = Len(b) /\ Len(b) \in Nat
  BY <1>2, <1>3, <1>4, <1>8
<1>10. ASSUME NEW i \in 1..Len(b) PROVE t[i] = b[i]
  <2>1. /\ i \in Nat /\ i + 1 \in 1..(k - n) /\ i \in 1..(k - (n + 1))
        /\ n + (i + 1) = (n + 1) + i
    BY <1>2, <1>4, <1>10
  <2> QED
    BY <1>3, <1>4, <1>8, <1>9, <2>1
<1>11. t = b
  BY <1>4, <1>8, <1>9, <1>10
<1> QED
  BY <1>1, <1>5, <1>6, <1>7, <1>11

\* Without its first write, a queue has the same rest after one write less.
LEMMA RestOfTail ==
  ASSUME NEW q \in Seq(Batches), NEW n \in 0..(Len(q) - 1)
  PROVE  Rest(Tail(q), n) = Rest(q, n + 1)
<1>1. PICK t, k : t = Tail(q) /\ k = Len(q)
  OBVIOUS
<1>2. k \in Nat /\ n \in Nat /\ n + 1 <= k
  BY <1>1
<1>3. t \in Seq(Batches) /\ Len(t) = k - 1 /\ \A i \in 1..(k - 1) : t[i] = q[i + 1]
  BY <1>1, <1>2
<1>4. (k - 1) - n = k - (n + 1)
  BY <1>2
<1>5. ASSUME NEW i \in 1..(k - (n + 1)) PROVE t[n + i].write = q[(n + 1) + i].write
  <2>1. n + i \in 1..(k - 1) /\ (n + i) + 1 = (n + 1) + i
    BY <1>2
  <2> QED
    BY <1>3, <2>1
<1> QED
  BY <1>1, <1>3, <1>4, <1>5 DEF Rest

\* A write more is the last of the rest.
LEMMA RestGrows ==
  ASSUME NEW q \in Seq(Batches), NEW b \in Batches, NEW n \in 0..Len(q)
  PROVE  Rest(Append(q, b), n) = Append(Rest(q, n), b.write)
<1>1. PICK a, p, k : a = Append(q, b) /\ p = Rest(q, n) /\ k = Len(q)
  OBVIOUS
<1>2. /\ k \in Nat /\ n \in Nat /\ n <= k /\ a \in Seq(Batches) /\ Len(a) = k + 1
      /\ a[k + 1] = b /\ \A i \in 1..k : a[i] = q[i]
  BY <1>1
<1>3. p \in Seq(Writes) /\ Len(p) = k - n /\ \A i \in 1..(k - n) : p[i] = q[n + i].write
  BY <1>1, RestIsSeq
<1>4. PICK r : r = Rest(a, n)
  OBVIOUS
<1>5. n \in 0..Len(a)
  BY <1>2
<1>6. /\ r \in Seq(Writes) /\ Len(r) = (k + 1) - n
      /\ \A i \in 1..((k + 1) - n) : r[i] = a[n + i].write
  BY <1>2, <1>4, <1>5, RestIsSeq
<1>7. PICK c : c = Append(p, b.write)
  OBVIOUS
<1>8. b.write \in Writes
  BY DEF Batches
<1>9. /\ c \in Seq(Writes) /\ Len(c) = Len(p) + 1 /\ c[Len(p) + 1] = b.write
      /\ \A i \in 1..Len(p) : c[i] = p[i]
  BY <1>3, <1>7, <1>8
<1>10. Len(c) = Len(r)
  BY <1>2, <1>3, <1>6, <1>9
<1>11. ASSUME NEW i \in 1..Len(r) PROVE r[i] = c[i]
  <2>0. i \in Nat /\ i >= 1 /\ i <= (k + 1) - n
    BY <1>2, <1>6
  <2>1. CASE i <= k - n
    <3>1. i \in 1..(k - n) /\ i \in 1..((k + 1) - n) /\ n + i \in 1..k
      BY <1>2, <2>0, <2>1
    <3>2. r[i] = a[n + i].write
      BY <1>6, <3>1
    <3>3. c[i] = p[i]
      BY <1>3, <1>9, <3>1
    <3> QED
      BY <1>2, <1>3, <3>1, <3>2, <3>3
  <2>2. CASE i = (k + 1) - n
    <3>1. i = Len(p) + 1 /\ n + i = k + 1 /\ i \in 1..((k + 1) - n)
      BY <1>2, <1>3, <2>0, <2>2
    <3> QED
      BY <1>2, <1>6, <1>9, <3>1
  <2> QED
    BY <1>2, <2>0, <2>1, <2>2
<1>12. r = c
  BY <1>6, <1>9, <1>10, <1>11, SeqEqual
<1> QED
  BY <1>1, <1>4, <1>7, <1>12

(***************************************************************************)
(* First commits                                                           *)
(***************************************************************************)
\* The positions of a log where a write is for the first time.
Firsts(lg) == {i \in 1..Len(lg) : \A j \in 1..(i - 1) : lg[j] # lg[i]}
Rank(S, i) == Cardinality(S \cap 1..i)
Place(S, k) == CHOOSE i \in S : Rank(S, i) = k
CommitsOf(lg) == [k \in 1..Cardinality(Firsts(lg)) |-> lg[Place(Firsts(lg), k)]]

\* What an element more, or none, does to the rank.
LEMMA RankStep ==
  ASSUME NEW S \in SUBSET Nat, NEW i \in Nat
  PROVE  /\ Rank(S, i) \in Nat /\ Rank(S, 0) = 0
         /\ Rank(S, i + 1) = Rank(S, i) + (IF i + 1 \in S THEN 1 ELSE 0)
<1>1. IsFiniteSet(1..i) /\ 1..0 = {}
  BY FS_Interval
<1>2. PICK A : A = S \cap 1..i
  OBVIOUS
<1>3. IsFiniteSet(A) /\ Cardinality(A) \in Nat
  BY <1>1, <1>2, FS_Intersection, FS_CardinalityType
<1>4. 1..(i + 1) = (1..i) \cup {i + 1} /\ i + 1 \notin 1..i
  OBVIOUS
<1>5. Rank(S, 0) = 0
  BY <1>1, FS_EmptySet DEF Rank
<1>6. CASE i + 1 \in S
  <2>1. S \cap 1..(i + 1) = A \cup {i + 1} /\ i + 1 \notin A
    BY <1>2, <1>4, <1>6
  <2>2. Cardinality(A \cup {i + 1}) = Cardinality(A) + 1
    BY <1>3, <2>1, FS_AddElement
  <2> QED
    BY <1>2, <1>3, <1>5, <1>6, <2>1, <2>2 DEF Rank
<1>7. CASE i + 1 \notin S
  <2>1. S \cap 1..(i + 1) = A
    BY <1>2, <1>4, <1>7
  <2> QED
    BY <1>2, <1>3, <1>5, <1>7, <2>1 DEF Rank
<1> QED
  BY <1>6, <1>7

\* The rank grows, and at an element of the set it does so strictly.
LEMMA RankGrows ==
  ASSUME NEW S \in SUBSET Nat, NEW i \in Nat, NEW j \in Nat, i < j
  PROVE  Rank(S, i) <= Rank(S, j) /\ (j \in S => Rank(S, i) < Rank(S, j))
<1>1. PICK h : h = j - 1
  OBVIOUS
<1>2. h \in Nat /\ i <= h /\ h + 1 = j
  BY <1>1
<1>3. /\ Rank(S, h) \in Nat /\ Rank(S, j) = Rank(S, h) + (IF j \in S THEN 1 ELSE 0)
  BY <1>2, RankStep
<1>4. Rank(S, i) \in Nat
  BY RankStep
<1>5. Rank(S, i) <= Rank(S, h)
  <2>1. PICK A, B : A = S \cap 1..i /\ B = S \cap 1..h
    OBVIOUS
  <2>2. A \in SUBSET B
    BY <1>2, <2>1
  <2>3. IsFiniteSet(B)
    <3>1. IsFiniteSet(1..h)
      BY <1>2, FS_Interval
    <3> QED
      BY <2>1, <3>1, FS_Intersection
  <2>4. Cardinality(A) <= Cardinality(B)
    BY <2>2, <2>3, FS_Subset
  <2> QED
    BY <2>1, <2>4 DEF Rank
<1> QED
  BY <1>3, <1>4, <1>5

\* Every rank up to the size of the set is that of exactly one of its elements.
LEMMA RankIsMet ==
  ASSUME NEW n \in Nat, NEW S \in SUBSET (1..n), NEW k \in 1..Cardinality(S)
  PROVE  \E i \in S : Rank(S, i) = k /\ \A j \in S : Rank(S, j) = k => j = i
<1>1. S \in SUBSET Nat /\ IsFiniteSet(S) /\ Cardinality(S) \in Nat /\ Rank(S, n) = Cardinality(S)
  <2>1. IsFiniteSet(1..n)
    BY FS_Interval
  <2>2. S \cap 1..n = S /\ S \in SUBSET Nat
    <3>1. \A i \in S : i \in 1..n /\ i \in Nat
      OBVIOUS
    <3> QED
      BY <3>1
  <2>3. IsFiniteSet(S)
    BY <2>1, FS_Subset
  <2>4. Cardinality(S) \in Nat
    BY <2>3, FS_CardinalityType
  <2> QED
    BY <2>2, <2>3, <2>4 DEF Rank
<1>2. PICK T : T = {i \in Nat : Rank(S, i) >= k}
  OBVIOUS
<1>3. k \in Nat /\ k >= 1 /\ k <= Rank(S, n) /\ \A i \in Nat : Rank(S, i) \in Nat
  BY <1>1, RankStep
<1>4. n \in T /\ T \in SUBSET Nat
  BY <1>2, <1>3
<1>5. PICK i \in T : \A y \in T : i <= y
  BY <1>4, LeastNatural
<1>6. i \in Nat /\ Rank(S, i) >= k
  BY <1>2
<1>7. i # 0
  BY <1>1, <1>3, <1>6, RankStep
<1>8. PICK h : h = i - 1
  OBVIOUS
<1>9. h \in Nat /\ h + 1 = i /\ h < i
  BY <1>6, <1>7, <1>8
<1>10. ~(Rank(S, h) >= k)
  <2>1. h \notin T
    BY <1>5, <1>6, <1>9
  <2> QED
    BY <1>2, <1>9, <2>1
<1>11. Rank(S, i) = Rank(S, h) + (IF i \in S THEN 1 ELSE 0)
  BY <1>1, <1>9, RankStep
<1>12. i \in S /\ Rank(S, i) = k
  BY <1>3, <1>6, <1>9, <1>10, <1>11
<1>13. ASSUME NEW j \in S, Rank(S, j) = k PROVE j = i
  <2>1. j \in Nat
    BY <1>1
  <2>2. i < j => Rank(S, i) < Rank(S, j)
    BY <1>1, <1>6, <2>1, RankGrows
  <2>3. j < i => Rank(S, j) < Rank(S, i)
    BY <1>1, <1>6, <1>12, <2>1, RankGrows
  <2> QED
    BY <1>3, <1>6, <1>12, <1>13, <2>1, <2>2, <2>3
<1> QED
  BY <1>12, <1>13

\* The element at a rank is the one that has it.
LEMMA PlaceIs ==
  ASSUME NEW n \in Nat, NEW S \in SUBSET (1..n), NEW k \in 1..Cardinality(S)
  PROVE  /\ Place(S, k) \in S /\ Rank(S, Place(S, k)) = k
         /\ \A j \in S : Rank(S, j) = k => j = Place(S, k)
<1>1. PICK i \in S : Rank(S, i) = k /\ \A j \in S : Rank(S, j) = k => j = i
  BY RankIsMet
<1>2. PICK p : p = Place(S, k)
  OBVIOUS
<1>3. p \in S /\ Rank(S, p) = k
  BY <1>1, <1>2 DEF Place
<1> QED
  BY <1>1, <1>2, <1>3

\* The log with one more commit.
LEMMA LogGrows ==
  ASSUME NEW lg \in Seq(Writes), NEW w \in Writes, NEW lg2, lg2 = Append(lg, w)
  PROVE  /\ lg2 \in Seq(Writes) /\ Len(lg) \in Nat /\ Len(lg2) = Len(lg) + 1
         /\ lg2[Len(lg) + 1] = w /\ \A i \in 1..Len(lg) : lg2[i] = lg[i]
         /\ \A v : Has(lg2, v) <=> Has(lg, v) \/ v = w
<1>1. /\ lg2 \in Seq(Writes) /\ Len(lg) \in Nat /\ Len(lg2) = Len(lg) + 1
      /\ lg2[Len(lg) + 1] = w /\ \A i \in 1..Len(lg) : lg2[i] = lg[i]
  OBVIOUS
<1>2. \A i : i \in 1..Len(lg2) <=> i \in 1..Len(lg) \/ i = Len(lg) + 1
  BY <1>1
<1> QED
  BY <1>1, <1>2 DEF Has

\* What the log has after one more commit.
LEMMA LogHas ==
  ASSUME NEW lg \in Seq(Writes), NEW w \in Writes
  PROVE  \A v : Has(Append(lg, w), v) <=> Has(lg, v) \/ v = w
<1>1. PICK lg2 : lg2 = Append(lg, w)
  OBVIOUS
<1>2. \A v : Has(lg2, v) <=> Has(lg, v) \/ v = w
  BY <1>1, LogGrows
<1> QED
  BY <1>1, <1>2

\* Where a write is for the first time in the longer log.
LEMMA FirstsGrow ==
  ASSUME NEW lg \in Seq(Writes), NEW w \in Writes, NEW lg2, lg2 = Append(lg, w)
  PROVE  Firsts(lg2) = IF Has(lg, w) THEN Firsts(lg) ELSE Firsts(lg) \cup {Len(lg) + 1}
<1>1. PICK n : n = Len(lg)
  OBVIOUS
<1>2. /\ n \in Nat /\ Len(lg2) = n + 1 /\ lg2[n + 1] = w
      /\ \A i \in 1..n : lg2[i] = lg[i]
  BY <1>1, LogGrows
<1>3. ASSUME NEW i \in 1..n PROVE i \in Firsts(lg2) <=> i \in Firsts(lg)
  <2>1. i \in 1..(n + 1) /\ \A j \in 1..(i - 1) : j \in 1..n
    BY <1>2
  <2>2. lg2[i] = lg[i] /\ \A j \in 1..(i - 1) : lg2[j] = lg[j]
    BY <1>2, <2>1
  <2> QED
    BY <1>1, <1>2, <2>1, <2>2 DEF Firsts
<1>4. n + 1 \in Firsts(lg2) <=> ~Has(lg, w)
  <2>1. n + 1 \in 1..(n + 1) /\ (n + 1) - 1 = n
    BY <1>2
  <2>2. n + 1 \in Firsts(lg2) <=> \A j \in 1..n : lg2[j] # lg2[n + 1]
    BY <1>2, <2>1 DEF Firsts
  <2> QED
    BY <1>1, <1>2, <2>2 DEF Has
<1>5. \A i \in Firsts(lg2) : i \in 1..n \/ i = n + 1
  BY <1>2 DEF Firsts
<1>6. \A i \in Firsts(lg) : i \in 1..n
  BY <1>1 DEF Firsts
<1>7. n + 1 \notin 1..n
  BY <1>2
<1>8. PICK S, T, m : S = Firsts(lg) /\ T = Firsts(lg2) /\ m = n + 1
  OBVIOUS
<1>9. CASE Has(lg, w)
  <2>1. \A i : i \in T <=> i \in S
    BY <1>3, <1>4, <1>5, <1>6, <1>7, <1>8, <1>9
  <2>2. T = S
    BY <2>1
  <2> QED
    BY <1>8, <1>9, <2>2
<1>10. CASE ~Has(lg, w)
  <2>1. \A i : i \in T <=> i \in S \/ i = m
    BY <1>3, <1>4, <1>5, <1>6, <1>7, <1>8, <1>10
  <2>2. T = S \cup {m}
    BY <2>1
  <2> QED
    BY <1>1, <1>8, <1>10, <2>2
<1> QED
  BY <1>9, <1>10

\* A repeated commit is not among the first ones.
LEMMA CommitAgain ==
  ASSUME NEW lg \in Seq(Writes), NEW w \in Writes, NEW lg2, lg2 = Append(lg, w), Has(lg, w)
  PROVE  CommitsOf(lg2) = CommitsOf(lg)
<1>1. PICK S, n : S = Firsts(lg) /\ n = Len(lg)
  OBVIOUS
<1>2. n \in Nat /\ S \in SUBSET (1..n) /\ \A i \in 1..n : lg2[i] = lg[i]
  BY <1>1, LogGrows DEF Firsts
<1>3. Firsts(lg2) = S
  BY <1>1, FirstsGrow
<1>4. ASSUME NEW k \in 1..Cardinality(S) PROVE lg2[Place(S, k)] = lg[Place(S, k)]
  <2>1. Place(S, k) \in S
    BY <1>2, PlaceIs
  <2> QED
    BY <1>2, <2>1
<1> QED
  BY <1>1, <1>3, <1>4 DEF CommitsOf

\* A first commit comes after the others.
LEMMA CommitFirst ==
  ASSUME NEW lg \in Seq(Writes), NEW w \in Writes, NEW lg2, lg2 = Append(lg, w), ~Has(lg, w)
  PROVE  CommitsOf(lg2) = Append(CommitsOf(lg), w)
<1>1. PICK S, T, n : S = Firsts(lg) /\ T = Firsts(lg2) /\ n = Len(lg)
  OBVIOUS
<1>2. /\ n \in Nat /\ S \in SUBSET (1..n) /\ \A i \in 1..n : lg2[i] = lg[i] /\ lg[i] \in Writes
      /\ lg2[n + 1] = w
  BY <1>1, LogGrows DEF Firsts
<1>3. T = S \cup {n + 1} /\ n + 1 \notin S
  <2>1. T = S \cup {n + 1}
    BY <1>1, FirstsGrow
  <2>2. n + 1 \notin 1..n
    BY <1>2
  <2> QED
    BY <1>2, <2>1, <2>2
<1>4. PICK c : c = Cardinality(S)
  OBVIOUS
<1>5. IsFiniteSet(S) /\ c \in Nat /\ Cardinality(T) = c + 1
  <2>1. IsFiniteSet(1..n)
    BY <1>2, FS_Interval
  <2>2. IsFiniteSet(S)
    BY <1>2, <2>1, FS_Subset
  <2> QED
    BY <1>3, <1>4, <2>2, FS_CardinalityType, FS_AddElement
<1>6. T \in SUBSET (1..(n + 1))
  BY <1>2, <1>3
<1>7. Rank(T, n + 1) = c + 1
  <2>1. T \cap 1..(n + 1) = T
    BY <1>6
  <2> QED
    BY <1>5, <2>1 DEF Rank
<1>8. \A i \in 1..n : Rank(T, i) = Rank(S, i)
  <2> SUFFICES ASSUME NEW i \in 1..n PROVE T \cap 1..i = S \cap 1..i
    BY DEF Rank
  <2>1. n + 1 \notin 1..i
    BY <1>2
  <2> QED
    BY <1>3, <2>1
<1>9. ASSUME NEW k \in 1..c PROVE /\ lg2[Place(T, k)] = lg[Place(S, k)]
                                  /\ lg[Place(S, k)] \in Writes
  <2>1. PICK p : p = Place(S, k)
    OBVIOUS
  <2>2. p \in S /\ Rank(S, p) = k
    BY <1>2, <1>4, <2>1, PlaceIs
  <2>3. p \in T /\ p \in 1..n /\ Rank(T, p) = k
    BY <1>2, <1>3, <1>8, <2>2
  <2>4. k \in 1..Cardinality(T)
    BY <1>5
  <2>5. p = Place(T, k)
    <3>1. n + 1 \in Nat
      BY <1>2
    <3> QED
      BY <1>6, <2>3, <2>4, <3>1, PlaceIs
  <2> QED
    BY <1>2, <2>1, <2>3, <2>5
<1>10. lg2[Place(T, c + 1)] = w
  <2>1. n + 1 \in T /\ n + 1 \in Nat /\ c + 1 \in 1..Cardinality(T)
    BY <1>2, <1>3, <1>5
  <2>2. n + 1 = Place(T, c + 1)
    BY <1>6, <1>7, <2>1, PlaceIs
  <2> QED
    BY <1>2, <2>2
<1>11. PICK a, b : a = CommitsOf(lg) /\ b = CommitsOf(lg2)
  OBVIOUS
<1>12. /\ a = [k \in 1..c |-> lg[Place(S, k)]]
       /\ b = [k \in 1..(c + 1) |-> lg2[Place(T, k)]]
  BY <1>1, <1>4, <1>5, <1>11 DEF CommitsOf
<1>13. a \in [1..c -> Writes] /\ \A k \in 1..c : b[k] = a[k]
  <2>1. \A k \in 1..c : k \in 1..(c + 1)
    BY <1>5
  <2> QED
    BY <1>9, <1>12, <2>1
<1>14. b[c + 1] = w /\ DOMAIN b = 1..(c + 1)
  <2>1. c + 1 \in 1..(c + 1)
    BY <1>5
  <2> QED
    BY <1>10, <1>12, <2>1
<1>15. a \in Seq(Writes) /\ Len(a) = c
  BY <1>5, <1>13, FunctionIsSeq
<1>16. \A k \in 1..(c + 1) : k \in 1..c \/ k = c + 1
  BY <1>5
<1>17. b \in [1..(c + 1) -> Writes]
  <2>1. \A k \in 1..(c + 1) : b[k] \in Writes
    BY <1>13, <1>14, <1>16
  <2> QED
    BY <1>12, <2>1
<1>18. b \in Seq(Writes) /\ Len(b) = c + 1
  BY <1>5, <1>17, FunctionIsSeq
<1>19. PICK d : d = Append(a, w)
  OBVIOUS
<1>20. /\ d \in Seq(Writes) /\ Len(d) = c + 1 /\ d[c + 1] = w
       /\ \A k \in 1..c : d[k] = a[k]
  BY <1>15, <1>19
<1>21. b = d
  <2>1. \A k \in 1..(c + 1) : b[k] = d[k]
    BY <1>13, <1>14, <1>16, <1>20
  <2> QED
    BY <1>18, <1>20, <2>1
<1> QED
  BY <1>11, <1>19, <1>21

(***************************************************************************)
(* Steps of the queues and the log                                         *)
(***************************************************************************)
\* A write more, which was not made before, is outstanding.
LEMMA WriteOpens ==
  ASSUME NEW q \in Seq(Batches), NEW b \in Batches, NEW lg, NEW n, Prefix(q, lg, n),
         ~Has(lg, b.write)
  PROVE  /\ Prefix(Append(q, b), lg, n)
         /\ Open(Append(q, b), lg) = Append(Open(q, lg), b.write)
<1>1. PICK a, k : a = Append(q, b) /\ k = Len(q)
  OBVIOUS
<1>2. /\ k \in Nat /\ a \in Seq(Batches) /\ Len(a) = k + 1
      /\ a[k + 1] = b /\ \A i \in 1..k : a[i] = q[i]
  BY <1>1
<1>3. n \in 0..k /\ \A i \in 1..k : Has(lg, q[i].write) <=> i <= n
  BY <1>1 DEF Prefix
<1>4. n \in 0..Len(a)
  BY <1>2, <1>3
<1>5. ASSUME NEW i \in 1..Len(a) PROVE Has(lg, a[i].write) <=> i <= n
  <2>1. CASE i \in 1..k
    BY <1>2, <1>3, <2>1
  <2>2. CASE i = k + 1
    <3>1. ~(i <= n)
      BY <1>2, <1>3, <2>2
    <3> QED
      BY <1>2, <2>2, <3>1
  <2> QED
    BY <1>2, <2>1, <2>2
<1>6. Prefix(a, lg, n)
  BY <1>4, <1>5 DEF Prefix
<1>7. Open(a, lg) = Rest(a, n) /\ Open(q, lg) = Rest(q, n)
  BY <1>2, <1>6, OpenIsRest
<1>8. Rest(a, n) = Append(Rest(q, n), b.write)
  BY <1>1, <1>3, RestGrows
<1> QED
  BY <1>1, <1>6, <1>7, <1>8

\* The first write leaves a queue: it was committed and what is outstanding stays, or
\* it was not and is the first that was outstanding.
LEMMA FirstLeaves ==
  ASSUME NEW q \in Seq(Batches), NEW lg, NEW n, Prefix(q, lg, n), q # <<>>
  PROVE  /\ \E m \in 0..Len(Tail(q)) : Prefix(Tail(q), lg, m)
         /\ Has(lg, q[1].write) => Open(Tail(q), lg) = Open(q, lg)
         /\ ~Has(lg, q[1].write) => /\ Open(q, lg) # <<>>
                                    /\ Head(Open(q, lg)) = q[1].write
                                    /\ Open(Tail(q), lg) = Tail(Open(q, lg))
<1>1. PICK t, k : t = Tail(q) /\ k = Len(q)
  OBVIOUS
<1>2. /\ k \in Nat /\ k >= 1 /\ t \in Seq(Batches) /\ Len(t) = k - 1
      /\ \A i \in 1..(k - 1) : t[i] = q[i + 1]
  BY <1>1
<1>3. n \in 0..k /\ \A i \in 1..k : Has(lg, q[i].write) <=> i <= n
  BY <1>1 DEF Prefix
<1>4. PICK m : m = IF n = 0 THEN 0 ELSE n - 1
  OBVIOUS
<1>5. m \in 0..(k - 1)
  BY <1>2, <1>3, <1>4
<1>6. ASSUME NEW i \in 1..(k - 1) PROVE Has(lg, t[i].write) <=> i <= m
  <2>1. i + 1 \in 1..k /\ t[i] = q[i + 1]
    BY <1>2
  <2>2. Has(lg, t[i].write) <=> i + 1 <= n
    BY <1>3, <2>1
  <2>3. i + 1 <= n <=> i <= m
    BY <1>2, <1>3, <1>4
  <2> QED
    BY <2>2, <2>3
<1>7. Prefix(t, lg, m)
  BY <1>2, <1>5, <1>6 DEF Prefix
<1>8. Open(t, lg) = Rest(t, m) /\ Open(q, lg) = Rest(q, n)
  BY <1>2, <1>7, OpenIsRest
<1>9. Rest(t, m) = Rest(q, m + 1)
  <2>1. m \in 0..(Len(q) - 1)
    BY <1>1, <1>5
  <2> QED
    BY <1>1, <2>1, RestOfTail
<1>10. Has(lg, q[1].write) <=> n >= 1
  <2>1. 1 \in 1..k
    BY <1>2
  <2> QED
    BY <1>3, <2>1
<1>11. ASSUME n >= 1 PROVE Open(t, lg) = Open(q, lg)
  <2>1. m + 1 = n
    BY <1>3, <1>4, <1>11
  <2> QED
    BY <1>8, <1>9, <2>1
<1>12. ASSUME n = 0 PROVE /\ Open(q, lg) # <<>> /\ Head(Open(q, lg)) = q[1].write
                          /\ Open(t, lg) = Tail(Open(q, lg))
  <2>1. m = 0 /\ 0 \in 0..(Len(q) - 1) /\ 0 + 1 = 1
    BY <1>1, <1>2, <1>4, <1>12
  <2>2. /\ Rest(q, 0) # <<>> /\ Head(Rest(q, 0)) = q[0 + 1].write
        /\ Tail(Rest(q, 0)) = Rest(q, 0 + 1)
    BY <2>1, RestNext
  <2> QED
    BY <1>8, <1>9, <1>12, <2>1, <2>2
<1>13. \E x \in 0..Len(t) : Prefix(t, lg, x)
  BY <1>2, <1>5, <1>7
<1>14. n = 0 \/ n >= 1
  BY <1>3
<1> QED
  BY <1>1, <1>10, <1>11, <1>12, <1>13, <1>14

\* The server commits the write after the first m, which it has: if it had that one
\* too, nothing changes; otherwise it is the first that was outstanding.
LEMMA NextCommits ==
  ASSUME NEW q \in Seq(Batches), NEW lg \in Seq(Writes), NEW n, Prefix(q, lg, n),
         \A i, j \in 1..Len(q) : q[i].write = q[j].write => i = j,
         NEW m \in 0..(Len(q) - 1), \A i \in 1..m : Has(lg, q[i].write),
         NEW w \in Writes, w = q[m + 1].write, NEW lg2, lg2 = Append(lg, w), ~Has(lg, w)
  PROVE  /\ Prefix(q, lg2, m + 1)
         /\ Open(q, lg) # <<>> /\ Head(Open(q, lg)) = w
         /\ Open(q, lg2) = Tail(Open(q, lg))
<1>1. PICK k : k = Len(q)
  OBVIOUS
<1>2. k \in Nat /\ m \in Nat /\ m + 1 <= k /\ m + 1 \in 1..k
  BY <1>1
<1>3. n \in 0..k /\ \A i \in 1..k : Has(lg, q[i].write) <=> i <= n
  BY <1>1 DEF Prefix
<1>4. n = m
  <2>1. ~(m + 1 <= n)
    BY <1>2, <1>3
  <2>2. m # 0 => m <= n
    <3>1. m # 0 => m \in 1..m /\ m \in 1..k
      BY <1>2
    <3> QED
      BY <1>3, <3>1
  <2> QED
    BY <1>2, <1>3, <2>1, <2>2
<1>5. \A v : Has(lg2, v) <=> Has(lg, v) \/ v = w
  BY LogHas
<1>6. ASSUME NEW i \in 1..k PROVE Has(lg2, q[i].write) <=> i <= m + 1
  <2>1. q[i].write = w <=> i = m + 1
    BY <1>1, <1>2
  <2>2. Has(lg, q[i].write) <=> i <= m
    BY <1>3, <1>4
  <2>3. i <= m + 1 <=> i <= m \/ i = m + 1
    BY <1>2
  <2> QED
    BY <1>5, <2>1, <2>2, <2>3
<1>7. Prefix(q, lg2, m + 1)
  BY <1>1, <1>2, <1>6 DEF Prefix
<1>8. Open(q, lg2) = Rest(q, m + 1) /\ Open(q, lg) = Rest(q, m)
  BY <1>4, <1>7, OpenIsRest
<1>9. /\ Rest(q, m) # <<>> /\ Head(Rest(q, m)) = q[m + 1].write
      /\ Tail(Rest(q, m)) = Rest(q, m + 1)
  BY RestNext
<1> QED
  BY <1>7, <1>8, <1>9

\* A queue to which the log means the same is outstanding as before.
LEMMA OpenSame ==
  ASSUME NEW q, NEW lg, NEW lg2, \A i \in 1..Len(q) : Has(lg2, q[i].write) <=> Has(lg, q[i].write)
  PROVE  /\ Open(q, lg2) = Open(q, lg)
         /\ \A n : Prefix(q, lg, n) => Prefix(q, lg2, n)
<1>1. {i \in 1..Len(q) : Has(lg2, q[i].write)} = {i \in 1..Len(q) : Has(lg, q[i].write)}
  OBVIOUS
<1>2. Open(q, lg2) = Open(q, lg)
  BY <1>1 DEF Open
<1> QED
  BY <1>2 DEF Prefix

\* WriteMutations, for PendingWrites: a write is enqueued.
LEMMA CommitsWrite ==
  ASSUME NEW mq \in [Users -> Seq(Batches)], NEW lg \in Seq(Writes), NEW made,
         CommitsInOrder(mq, lg, made), NEW c \in Users, NEW b \in Batches, b.write \notin made,
         NEW mq2, Replaces(mq, mq2, c, Append(mq[c], b))
  PROVE  /\ CommitsInOrder(mq2, lg, made \cup {b.write})
         /\ Replaces(Opens(mq, lg), Opens(mq2, lg), c,
                        Append(Opens(mq, lg)[c], b.write))
<1>1. PICK q, k : q = mq[c] /\ k = Len(q)
  OBVIOUS
<1>2. /\ mq2 \in [Users -> Seq(Batches)]
      /\ mq2[c] = Append(q, b) /\ \A u \in Users : u # c => mq2[u] = mq[u]
  BY <1>1 DEF Replaces
<1>3. /\ q \in Seq(Batches) /\ k \in Nat /\ Len(mq2[c]) = k + 1 /\ mq2[c][k + 1] = b
      /\ \A i \in 1..k : mq2[c][i] = q[i]
  BY <1>1, <1>2
<1>4. ASSUME NEW u \in Users, NEW i \in 1..Len(mq2[u])
      PROVE  \/ i \in 1..Len(mq[u]) /\ mq2[u][i] = mq[u][i]
             \/ u = c /\ i = k + 1 /\ mq2[u][i] = b
  <2>1. CASE u = c
    <3>1. i \in 1..k \/ i = k + 1
      BY <1>3, <2>1
    <3> QED
      BY <1>1, <1>3, <2>1, <3>1
  <2>2. CASE u # c
    BY <1>2, <2>2
  <2> QED
    BY <2>1, <2>2
<1>5. \A u \in Users : \A i \in 1..Len(mq[u]) : mq[u][i].write \in made
  BY DEF CommitsInOrder
<1>6. \A u \in Users : \A i \in 1..Len(mq2[u]) : mq2[u][i].write \in made \cup {b.write}
  BY <1>4, <1>5
<1>7. ASSUME NEW u \in Users, NEW v \in Users, NEW i \in 1..Len(mq2[u]),
             NEW j \in 1..Len(mq2[v]), mq2[u][i].write = mq2[v][j].write
      PROVE  u = v /\ i = j
  <2>1. \/ i \in 1..Len(mq[u]) /\ mq2[u][i] = mq[u][i]
        \/ u = c /\ i = k + 1 /\ mq2[u][i] = b
    BY <1>4
  <2>2. \/ j \in 1..Len(mq[v]) /\ mq2[v][j] = mq[v][j]
        \/ v = c /\ j = k + 1 /\ mq2[v][j] = b
    BY <1>4
  <2>3. CASE i \in 1..Len(mq[u]) /\ mq2[u][i] = mq[u][i] /\ j \in 1..Len(mq[v])
             /\ mq2[v][j] = mq[v][j]
    BY <1>7, <2>3 DEF CommitsInOrder
  <2> QED
    BY <1>5, <1>7, <2>1, <2>2, <2>3
<1>8. \A j \in 1..Len(lg) : lg[j] \in made /\ lg[j] \notin Bad
  BY DEF CommitsInOrder
<1>9. ~Has(lg, b.write)
  BY <1>8 DEF Has
<1>10. \A u \in Users : \E n \in 0..Len(mq[u]) : Prefix(mq[u], lg, n)
  BY DEF CommitsInOrder
<1>11. PICK n \in 0..Len(q) : Prefix(q, lg, n)
  BY <1>1, <1>10
<1>12. Prefix(mq2[c], lg, n) /\ Open(mq2[c], lg) = Append(Open(q, lg), b.write)
  BY <1>2, <1>3, <1>9, <1>11, WriteOpens
<1>13. ASSUME NEW u \in Users PROVE \E x \in 0..Len(mq2[u]) : Prefix(mq2[u], lg, x)
  <2>1. n \in 0..Len(mq2[c])
    BY <1>12 DEF Prefix
  <2> QED
    BY <1>2, <1>10, <1>12, <2>1
<1>14. CommitsInOrder(mq2, lg, made \cup {b.write})
  BY <1>6, <1>7, <1>8, <1>13 DEF CommitsInOrder
<1>15. \A u \in Users : u # c => Open(mq2[u], lg) = Open(mq[u], lg)
  BY <1>2
<1> QED
  BY <1>1, <1>12, <1>14, <1>15 DEF Opens, Replaces

\* RemoveMutationBatch, for PendingWrites: nothing, if the write was committed, or else
\* a refusal.
LEMMA CommitsLeave ==
  ASSUME NEW mq \in [Users -> Seq(Batches)], NEW lg, NEW made,
         CommitsInOrder(mq, lg, made), NEW c \in Users, mq[c] # <<>>,
         NEW mq2, Replaces(mq, mq2, c, Tail(mq[c]))
  PROVE  /\ CommitsInOrder(mq2, lg, made)
         /\ Has(lg, mq[c][1].write) => Opens(mq2, lg) = Opens(mq, lg)
         /\ ~Has(lg, mq[c][1].write) =>
                /\ Opens(mq, lg)[c] # <<>> /\ Head(Opens(mq, lg)[c]) = mq[c][1].write
                /\ Replaces(Opens(mq, lg), Opens(mq2, lg), c, Tail(Opens(mq, lg)[c]))
<1>1. PICK q, k : q = mq[c] /\ k = Len(q)
  OBVIOUS
<1>2. mq2[c] = Tail(q) /\ \A u \in Users : u # c => mq2[u] = mq[u]
  BY <1>1 DEF Replaces
<1>3. /\ q \in Seq(Batches) /\ k \in Nat /\ Len(mq2[c]) = k - 1
      /\ \A i \in 1..(k - 1) : mq2[c][i] = q[i + 1]
  BY <1>1, <1>2
<1>4. PICK d : d = [u \in Users |-> IF u = c THEN 1 ELSE 0]
  OBVIOUS
<1>5. ASSUME NEW u \in Users, NEW i \in 1..Len(mq2[u])
      PROVE  i \in Int /\ i + d[u] \in 1..Len(mq[u]) /\ mq2[u][i] = mq[u][i + d[u]]
  <2>1. CASE u = c
    BY <1>1, <1>3, <1>4, <2>1
  <2>2. CASE u # c
    BY <1>2, <1>4, <2>2
  <2> QED
    BY <2>1, <2>2
<1>6. \A u \in Users : \A i \in 1..Len(mq2[u]) : mq2[u][i].write \in made
  <2>1. \A u \in Users : \A i \in 1..Len(mq[u]) : mq[u][i].write \in made
    BY DEF CommitsInOrder
  <2> QED
    BY <1>5, <2>1
<1>7. ASSUME NEW u \in Users, NEW v \in Users, NEW i \in 1..Len(mq2[u]),
             NEW j \in 1..Len(mq2[v]), mq2[u][i].write = mq2[v][j].write
      PROVE  u = v /\ i = j
  <2>1. /\ i \in Int /\ i + d[u] \in 1..Len(mq[u]) /\ mq2[u][i] = mq[u][i + d[u]]
        /\ j \in Int /\ j + d[v] \in 1..Len(mq[v]) /\ mq2[v][j] = mq[v][j + d[v]]
    BY <1>5
  <2>2. PICK x, y : x = i + d[u] /\ y = j + d[v]
    OBVIOUS
  <2>3. mq[u][x].write = mq[v][y].write
    BY <1>7, <2>1, <2>2
  <2>4. \A f, g \in Users : \A m \in 1..Len(mq[f]), o \in 1..Len(mq[g]) :
            mq[f][m].write = mq[g][o].write => f = g /\ m = o
    BY DEF CommitsInOrder
  <2>5. x \in 1..Len(mq[u]) /\ y \in 1..Len(mq[v])
    BY <2>1, <2>2
  <2>6. u = v /\ x = y
    BY <2>3, <2>4, <2>5
  <2>7. d[u] \in Int
    BY <1>4
  <2> QED
    BY <2>1, <2>2, <2>6, <2>7
<1>8. \A u \in Users : \E n \in 0..Len(mq[u]) : Prefix(mq[u], lg, n)
  BY DEF CommitsInOrder
<1>9. PICK n \in 0..Len(q) : Prefix(q, lg, n)
  BY <1>1, <1>8
<1>10. /\ \E m \in 0..Len(mq2[c]) : Prefix(mq2[c], lg, m)
       /\ Has(lg, q[1].write) => Open(mq2[c], lg) = Open(q, lg)
       /\ ~Has(lg, q[1].write) => /\ Open(q, lg) # <<>>
                                  /\ Head(Open(q, lg)) = q[1].write
                                  /\ Open(mq2[c], lg) = Tail(Open(q, lg))
  BY <1>1, <1>2, <1>3, <1>9, FirstLeaves
<1>11. \A u \in Users : \E x \in 0..Len(mq2[u]) : Prefix(mq2[u], lg, x)
  BY <1>2, <1>8, <1>10
<1>12. CommitsInOrder(mq2, lg, made)
  BY <1>6, <1>7, <1>11 DEF CommitsInOrder
<1>13. \A u \in Users : u # c => Open(mq2[u], lg) = Open(mq[u], lg)
  BY <1>2
<1> QED
  BY <1>1, <1>10, <1>12, <1>13 DEF Opens, Replaces

\* The write w comes after the first m of the queue q, which the log lg has.
Follows(q, m, w, lg) ==
    m \in 0..(Len(q) - 1) /\ w = q[m + 1].write /\ \A i \in 1..m : Has(lg, q[i].write)

\* The server's commit, for PendingWrites: nothing, if it is a repeated one, or else the
\* commit of the first outstanding write.
LEMMA CommitsCommit ==
  ASSUME NEW mq \in [Users -> Seq(Batches)], NEW lg \in Seq(Writes), NEW made,
         CommitsInOrder(mq, lg, made), NEW c \in Users, NEW m, NEW w \in Writes,
         Follows(mq[c], m, w, lg), w \notin Bad, NEW lg2, Grows(lg, w, lg2)
  PROVE  /\ CommitsInOrder(mq, lg2, made)
         /\ Has(lg, w) => Opens(mq, lg2) = Opens(mq, lg) /\ CommitsOf(lg2) = CommitsOf(lg)
         /\ ~Has(lg, w) =>
                /\ Opens(mq, lg)[c] # <<>> /\ Head(Opens(mq, lg)[c]) = w
                /\ Replaces(Opens(mq, lg), Opens(mq, lg2), c, Tail(Opens(mq, lg)[c]))
                /\ Grows(CommitsOf(lg), w, CommitsOf(lg2))
<1>1. PICK q : q = mq[c]
  OBVIOUS
<1>2. q \in Seq(Batches) /\ m \in 0..(Len(q) - 1) /\ m + 1 \in 1..Len(q) /\ w = q[m + 1].write
  BY <1>1 DEF Follows
<1>3. /\ \A u \in Users : \A i \in 1..Len(mq[u]) : mq[u][i].write \in made
      /\ \A u, v \in Users : \A i \in 1..Len(mq[u]), j \in 1..Len(mq[v]) :
             mq[u][i].write = mq[v][j].write => u = v /\ i = j
      /\ \A k \in 1..Len(lg) : lg[k] \in made /\ lg[k] \notin Bad
      /\ \A u \in Users : \E n \in 0..Len(mq[u]) : Prefix(mq[u], lg, n)
  BY DEF CommitsInOrder
<1>4. \A v : Has(lg2, v) <=> Has(lg, v) \/ v = w
  BY LogHas DEF Grows
<1>5. \A k \in 1..Len(lg2) : lg2[k] \in made /\ lg2[k] \notin Bad
  <2>1. w \in made
    BY <1>1, <1>2, <1>3
  <2>2. ASSUME NEW k \in 1..Len(lg2) PROVE lg2[k] = w \/ \E j \in 1..Len(lg) : lg2[k] = lg[j]
    <3>1. Has(lg2, lg2[k])
      BY DEF Has
    <3> QED
      BY <1>4, <3>1 DEF Has
  <2> QED
    BY <1>3, <2>1, <2>2
<1>6. CASE Has(lg, w)
  <2>1. ASSUME NEW u \in Users
        PROVE  /\ Open(mq[u], lg2) = Open(mq[u], lg)
               /\ \A n : Prefix(mq[u], lg, n) => Prefix(mq[u], lg2, n)
    <3>1. \A i \in 1..Len(mq[u]) : Has(lg2, mq[u][i].write) <=> Has(lg, mq[u][i].write)
      BY <1>4, <1>6
    <3> QED
      BY <3>1, OpenSame
  <2>2. \A u \in Users : \E n \in 0..Len(mq[u]) : Prefix(mq[u], lg2, n)
    BY <1>3, <2>1
  <2>3. CommitsInOrder(mq, lg2, made)
    BY <1>3, <1>5, <2>2 DEF CommitsInOrder
  <2>4. Opens(mq, lg2) = Opens(mq, lg)
    BY <2>1 DEF Opens, Replaces
  <2>5. CommitsOf(lg2) = CommitsOf(lg)
    BY <1>6, CommitAgain DEF Grows
  <2> QED
    BY <1>6, <2>3, <2>4, <2>5
<1>7. CASE ~Has(lg, w)
  <2>1. ASSUME NEW u \in Users, u # c
        PROVE  /\ Open(mq[u], lg2) = Open(mq[u], lg)
               /\ \A n : Prefix(mq[u], lg, n) => Prefix(mq[u], lg2, n)
    <3>1. \A i \in 1..Len(mq[u]) : mq[u][i].write # w
      BY <1>1, <1>2, <1>3, <2>1
    <3>2. \A i \in 1..Len(mq[u]) : Has(lg2, mq[u][i].write) <=> Has(lg, mq[u][i].write)
      BY <1>4, <3>1
    <3> QED
      BY <3>2, OpenSame
  <2>2. \A i, j \in 1..Len(q) : q[i].write = q[j].write => i = j
    BY <1>1, <1>3
  <2>3. PICK n \in 0..Len(q) : Prefix(q, lg, n)
    BY <1>1, <1>3
  <2>4. \A i \in 1..m : Has(lg, q[i].write)
    BY <1>1 DEF Follows
  <2>5. /\ Prefix(q, lg2, m + 1)
        /\ Open(q, lg) # <<>> /\ Head(Open(q, lg)) = w
        /\ Open(q, lg2) = Tail(Open(q, lg))
    BY <1>2, <1>7, <2>2, <2>3, <2>4, NextCommits DEF Grows
  <2>6. m + 1 \in 0..Len(q)
    BY <2>5 DEF Prefix
  <2>7. \A u \in Users : \E x \in 0..Len(mq[u]) : Prefix(mq[u], lg2, x)
    BY <1>1, <1>3, <2>1, <2>5, <2>6
  <2>8. CommitsInOrder(mq, lg2, made)
    BY <1>3, <1>5, <2>7 DEF CommitsInOrder
  <2>9. Replaces(Opens(mq, lg), Opens(mq, lg2), c, Tail(Opens(mq, lg)[c]))
    BY <1>1, <2>1, <2>5 DEF Opens, Replaces
  <2>10. CommitsOf(lg2) = Append(CommitsOf(lg), w)
    BY <1>7, CommitFirst DEF Grows
  <2> QED
    BY <1>1, <1>7, <2>5, <2>8, <2>9, <2>10 DEF Opens, Replaces, Grows
<1> QED
  BY <1>6, <1>7

(***************************************************************************)
(* The refinement                                                          *)
(***************************************************************************)
\* What PendingWrites sees of a state.
LEMMA Mapped ==
  /\ [u \in Users |-> Outstanding(u)] = Opens(mutation_queue, log)
  /\ FirstCommits = CommitsOf(log)
  BY DEF Outstanding, InLog, Opens, Open, Has, FirstCommits, CommitsOf, Firsts, Place, Rank

\* A write is enqueued.
LEMMA WriteEnqueues ==
  ASSUME PipelineInv, CommitInv, NEW w \in Writes, Write(w)
  PROVE  /\ CommitInv' /\ UNCHANGED log
         /\ Opens(mutation_queue', log') =
                [Opens(mutation_queue, log) EXCEPT
                    ![current_user] = Append(Opens(mutation_queue, log)[current_user], w)]
<1>1. /\ mutation_queue \in [Users -> Seq(Batches)] /\ log \in Seq(Writes)
      /\ current_user \in Users /\ next_batch_id \in Nat
      /\ issued \in Seq([user : Users, write : Writes])
  BY DEF PipelineInv, PipelineTypes
<1>2. PICK b, e : b = Batch(next_batch_id, w) /\ e = [user |-> current_user, write |-> w]
  OBVIOUS
<1>3. b \in Batches /\ b.write = w
  BY <1>1, <1>2 DEF Batches, Batch
<1>4. /\ \A i \in 1..Len(issued) : issued[i].write # w
      /\ mutation_queue' = [mutation_queue EXCEPT
                               ![current_user] = Append(mutation_queue[current_user], b)]
      /\ issued' = Append(issued, e) /\ log' = log
  BY <1>2 DEF Write, Queue
<1>5. PICK made : made = Issued
  OBVIOUS
<1>6. w \notin made
  BY <1>4, <1>5 DEF Issued
<1>7. Issued' = made \cup {w}
  <2>1. PICK R : R = [user : Users, write : Writes]
    OBVIOUS
  <2>2. issued \in Seq(R) /\ e \in R /\ e.write = w
    BY <1>1, <1>2, <2>1
  <2>3. PICK n, j : n = Len(issued) /\ j = issued'
    OBVIOUS
  <2>4. n \in Nat /\ Len(j) = n + 1 /\ j[n + 1] = e /\ \A i \in 1..n : j[i] = issued[i]
    BY <1>4, <2>2, <2>3
  <2>5. \A i : i \in 1..(n + 1) <=> i \in 1..n \/ i = n + 1
    BY <2>4
  <2>6. \A v : (\E i \in 1..(n + 1) : v = j[i].write)
                   <=> (\E i \in 1..n : v = issued[i].write) \/ v = w
    BY <2>2, <2>4, <2>5
  <2>7. /\ \A v : v \in Issued' <=> \E i \in 1..(n + 1) : v = j[i].write
        /\ \A v : v \in made <=> \E i \in 1..n : v = issued[i].write
    BY <1>5, <2>3, <2>4 DEF Issued
  <2> QED
    BY <2>6, <2>7
<1>8. PICK mq, mq2, lg, c : /\ mq = mutation_queue /\ mq2 = mutation_queue'
                            /\ lg = log /\ c = current_user
  OBVIOUS
<1>9. /\ mq \in [Users -> Seq(Batches)] /\ lg \in Seq(Writes) /\ c \in Users
      /\ CommitsInOrder(mq, lg, made) /\ b \in Batches /\ b.write \notin made
      /\ Replaces(mq, mq2, c, Append(mq[c], b))
  BY <1>1, <1>3, <1>4, <1>5, <1>6, <1>8 DEF CommitInv, Replaces
<1>10. /\ CommitsInOrder(mq2, lg, made \cup {b.write})
       /\ Replaces(Opens(mq, lg), Opens(mq2, lg), c,
                        Append(Opens(mq, lg)[c], b.write))
  BY <1>9, CommitsWrite
<1> QED
  BY <1>3, <1>4, <1>7, <1>8, <1>10 DEF CommitInv, Replaces

\* An acknowledged write was committed before: PendingWrites sees nothing.
LEMMA AnswerIsSilent ==
  ASSUME PipelineInv, CommitInv, MutationResult
  PROVE  /\ CommitInv' /\ UNCHANGED log
         /\ Opens(mutation_queue', log') = Opens(mutation_queue, log)
<1>1. remote.down # <<>> /\ Head(remote.down) = "ok"
  BY DEF MutationResult, Receive
<1>2. /\ Queue # <<>> /\ Head(remote.pipeline) = Queue[1] /\ Without(Queue[1]) = Tail(Queue)
      /\ Judged("ok", Queue[1].write, log)
  BY <1>1, AnswerFindsBatch
<1>3. /\ mutation_queue' = [mutation_queue EXCEPT
                               ![current_user] = Tail(mutation_queue[current_user])]
      /\ issued' = issued /\ log' = log
  BY <1>2 DEF MutationResult, Queue
<1>4. /\ mutation_queue \in [Users -> Seq(Batches)] /\ current_user \in Users
      /\ mutation_queue[current_user] # <<>>
  BY <1>2 DEF PipelineInv, PipelineTypes, Queue
<1>5. Has(log, mutation_queue[current_user][1].write)
  BY <1>2 DEF Judged, Has, Queue
<1>6. PICK mq, mq2, lg, c, made :
         /\ mq = mutation_queue /\ mq2 = mutation_queue' /\ lg = log /\ c = current_user
         /\ made = Issued
  OBVIOUS
<1>7. /\ mq \in [Users -> Seq(Batches)] /\ c \in Users /\ mq[c] # <<>>
      /\ CommitsInOrder(mq, lg, made) /\ Has(lg, mq[c][1].write)
      /\ Replaces(mq, mq2, c, Tail(mq[c]))
  BY <1>3, <1>4, <1>5, <1>6 DEF CommitInv, Replaces
<1>8. CommitsInOrder(mq2, lg, made) /\ Opens(mq2, lg) = Opens(mq, lg)
  BY <1>7, CommitsLeave
<1>9. Issued' = made
  BY <1>3, <1>6 DEF Issued
<1> QED
  BY <1>3, <1>6, <1>8, <1>9 DEF CommitInv

\* A rejected write is refused: it is the first outstanding one.
LEMMA RejectionRefuses ==
  ASSUME PipelineInv, CommitInv, WriteRejected
  PROVE  /\ CommitInv' /\ UNCHANGED log
         /\ Opens(mutation_queue, log)[current_user] # <<>>
         /\ Head(Opens(mutation_queue, log)[current_user]) \in Bad
         /\ Opens(mutation_queue', log') =
                [Opens(mutation_queue, log) EXCEPT
                    ![current_user] = Tail(Opens(mutation_queue, log)[current_user])]
<1>1. remote.down # <<>> /\ Head(remote.down) = "refused"
  BY DEF WriteRejected, Receive
<1>2. /\ Queue # <<>> /\ Head(remote.pipeline) = Queue[1] /\ Without(Queue[1]) = Tail(Queue)
      /\ Judged("refused", Queue[1].write, log)
  BY <1>1, AnswerFindsBatch
<1>3. /\ mutation_queue' = [mutation_queue EXCEPT
                               ![current_user] = Tail(mutation_queue[current_user])]
      /\ issued' = issued /\ log' = log
  BY <1>2 DEF WriteRejected, Blamed, Queue
<1>4. /\ mutation_queue \in [Users -> Seq(Batches)] /\ current_user \in Users
      /\ mutation_queue[current_user] # <<>>
  BY <1>2 DEF PipelineInv, PipelineTypes, Queue
<1>5. mutation_queue[current_user][1].write \in Bad
  BY <1>2 DEF Judged, Queue
<1>6. ~Has(log, mutation_queue[current_user][1].write)
  BY <1>5 DEF Has, CommitInv, CommitsInOrder
<1>7. PICK mq, mq2, lg, c, made :
         /\ mq = mutation_queue /\ mq2 = mutation_queue' /\ lg = log /\ c = current_user
         /\ made = Issued
  OBVIOUS
<1>8. /\ mq \in [Users -> Seq(Batches)] /\ c \in Users /\ mq[c] # <<>>
      /\ CommitsInOrder(mq, lg, made) /\ ~Has(lg, mq[c][1].write)
      /\ Replaces(mq, mq2, c, Tail(mq[c]))
  BY <1>3, <1>4, <1>6, <1>7 DEF CommitInv, Replaces
<1>9. /\ CommitsInOrder(mq2, lg, made)
      /\ Opens(mq, lg)[c] # <<>> /\ Head(Opens(mq, lg)[c]) = mq[c][1].write
      /\ Replaces(Opens(mq, lg), Opens(mq2, lg), c, Tail(Opens(mq, lg)[c]))
  BY <1>8, CommitsLeave
<1>10. Issued' = made
  BY <1>3, <1>7 DEF Issued
<1> QED
  BY <1>3, <1>5, <1>7, <1>9, <1>10 DEF CommitInv, Replaces

\* A commit is that of the first outstanding write, or a repeated one.
LEMMA ServerCommits ==
  ASSUME PipelineInv, CommitInv, ServerCommit
  PROVE  /\ CommitInv' /\ UNCHANGED mutation_queue
         /\ \/ /\ Opens(mutation_queue', log') = Opens(mutation_queue, log)
               /\ CommitsOf(log') = CommitsOf(log)
            \/ /\ Opens(mutation_queue, log)[current_user] # <<>>
               /\ Head(Opens(mutation_queue, log)[current_user]) \notin Bad
               /\ Opens(mutation_queue', log') =
                      [Opens(mutation_queue, log) EXCEPT
                          ![current_user] = Tail(Opens(mutation_queue, log)[current_user])]
               /\ CommitsOf(log') = Append(CommitsOf(log),
                                           Head(Opens(mutation_queue, log)[current_user]))
<1>0. PICK s, q, c : s = remote /\ q = Queue /\ c = current_user
  OBVIOUS
<1>1. /\ mutation_queue \in [Users -> Seq(Batches)] /\ log \in Seq(Writes) /\ c \in Users
      /\ q = mutation_queue[c] /\ q \in Seq(Batches)
      /\ s \in RemoteStore /\ Front(s, q) /\ WireDown(s) /\ Shaking(s) /\ Answering(s, log)
  BY <1>0 DEF PipelineInv, PipelineTypes, Queue, Settled, Working
<1>2. PICK w : w = Head(s.up).write
  OBVIOUS
<1>3. /\ s.up # <<>> /\ Head(s.up) # Handshake /\ w \notin Bad
      /\ \A i \in 1..Len(s.down) : s.down[i] # "refused"
      /\ log' = Append(log, w) /\ UNCHANGED <<mutation_queue, issued>>
  BY <1>0, <1>2 DEF ServerCommit, Serving, local
<1>4. s.pipeline \in Seq(Batches) /\ s.down \in Seq(Answers) /\ s.up \in Seq(Messages)
  BY <1>1 DEF RemoteStore
<1>5. Ready(s)
  <2>1. s.state = "Open"
    BY <1>1, <1>3 DEF WireDown
  <2>2. s.up = <<Handshake>> => Head(s.up) = Handshake
    OBVIOUS
  <2> QED
    BY <1>1, <1>3, <2>1, <2>2 DEF Shaking, Ready, RemoteStore
<1>6. Matching(s.down, s.up, s.pipeline, log)
  BY <1>1, <1>5 DEF Answering
<1>7. PICK m, l, p : m = Len(s.down) /\ l = Len(s.up) /\ p = Len(s.pipeline)
  OBVIOUS
<1>8. /\ m \in Nat /\ l \in Nat /\ p \in Nat /\ m + l = p /\ l >= 1 /\ p <= Len(q)
      /\ Head(s.up) = s.up[1]
  <2>1. m \in Nat /\ l \in Nat /\ p \in Nat
    BY <1>4, <1>7
  <2>2. l >= 1 /\ Head(s.up) = s.up[1]
    BY <1>3, <1>4, <1>7
  <2>3. m + l = p
    BY <1>6, <1>7 DEF Matching
  <2>4. p <= Len(q)
    BY <1>1, <1>7 DEF Front
  <2> QED
    BY <2>1, <2>2, <2>3, <2>4
<1>9. m \in 0..(Len(q) - 1) /\ m + 1 \in 1..p
  BY <1>1, <1>8
<1>10. w = q[m + 1].write /\ w \in Writes
  <2>1. 1 \in 1..l
    BY <1>8
  <2>2. s.up[1] = s.pipeline[m + 1]
    BY <1>6, <1>7, <2>1 DEF Matching
  <2>3. s.pipeline[m + 1] = q[m + 1] /\ s.pipeline[m + 1] \in Batches
    BY <1>1, <1>4, <1>7, <1>9 DEF Front
  <2> QED
    BY <1>2, <1>8, <2>2, <2>3 DEF Batches
<1>11. \A i \in 1..m : Has(log, q[i].write)
  <2> SUFFICES ASSUME NEW i \in 1..m PROVE Has(log, q[i].write)
    OBVIOUS
  <2>1. Judged(s.down[i], s.pipeline[i].write, log) /\ s.down[i] # "refused"
    BY <1>3, <1>6, <1>7 DEF Matching
  <2>2. i \in 1..p
    BY <1>8
  <2>3. s.pipeline[i] = q[i]
    BY <1>1, <1>7, <2>2 DEF Front
  <2> QED
    BY <2>1, <2>3 DEF Judged, Has
<1>12. PICK mq, lg, lg2, made :
          mq = mutation_queue /\ lg = log /\ lg2 = log' /\ made = Issued
  OBVIOUS
<1>13. /\ mq \in [Users -> Seq(Batches)] /\ lg \in Seq(Writes) /\ c \in Users
       /\ CommitsInOrder(mq, lg, made) /\ w \in Writes /\ w \notin Bad
       /\ Grows(lg, w, lg2) /\ q = mq[c]
  BY <1>1, <1>3, <1>10, <1>12 DEF CommitInv, Grows
<1>14. Follows(mq[c], m, w, lg)
  BY <1>9, <1>10, <1>11, <1>12, <1>13 DEF Follows
<1>15. /\ CommitsInOrder(mq, lg2, made)
       /\ Has(lg, w) => Opens(mq, lg2) = Opens(mq, lg) /\ CommitsOf(lg2) = CommitsOf(lg)
       /\ ~Has(lg, w) =>
              /\ Opens(mq, lg)[c] # <<>> /\ Head(Opens(mq, lg)[c]) = w
              /\ Replaces(Opens(mq, lg), Opens(mq, lg2), c, Tail(Opens(mq, lg)[c]))
              /\ Grows(CommitsOf(lg), w, CommitsOf(lg2))
  BY <1>13, <1>14, CommitsCommit
<1>16. Issued' = made
  BY <1>3, <1>12 DEF Issued
<1> QED
  BY <1>0, <1>3, <1>12, <1>15, <1>16 DEF CommitInv, Replaces, Grows

\* No other step changes what is persisted.
LEMMA OthersKeep ==
  [Next]_vars => \/ \E w \in Writes : Write(w)
                 \/ MutationResult \/ WriteRejected \/ ServerCommit
                 \/ UNCHANGED <<mutation_queue, issued, log>>
  BY DEF Next, HandleCredentialChange, Restart, ConnectivityChanged, StreamFails, Crash,
     Connect, CredentialsArrive, CredentialsFail, BackoffElapsed, IdleTimeout, Respond,
     HandshakeComplete, Server, ServerHandshake, ServerRefuse, vars, local

\* Each step of the write path is one of PendingWrites, or leaves it alone.
LEMMA PipelineStep ==
  ASSUME PipelineInv, CommitInv, [Next]_vars
  PROVE  /\ CommitInv'
         /\ \/ Pending!Next
            \/ UNCHANGED <<[u \in Users |-> Outstanding(u)], FirstCommits>>
<1>1. PICK Q, L, Q2, L2 : /\ Q = Opens(mutation_queue, log) /\ L = CommitsOf(log)
                          /\ Q2 = Opens(mutation_queue', log') /\ L2 = CommitsOf(log')
  OBVIOUS
<1>2. /\ [u \in Users |-> Outstanding(u)] = Q /\ FirstCommits = L
      /\ [u \in Users |-> Outstanding(u)]' = Q2 /\ FirstCommits' = L2
  BY <1>1, Mapped
  DEF Outstanding, InLog, Opens, Open, Has, FirstCommits, CommitsOf, Firsts, Place, Rank
<1>3. PICK c : c = current_user
  OBVIOUS
<1>4. c \in Users
  BY <1>3 DEF PipelineInv, PipelineTypes
<1>5. CASE \E w \in Writes : Write(w)
  <2>1. PICK w \in Writes : Write(w)
    BY <1>5
  <2>2. /\ CommitInv' /\ L2 = L /\ Q2 = [Q EXCEPT ![c] = Append(Q[c], w)]
    BY <1>1, <1>3, <2>1, WriteEnqueues
  <2>3. Pending!Enqueue(c, w)
    BY <1>2, <2>2 DEF Pending!Enqueue
  <2> QED
    BY <1>4, <2>2, <2>3 DEF Pending!Next
<1>6. CASE MutationResult
  <2>1. CommitInv' /\ L2 = L /\ Q2 = Q
    BY <1>1, <1>6, AnswerIsSilent
  <2> QED
    BY <1>2, <2>1
<1>7. CASE WriteRejected
  <2>1. /\ CommitInv' /\ L2 = L /\ Q[c] # <<>> /\ Head(Q[c]) \in Bad
        /\ Q2 = [Q EXCEPT ![c] = Tail(Q[c])]
    BY <1>1, <1>3, <1>7, RejectionRefuses
  <2>2. Pending!Refuse(c)
    BY <1>2, <2>1 DEF Pending!Refuse
  <2> QED
    BY <1>4, <2>1, <2>2 DEF Pending!Next
<1>8. CASE ServerCommit
  <2>1. /\ CommitInv'
        /\ \/ Q2 = Q /\ L2 = L
           \/ /\ Q[c] # <<>> /\ Head(Q[c]) \notin Bad
              /\ Q2 = [Q EXCEPT ![c] = Tail(Q[c])] /\ L2 = Append(L, Head(Q[c]))
    BY <1>1, <1>3, <1>8, ServerCommits
  <2>2. CASE Q2 = Q /\ L2 = L
    BY <1>2, <2>1, <2>2
  <2>3. CASE /\ Q[c] # <<>> /\ Head(Q[c]) \notin Bad
             /\ Q2 = [Q EXCEPT ![c] = Tail(Q[c])] /\ L2 = Append(L, Head(Q[c]))
    <3>1. Pending!Commit(c)
      BY <1>2, <2>3 DEF Pending!Commit
    <3> QED
      BY <1>4, <2>1, <3>1 DEF Pending!Next
  <2> QED
    BY <2>1, <2>2, <2>3
<1>9. CASE UNCHANGED <<mutation_queue, issued, log>>
  <2>1. CommitInv'
    BY <1>9 DEF CommitInv, Issued
  <2>2. Q2 = Q /\ L2 = L
    BY <1>1, <1>9
  <2> QED
    BY <1>2, <2>1, <2>2
<1> QED
  BY <1>5, <1>6, <1>7, <1>8, <1>9, OthersKeep

\* Nothing is pending or committed at first.
LEMMA PipelineStart ==
  ASSUME Init
  PROVE  CommitInv /\ Pending!Init
<1>1. mutation_queue = [u \in Users |-> <<>>] /\ log = <<>>
  BY DEF Init
<1>2. Len(log) = 0 /\ \A u \in Users : mutation_queue[u] = <<>> /\ Len(mutation_queue[u]) = 0
  BY <1>1
<1>3. 1..0 = {} /\ 0 \in 0..0
  OBVIOUS
<1>4. CommitInv
  BY <1>2, <1>3 DEF CommitInv, CommitsInOrder, Prefix
<1>5. \A u \in Users : Outstanding(u) = <<>>
  <2> SUFFICES ASSUME NEW u \in Users PROVE Outstanding(u) = <<>>
    OBVIOUS
  <2>1. {i \in 1..Len(mutation_queue[u]) : InLog(mutation_queue[u][i].write)} = {}
    BY <1>2, <1>3
  <2>2. Outstanding(u) = [i \in 1..(0 - 0) |-> mutation_queue[u][0 + i].write]
    BY <1>2, <2>1, FS_EmptySet DEF Outstanding
  <2> QED
    BY <1>3, <2>2
<1>6. FirstCommits = <<>>
  <2>1. {i \in 1..Len(log) : \A j \in 1..(i - 1) : log[j] # log[i]} = {}
    BY <1>2, <1>3
  <2>2. Firsts(log) = {} /\ Cardinality(Firsts(log)) = 0
    BY <2>1, FS_EmptySet DEF Firsts
  <2>3. CommitsOf(log) = <<>>
    BY <1>3, <2>2 DEF CommitsOf
  <2> QED
    BY <2>3, Mapped
<1> QED
  BY <1>4, <1>5, <1>6 DEF Pending!Init

\* To its caller the write path is PendingWrites: whatever fails, every user's writes are
\* committed once, as far as first commits go, in the order they were made, and only
\* those the server refuses are dropped.
THEOREM PipelineRefinesPending == Spec => ImplementsPendingWrites
<1>1. Init => CommitInv /\ Pending!Init
  BY PipelineStart
<1>2. PipelineInv /\ CommitInv /\ [Next]_vars =>
          /\ CommitInv'
          /\ [Pending!Next]_<<[u \in Users |-> Outstanding(u)], FirstCommits>>
  BY PipelineStep
<1> QED
  BY <1>1, <1>2, PipelineInvariant, PTL DEF Spec, ImplementsPendingWrites, Pending!Spec
=============================================================================
