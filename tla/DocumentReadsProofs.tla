-------------------------- MODULE DocumentReadsProofs --------------------------
(***************************************************************************)
(* Proofs about Firestore's read path: no HARD_ASSERT fails, a callback is *)
(* called at most once, the answers that are due are on the wire, and an   *)
(* answer of the server's is as new as the listen.                         *)
(***************************************************************************)
EXTENDS DocumentReads, SequenceTheorems, FiniteSetTheorems, WellFoundedInduction, TLAPS

(***************************************************************************)
(* Values                                                                  *)
(***************************************************************************)
States == {"Initial", "Starting", "Open", "Error", "Backoff"}
OnlineStates == {"Unknown", "Online", "Offline"}
Targets == [outstanding : Int, current : BOOLEAN, changed : BOOLEAN]
Aggregators == [targets : [Docs -> Targets], updates : [Docs -> Nat]]
Requests == [doc : Docs, watch : BOOLEAN, known : Nat]

TargetChanges == [kind : {"added", "removed", "current"}, doc : Docs]
DocumentChanges == [kind : {"document"}, doc : Docs, version : Nat]
Messages == TargetChanges \cup DocumentChanges \cup {Snapshot}

RemoteStore ==
    [is_network_enabled : BOOLEAN, listen_targets : SUBSET Docs, view : SUBSET Docs,
     aggregator : Aggregators, watched : SUBSET Docs, online : OnlineStates,
     watch_stream_failures : Nat, timer : BOOLEAN, state : States, close_count : Nat,
     tokens : SUBSET Nat, idleness_timer : BOOLEAN, up : Seq(Requests),
     down : Seq(Messages), failed : SUBSET STRING]

Events == [version : Nat, from_cache : BOOLEAN]
Operations == [add : BOOLEAN, read : Reads]

ReadTypes ==
    /\ reading \in [Reads -> Docs \cup {None}]
    /\ events \in [Reads -> Seq(Events)]
    /\ muted \subseteq Reads
    /\ answers \in [Reads -> Seq(Events)]
    /\ worker \in Seq(Operations)
    /\ listeners \in [Docs -> SUBSET Reads]
    /\ raised \subseteq Reads
    /\ cache \in [Docs -> Nat] /\ server \in [Docs -> Nat]
    /\ since \in [Docs -> Nat] /\ floor \in [Reads -> Nat]
    /\ remote \in RemoteStore

(***************************************************************************)
(* The inductive invariant, part by part: the remote store                 *)
(***************************************************************************)
\* A starting stream has one request for credentials that is not out of date.
TokensCurrent(s) ==
    /\ \A c \in s.tokens : c <= s.close_count
    /\ s.state = "Starting" <=> s.close_count \in s.tokens

\* The timer runs only while a stream that was started has neither failed nor
\* answered, and a client that is online has seen no failure.
Tracker(s) ==
    /\ s.timer => s.online = "Unknown" /\ IsStarted(s)
    /\ s.online = "Online" => s.watch_stream_failures = 0 /\ ~s.timer

\* A connection that is down: nothing is on the wire, no answer is due, the server
\* knows of no target.
Down(s) == s.up = <<>> /\ s.down = <<>> /\ s.aggregator = NewAggregator /\ s.watched = {}

\* What the HARD_ASSERTs rely on.
Calm(s) ==
    /\ s \in RemoteStore
    /\ s.failed = {} /\ IsFiniteSet(s.listen_targets)
    /\ TokensCurrent(s) /\ Tracker(s)
    /\ s.idleness_timer => s.state = "Open" /\ s.listen_targets = {}
    /\ s.state # "Open" => Down(s)
    /\ s.view \subseteq s.listen_targets

\* The places in q of the messages T.
Places(q, T) == {i \in 1..Len(q) : q[i] \in T}
About(d) == {m \in Requests : m.doc = d}
AnswersFor(d) == {m \in TargetChanges : m.kind # "current" /\ m.doc = d}
Asked(s, d) == Places(s.up, About(d))
Told(s, d) == Places(s.down, AnswersFor(d))

\* The answers that are due are underway.
Counted(s) ==
    \A d \in Docs : s.aggregator.targets[d].outstanding
                      = Cardinality(Asked(s, d)) + Cardinality(Told(s, d))

\* The last request about a target that is listened to is to watch it.
Wanted(s, d) ==
    /\ Asked(s, d) = {} => d \in s.watched
    /\ \A i \in Asked(s, d) : (\A j \in Asked(s, d) : j <= i) => s.up[i].watch

AllWanted(s) == IsOpen(s) => \A d \in s.listen_targets : Wanted(s, d)

\* Every answer about d comes before place i.
Behind(q, d, i) == \A j \in i..Len(q) : q[j] \notin AnswersFor(d)

IsDocument(m, d) == m \in DocumentChanges /\ m.doc = d

\* What is there of d before the message at place i of q, in the cache, in the
\* aggregator or on its way, is not older than v.
Supplied(q, d, i, updates, cached, v) ==
    \/ cached >= v
    \/ Behind(q, d, 1) /\ updates >= v
    \/ \E j \in 1..(i - 1) : Behind(q, d, j) /\ IsDocument(q[j], d)

\* The messages q behind the last answer about d: documents are not older than v,
\* and whenever the next snapshot comes there is one.
Current(q, d, updates, cached, v) ==
    /\ \A i \in 1..Len(q) : Behind(q, d, i) /\ IsDocument(q[i], d) => q[i].version >= v
    /\ \A i \in 1..Len(q) : Behind(q, d, i) /\ q[i] = Snapshot
                               => Supplied(q, d, i, updates, cached, v)
    /\ Supplied(q, d, Len(q) + 1, updates, cached, v)

AllCurrent(s, c, v) ==
    IsOpen(s) => \A d \in s.listen_targets :
                    Asked(s, d) = {} => Current(s.down, d, s.aggregator.updates[d], c[d], v[d])

\* The requests know of documents the cache has.
Known(s, c) == \A i \in 1..Len(s.up) : s.up[i].known <= c[s.up[i].doc]

\* A view that is current is not older than the listen.
ViewsFresh(s, c, v) == \A d \in s.view : c[d] >= v[d]

Settled(s, c, v) ==
    /\ s.is_network_enabled
    /\ Calm(s) /\ Counted(s) /\ AllWanted(s) /\ AllCurrent(s, c, v)
    /\ Known(s, c) /\ ViewsFresh(s, c, v)

(***************************************************************************)
(* The inductive invariant: listeners and reads                            *)
(***************************************************************************)
Listening == remote.listen_targets = {d \in Docs : listeners[d] # {}}
ListenersRead == \A d \in Docs : \A r \in listeners[d] : reading[r] = d /\ floor[r] = since[d]
SinceServed == \A d \in Docs : since[d] <= server[d]

\* What an operation of the worker is about was read; nothing happened to a read
\* before its listener is added, which happens once.
Unheard(r) ==
    /\ \A d \in Docs : r \notin listeners[d]
    /\ events[r] = <<>> /\ answers[r] = <<>>

Enqueued ==
    /\ \A i \in 1..Len(worker) : /\ reading[worker[i].read] # None
                                 /\ worker[i].add => Unheard(worker[i].read)
    /\ \A i, j \in 1..Len(worker) :
          i # j /\ worker[i].add /\ worker[j].add => worker[i].read # worker[j].read

FreshFor(e, v) == ~e.from_cache => e.version >= v

Heard ==
    \A r \in Reads :
        /\ events[r] # <<>> \/ answers[r] # <<>> => reading[r] # None
        /\ \A i \in 1..Len(events[r]) : FreshFor(events[r][i], floor[r])
        /\ \A i \in 1..Len(answers[r]) : FreshFor(answers[r][i], floor[r])

Once == \A r \in Reads : Len(answers[r]) <= 1 /\ (r \notin muted => answers[r] = <<>>)

ReadInv ==
    /\ ReadTypes
    /\ Settled(remote, cache, since)
    /\ Listening /\ ListenersRead /\ SinceServed /\ Enqueued /\ Heard /\ Once

(***************************************************************************)
(* Places                                                                  *)
(***************************************************************************)
\* The places are finitely many.
LEMMA PlacesFinite ==
  ASSUME NEW S, NEW q \in Seq(S), NEW T
  PROVE  IsFiniteSet(Places(q, T)) /\ Cardinality(Places(q, T)) \in Nat
<1>1. Len(q) \in Nat /\ IsFiniteSet(1..Len(q))
  BY FS_Interval
<1>2. Places(q, T) \subseteq 1..Len(q)
  BY DEF Places
<1>3. IsFiniteSet(Places(q, T))
  BY <1>1, <1>2, FS_Subset
<1> QED
  BY <1>3, FS_CardinalityType

\* Nothing has no places.
LEMMA PlacesOfNothing ==
  ASSUME NEW T
  PROVE  Places(<<>>, T) = {}
<1>1. 1..Len(<<>>) = {}
  OBVIOUS
<1> QED
  BY <1>1 DEF Places

\* What two sequences make when they are joined.
LEMMA Joined ==
  ASSUME NEW S, NEW p \in Seq(S), NEW q \in Seq(S)
  PROVE  /\ p \o q \in Seq(S) /\ Len(p \o q) = Len(p) + Len(q)
         /\ \A i \in 1..Len(p) : (p \o q)[i] = p[i]
         /\ \A j \in 1..Len(q) : (p \o q)[Len(p) + j] = q[j]
  OBVIOUS

\* A place of two sequences joined is one of the first, or one of the second
\* moved by the length of the first.
LEMMA PlacesJoined ==
  ASSUME NEW S, NEW p \in Seq(S), NEW q \in Seq(S), NEW T
  PROVE  /\ \A i : i \in Places(p \o q, T) <=> \/ i \in Places(p, T)
                                               \/ \E j \in Places(q, T) : i = Len(p) + j
         /\ Cardinality(Places(p \o q, T))
              = Cardinality(Places(p, T)) + Cardinality(Places(q, T))
<1>1. PICK r, k, l : r = p \o q /\ k = Len(p) /\ l = Len(q)
  OBVIOUS
<1>2. /\ r \in Seq(S) /\ k \in Nat /\ l \in Nat /\ Len(r) = k + l
      /\ \A i \in 1..k : r[i] = p[i]
      /\ \A j \in 1..l : r[k + j] = q[j]
  BY <1>1, Joined
<1>3. \A i \in 1..(k + l) : i \in 1..k \/ \E j \in 1..l : i = k + j
  <2> SUFFICES ASSUME NEW i \in 1..(k + l), i \notin 1..k PROVE \E j \in 1..l : i = k + j
    OBVIOUS
  <2>1. i - k \in 1..l /\ i = k + (i - k)
    BY <1>2
  <2> QED
    BY <2>1
<1>4. /\ \A i \in 1..k : i \in 1..(k + l)
      /\ \A j \in 1..l : k + j \in 1..(k + l) /\ k + j \notin 1..k
  BY <1>2
<1>5. PICK A, B, C : A = Places(p, T) /\ B = Places(q, T) /\ C = {k + j : j \in Places(q, T)}
  OBVIOUS
<1>6. \A i : i \in Places(r, T) <=> i \in A \/ \E j \in B : i = k + j
  <2> SUFFICES ASSUME NEW i
               PROVE  i \in Places(r, T) <=> i \in A \/ \E j \in B : i = k + j
    OBVIOUS
  <2>1. ASSUME i \in Places(r, T) PROVE i \in A \/ \E j \in B : i = k + j
    <3>1. i \in 1..(k + l) /\ r[i] \in T
      BY <1>2, <2>1 DEF Places
    <3>2. CASE i \in 1..k
      BY <1>1, <1>2, <1>5, <3>1, <3>2 DEF Places
    <3>3. CASE \E j \in 1..l : i = k + j
      <4>1. PICK j \in 1..l : i = k + j
        BY <3>3
      <4>2. q[j] \in T
        BY <1>2, <3>1, <4>1
      <4> QED
        BY <1>1, <1>5, <4>1, <4>2 DEF Places
    <3> QED
      BY <1>3, <3>1, <3>2, <3>3
  <2>2. ASSUME i \in A PROVE i \in Places(r, T)
    BY <1>1, <1>2, <1>4, <1>5, <2>2 DEF Places
  <2>3. ASSUME NEW j \in B, i = k + j PROVE i \in Places(r, T)
    <3>1. j \in 1..l /\ q[j] \in T
      BY <1>1, <1>5 DEF Places
    <3>2. i \in 1..(k + l) /\ r[i] = q[j]
      BY <1>2, <1>4, <2>3, <3>1
    <3> QED
      BY <1>2, <3>1, <3>2 DEF Places
  <2> QED
    BY <2>1, <2>2, <2>3
<1>7. /\ IsFiniteSet(A) /\ Cardinality(A) \in Nat /\ IsFiniteSet(B) /\ Cardinality(B) \in Nat
      /\ A \subseteq 1..k /\ B \subseteq 1..l
  BY <1>1, <1>5, PlacesFinite DEF Places
<1>8. IsFiniteSet(C) /\ Cardinality(C) = Cardinality(B)
  <2>1. PICK f : f = [j \in B |-> k + j]
    OBVIOUS
  <2>2. f \in [B -> C] /\ \A j \in B : f[j] = k + j
    BY <1>5, <2>1
  <2>3. \A i, j \in B : f[i] = f[j] => i = j
    BY <1>2, <1>7, <2>2
  <2>4. \A c \in C : \E j \in B : f[j] = c
    BY <1>5, <2>2
  <2>5. f \in Bijection(B, C)
    BY <2>2, <2>3, <2>4 DEF Bijection, Injection, Surjection, IsInjective
  <2>6. ExistsBijection(B, C)
    BY <2>5 DEF ExistsBijection
  <2> QED
    BY <1>7, <2>6, FS_Bijection
<1>9. A \cap C = {}
  BY <1>4, <1>5, <1>7
<1>10. Places(r, T) = A \cup C
  BY <1>5, <1>6
<1>11. Cardinality(A \cup C) = Cardinality(A) + Cardinality(C) - Cardinality(A \cap C)
  BY <1>7, <1>8, FS_Union
<1>12. Cardinality(A \cap C) = 0
  BY <1>9, FS_EmptySet
<1>13. Cardinality(Places(r, T)) = Cardinality(A) + Cardinality(B)
  BY <1>7, <1>8, <1>10, <1>11, <1>12
<1> QED
  BY <1>1, <1>5, <1>6, <1>13

\* One message has one place at most.
LEMMA PlacesOfOne ==
  ASSUME NEW m, NEW T
  PROVE  /\ m \in T => Places(<<m>>, T) = {1} /\ Cardinality(Places(<<m>>, T)) = 1
         /\ m \notin T => Places(<<m>>, T) = {} /\ Cardinality(Places(<<m>>, T)) = 0
<1>1. Len(<<m>>) = 1 /\ <<m>>[1] = m /\ 1..1 = {1}
  OBVIOUS
<1>2. m \in T => Places(<<m>>, T) = {1}
  BY <1>1 DEF Places
<1>3. m \notin T => Places(<<m>>, T) = {}
  BY <1>1 DEF Places
<1> QED
  BY <1>2, <1>3, FS_EmptySet, FS_Singleton

\* A message after all others.
LEMMA PlacesAppended ==
  ASSUME NEW S, NEW q \in Seq(S), NEW m \in S, NEW T
  PROVE  /\ m \in T => /\ Places(q \o <<m>>, T) = Places(q, T) \cup {Len(q) + 1}
                       /\ Cardinality(Places(q \o <<m>>, T)) = Cardinality(Places(q, T)) + 1
         /\ m \notin T => /\ Places(q \o <<m>>, T) = Places(q, T)
                          /\ Cardinality(Places(q \o <<m>>, T)) = Cardinality(Places(q, T))
<1>0. PICK o : o = <<m>>
  OBVIOUS
<1>1. o \in Seq(S)
  BY <1>0
<1>2. /\ \A i : i \in Places(q \o o, T) <=> \/ i \in Places(q, T)
                                            \/ \E j \in Places(o, T) : i = Len(q) + j
      /\ Cardinality(Places(q \o o, T)) = Cardinality(Places(q, T)) + Cardinality(Places(o, T))
  BY <1>1, PlacesJoined
<1>3. Cardinality(Places(q, T)) \in Nat
  BY PlacesFinite
<1>4. CASE m \in T
  <2>1. Places(o, T) = {1} /\ Cardinality(Places(o, T)) = 1
    BY <1>0, <1>4, PlacesOfOne
  <2>2. Places(q \o o, T) = Places(q, T) \cup {Len(q) + 1}
    BY <1>2, <2>1
  <2> QED
    BY <1>0, <1>2, <1>4, <2>1, <2>2
<1>5. CASE m \notin T
  <2>1. Places(o, T) = {} /\ Cardinality(Places(o, T)) = 0
    BY <1>0, <1>5, PlacesOfOne
  <2>2. Places(q \o o, T) = Places(q, T)
    BY <1>2, <2>1
  <2> QED
    BY <1>0, <1>2, <1>3, <1>5, <2>1, <2>2
<1> QED
  BY <1>4, <1>5

\* The first message is taken: the others move up.
LEMMA PlacesTaken ==
  ASSUME NEW S, NEW q \in Seq(S), q # <<>>, NEW T
  PROVE  /\ \A i \in Nat : i \in Places(Tail(q), T) <=> i # 0 /\ i + 1 \in Places(q, T)
         /\ Cardinality(Places(Tail(q), T))
              = Cardinality(Places(q, T)) - (IF Head(q) \in T THEN 1 ELSE 0)
<1>1. PICK h, t, o : h = Head(q) /\ t = Tail(q) /\ o = <<Head(q)>>
  OBVIOUS
<1>2. /\ h \in S /\ t \in Seq(S) /\ o \in Seq(S) /\ q = o \o t /\ Len(o) = 1
      /\ Len(t) \in Nat /\ Len(q) = Len(t) + 1 /\ \A i \in 1..Len(t) : t[i] = q[i + 1]
  BY <1>1
<1>3. Cardinality(Places(q, T)) = Cardinality(Places(o, T)) + Cardinality(Places(t, T))
  BY <1>2, PlacesJoined
<1>4. /\ h \in T => Cardinality(Places(o, T)) = 1
      /\ h \notin T => Cardinality(Places(o, T)) = 0
  BY <1>1, PlacesOfOne
<1>5. Cardinality(Places(t, T)) \in Nat
  BY <1>2, PlacesFinite
<1>6. Cardinality(Places(t, T)) = Cardinality(Places(q, T)) - (IF h \in T THEN 1 ELSE 0)
  BY <1>3, <1>4, <1>5
<1>7. \A i \in Nat : i \in Places(t, T) <=> i # 0 /\ i + 1 \in Places(q, T)
  BY <1>2 DEF Places
<1> QED
  BY <1>1, <1>6, <1>7

(***************************************************************************)
(* What the methods of the stream and of the tracker do to the state       *)
(***************************************************************************)
SameStream(s, t) ==
    /\ t.state = s.state /\ t.close_count = s.close_count /\ t.tokens = s.tokens
    /\ t.idleness_timer = s.idleness_timer /\ t.up = s.up /\ t.down = s.down
    /\ t.failed = s.failed

SameTargets(s, t) ==
    /\ t.is_network_enabled = s.is_network_enabled /\ t.listen_targets = s.listen_targets
    /\ t.aggregator = s.aggregator /\ t.watched = s.watched

SameTracker(s, t) ==
    /\ t.online = s.online /\ t.watch_stream_failures = s.watch_stream_failures
    /\ t.timer = s.timer

\* The listeners may hear that a view is not current any more, and nothing else.
Quiet(s, t) ==
    /\ t.is_network_enabled = s.is_network_enabled /\ t.listen_targets = s.listen_targets
    /\ t.view \subseteq s.view

\* A stream that was closed and is not started again.
Shut(s) ==
    /\ s \in RemoteStore
    /\ s.failed = {} /\ IsFiniteSet(s.listen_targets)
    /\ TokensCurrent(s) /\ s.state \in {"Initial", "Error"}
    /\ ~s.idleness_timer /\ s.up = <<>> /\ s.down = <<>>
    /\ s.view \subseteq s.listen_targets
    /\ s.online = "Online" => s.watch_stream_failures = 0 /\ ~s.timer

\* Nothing is known of any target.
LEMMA NewAggregatorIs == NewAggregator \in Aggregators
<1>1. NewTarget \in Targets
  BY DEF NewTarget, Targets
<1> QED
  BY <1>1 DEF NewAggregator, Aggregators

\* SetAndBroadcast
LEMMA SetOnlineSets ==
  ASSUME NEW s \in RemoteStore, NEW o \in OnlineStates
  PROVE  \E t \in RemoteStore :
            /\ t = SetOnline(s, o) /\ SameStream(s, t) /\ SameTargets(s, t)
            /\ t.online = o /\ t.timer = s.timer
            /\ t.watch_stream_failures = s.watch_stream_failures
            /\ t.view = (IF o = "Offline" THEN {} ELSE s.view)
<1>1. PICK v : v = IF o = "Offline" THEN {} ELSE s.view
  OBVIOUS
<1>2. v \subseteq Docs
  BY <1>1 DEF RemoteStore
<1>3. PICK t : t = [s EXCEPT !.online = o, !.view = v]
  OBVIOUS
<1>4. t \in RemoteStore
  BY <1>2, <1>3 DEF RemoteStore
<1>5. t = SetOnline(s, o)
  BY <1>1, <1>3 DEF SetOnline
<1>6. SameStream(s, t) /\ SameTargets(s, t)
  BY <1>3 DEF RemoteStore, SameStream, SameTargets
<1>7. /\ t.online = o /\ t.timer = s.timer /\ t.view = v
      /\ t.watch_stream_failures = s.watch_stream_failures
  BY <1>3 DEF RemoteStore
<1> QED
  BY <1>1, <1>4, <1>5, <1>6, <1>7

\* UpdateState
LEMMA UpdateStateSets ==
  ASSUME NEW s \in RemoteStore, NEW o \in {"Unknown", "Online"}
  PROVE  \E t \in RemoteStore :
            /\ t = UpdateState(s, o) /\ SameStream(s, t) /\ SameTargets(s, t)
            /\ t.online = o /\ ~t.timer /\ t.watch_stream_failures = 0 /\ t.view = s.view
<1>1. PICK u : u = [s EXCEPT !.timer = FALSE, !.watch_stream_failures = 0]
  OBVIOUS
<1>2. u \in RemoteStore
  BY <1>1 DEF RemoteStore
<1>3. /\ SameStream(s, u) /\ SameTargets(s, u)
      /\ ~u.timer /\ u.watch_stream_failures = 0 /\ u.view = s.view
  BY <1>1 DEF RemoteStore, SameStream, SameTargets
<1>4. o \in OnlineStates /\ o # "Offline"
  BY DEF OnlineStates
<1>5. PICK t \in RemoteStore :
            /\ t = SetOnline(u, o) /\ SameStream(u, t) /\ SameTargets(u, t)
            /\ t.online = o /\ t.timer = u.timer
            /\ t.watch_stream_failures = u.watch_stream_failures
            /\ t.view = (IF o = "Offline" THEN {} ELSE u.view)
  BY <1>2, <1>4, SetOnlineSets
<1>6. t = UpdateState(s, o)
  BY <1>1, <1>5 DEF UpdateState
<1>7. SameStream(s, t) /\ SameTargets(s, t)
  BY <1>3, <1>5 DEF SameStream, SameTargets
<1> QED
  BY <1>3, <1>4, <1>5, <1>6, <1>7

\* Start: a backoff or a request for credentials.
LEMMA StartBegins ==
  ASSUME NEW s \in RemoteStore, s.state \in {"Initial", "Error"}, TokensCurrent(s)
  PROVE  \E t \in RemoteStore :
            /\ t = Start(s) /\ SameTargets(s, t) /\ SameTracker(s, t) /\ t.view = s.view
            /\ t.state \in {"Starting", "Backoff"} /\ TokensCurrent(t)
            /\ t.idleness_timer = s.idleness_timer /\ t.up = s.up /\ t.down = s.down
            /\ t.failed = s.failed
<1>1. CASE s.state = "Error"
  <2>1. PICK t : t = [s EXCEPT !.state = "Backoff"]
    OBVIOUS
  <2>2. t \in RemoteStore
    BY <2>1 DEF RemoteStore, States
  <2>3. t = Start(s)
    BY <1>1, <2>1 DEF Start
  <2>4. /\ SameTargets(s, t) /\ SameTracker(s, t) /\ t.view = s.view
        /\ t.state = "Backoff" /\ t.tokens = s.tokens /\ t.close_count = s.close_count
        /\ t.idleness_timer = s.idleness_timer /\ t.up = s.up /\ t.down = s.down
        /\ t.failed = s.failed
    BY <2>1 DEF RemoteStore, SameTargets, SameTracker
  <2>5. TokensCurrent(t)
    BY <1>1, <2>4 DEF TokensCurrent
  <2> QED
    BY <2>2, <2>3, <2>4, <2>5
<1>2. CASE s.state = "Initial"
  <2>0. PICK k : k = s.tokens \cup {s.close_count}
    OBVIOUS
  <2>1. PICK t : t = [s EXCEPT !.state = "Starting", !.tokens = k]
    OBVIOUS
  <2>2. t \in RemoteStore
    BY <2>0, <2>1 DEF RemoteStore, States
  <2>3. t = Start(s)
    BY <1>2, <2>0, <2>1 DEF Start, HardAssert
  <2>4. /\ SameTargets(s, t) /\ SameTracker(s, t) /\ t.view = s.view
        /\ t.state = "Starting" /\ t.tokens = k /\ t.close_count = s.close_count
        /\ t.idleness_timer = s.idleness_timer /\ t.up = s.up /\ t.down = s.down
        /\ t.failed = s.failed
    BY <2>1 DEF RemoteStore, SameTargets, SameTracker
  <2>5. s.close_count \in Nat
    BY DEF RemoteStore
  <2>6. TokensCurrent(t)
    BY <2>0, <2>4, <2>5 DEF TokensCurrent
  <2> QED
    BY <2>2, <2>3, <2>4, <2>6
<1> QED
  BY <1>1, <1>2

\* HandleWatchStreamStart: the timer is set, unless the stream failed before.
LEMMA HandleStartSets ==
  ASSUME NEW s \in RemoteStore, ~s.timer, IsStarted(s),
         s.online = "Online" => s.watch_stream_failures = 0
  PROVE  \E t \in RemoteStore :
            /\ t = HandleWatchStreamStart(s) /\ SameStream(s, t) /\ SameTargets(s, t)
            /\ Tracker(t) /\ t.view = s.view
<1>1. CASE s.watch_stream_failures # 0
  <2>1. s = HandleWatchStreamStart(s)
    BY <1>1 DEF HandleWatchStreamStart
  <2>2. Tracker(s)
    BY <1>1 DEF Tracker
  <2> QED
    BY <2>1, <2>2 DEF SameStream, SameTargets
<1>2. CASE s.watch_stream_failures = 0
  <2>1. PICK u \in RemoteStore :
            /\ u = SetOnline(s, "Unknown") /\ SameStream(s, u) /\ SameTargets(s, u)
            /\ u.online = "Unknown" /\ u.view = s.view
    BY SetOnlineSets DEF OnlineStates
  <2>2. PICK t : t = [u EXCEPT !.timer = TRUE]
    OBVIOUS
  <2>3. t \in RemoteStore
    BY <2>2 DEF RemoteStore
  <2>4. t = HandleWatchStreamStart(s)
    BY <1>2, <2>1, <2>2 DEF HandleWatchStreamStart, HardAssert
  <2>5. /\ SameStream(u, t) /\ SameTargets(u, t) /\ t.online = "Unknown" /\ t.view = u.view
    BY <2>1, <2>2 DEF RemoteStore, SameStream, SameTargets
  <2>6. SameStream(s, t) /\ SameTargets(s, t) /\ t.view = s.view
    BY <2>1, <2>5 DEF SameStream, SameTargets
  <2>7. Tracker(t)
    BY <2>5, <2>6 DEF Tracker, IsStarted, SameStream
  <2> QED
    BY <2>3, <2>4, <2>6, <2>7
<1> QED
  BY <1>1, <1>2

\* StartWatchStream: a stream that was closed is on its way again.
LEMMA StartWatchStreamCalms ==
  ASSUME NEW s, Shut(s), ~s.timer, s.watched = {}
  PROVE  \E t : /\ t = StartWatchStream(s) /\ Calm(t) /\ t.state # "Open"
                /\ Quiet(s, t)
<1>0. /\ s \in RemoteStore /\ s.failed = {} /\ IsFiniteSet(s.listen_targets)
      /\ TokensCurrent(s) /\ s.state \in {"Initial", "Error"}
      /\ ~s.idleness_timer /\ s.up = <<>> /\ s.down = <<>>
      /\ s.view \subseteq s.listen_targets
      /\ s.online = "Online" => s.watch_stream_failures = 0
  BY DEF Shut
<1>1. PICK r : r = [s EXCEPT !.aggregator = NewAggregator]
  OBVIOUS
<1>2. r \in RemoteStore
  BY <1>0, <1>1, NewAggregatorIs DEF RemoteStore
<1>3. /\ SameStream(s, r) /\ SameTracker(s, r) /\ r.aggregator = NewAggregator
      /\ r.view = s.view /\ r.is_network_enabled = s.is_network_enabled
      /\ r.listen_targets = s.listen_targets /\ r.watched = s.watched
  BY <1>0, <1>1 DEF RemoteStore, SameStream, SameTracker
<1>4. TokensCurrent(r) /\ r.state \in {"Initial", "Error"}
  BY <1>0, <1>3 DEF SameStream, TokensCurrent
<1>5. PICK b \in RemoteStore :
            /\ b = Start(r) /\ SameTargets(r, b) /\ SameTracker(r, b) /\ b.view = r.view
            /\ b.state \in {"Starting", "Backoff"} /\ TokensCurrent(b)
            /\ b.idleness_timer = r.idleness_timer /\ b.up = r.up /\ b.down = r.down
            /\ b.failed = r.failed
  BY <1>2, <1>4, StartBegins
<1>6. ~b.timer /\ IsStarted(b) /\ (b.online = "Online" => b.watch_stream_failures = 0)
  BY <1>0, <1>3, <1>5 DEF SameTracker, IsStarted
<1>7. PICK t \in RemoteStore :
            /\ t = HandleWatchStreamStart(b) /\ SameStream(b, t) /\ SameTargets(b, t)
            /\ Tracker(t) /\ t.view = b.view
  BY <1>5, <1>6, HandleStartSets
<1>8. t = StartWatchStream(s)
  BY <1>1, <1>5, <1>7 DEF StartWatchStream
<1>9. /\ t.state # "Open" /\ t.failed = {} /\ ~t.idleness_timer /\ TokensCurrent(t)
      /\ t.up = <<>> /\ t.down = <<>>
  BY <1>0, <1>3, <1>5, <1>7 DEF SameStream, TokensCurrent
<1>10. /\ t.aggregator = NewAggregator /\ t.watched = {} /\ t.view = s.view
       /\ t.is_network_enabled = s.is_network_enabled /\ t.listen_targets = s.listen_targets
  BY <1>3, <1>5, <1>7 DEF SameTargets
<1>11. Calm(t)
  BY <1>0, <1>7, <1>9, <1>10 DEF Calm, Down
<1> QED
  BY <1>8, <1>9, <1>10, <1>11 DEF Quiet

\* HandleWatchStreamFailure: the timer is off.
LEMMA HandleFailureSets ==
  ASSUME NEW s \in RemoteStore, s.online = "Online" => s.watch_stream_failures = 0 /\ ~s.timer
  PROVE  \E t \in RemoteStore :
            /\ t = HandleWatchStreamFailure(s) /\ SameStream(s, t) /\ SameTargets(s, t)
            /\ ~t.timer /\ t.online # "Online" /\ t.view \subseteq s.view
<1>1. CASE s.online = "Online"
  <2>1. PICK t \in RemoteStore :
            /\ t = SetOnline(s, "Unknown") /\ SameStream(s, t) /\ SameTargets(s, t)
            /\ t.online = "Unknown" /\ t.timer = s.timer /\ t.view = s.view
    BY SetOnlineSets DEF OnlineStates
  <2>2. t = HandleWatchStreamFailure(s)
    BY <1>1, <2>1 DEF HandleWatchStreamFailure, HardAssert
  <2> QED
    BY <1>1, <2>1, <2>2
<1>2. CASE s.online # "Online"
  <2>1. PICK n : n = s.watch_stream_failures + 1
    OBVIOUS
  <2>2. n \in Nat
    BY <2>1 DEF RemoteStore
  <2>3. PICK u : u = [s EXCEPT !.watch_stream_failures = n, !.timer = FALSE]
    OBVIOUS
  <2>4. u \in RemoteStore
    BY <2>2, <2>3 DEF RemoteStore
  <2>5. SameStream(s, u) /\ SameTargets(s, u) /\ ~u.timer
    BY <2>3 DEF RemoteStore, SameStream, SameTargets
  <2>6. PICK t \in RemoteStore :
            /\ t = SetOnline(u, "Offline") /\ SameStream(u, t) /\ SameTargets(u, t)
            /\ t.online = "Offline" /\ t.timer = u.timer /\ t.view = {}
    BY <2>4, SetOnlineSets DEF OnlineStates
  <2>7. t = HandleWatchStreamFailure(s)
    BY <1>2, <2>1, <2>3, <2>6 DEF HandleWatchStreamFailure
  <2>8. SameStream(s, t) /\ SameTargets(s, t)
    BY <2>5, <2>6 DEF SameStream, SameTargets
  <2> QED
    BY <2>5, <2>6, <2>7, <2>8
<1> QED
  BY <1>1, <1>2

(***************************************************************************)
(* The stream closes, and starts again if it is needed                     *)
(***************************************************************************)
\* UpdateState after a close.
LEMMA ShutCalms ==
  ASSUME NEW s, Shut(s), s.aggregator = NewAggregator, s.watched = {}
  PROVE  \E t : /\ t = UpdateState(s, "Unknown") /\ Calm(t) /\ t.state = s.state
                /\ Quiet(s, t)
<1>0. /\ s \in RemoteStore /\ s.failed = {} /\ IsFiniteSet(s.listen_targets)
      /\ TokensCurrent(s) /\ s.state \in {"Initial", "Error"}
      /\ ~s.idleness_timer /\ s.up = <<>> /\ s.down = <<>>
      /\ s.view \subseteq s.listen_targets
  BY DEF Shut
<1>1. PICK t \in RemoteStore :
            /\ t = UpdateState(s, "Unknown") /\ SameStream(s, t) /\ SameTargets(s, t)
            /\ t.online = "Unknown" /\ ~t.timer /\ t.view = s.view
  BY <1>0, UpdateStateSets
<1>2. /\ t.state = s.state /\ t.failed = {} /\ ~t.idleness_timer /\ TokensCurrent(t)
      /\ t.up = <<>> /\ t.down = <<>>
  BY <1>0, <1>1 DEF SameStream, TokensCurrent
<1>3. /\ t.aggregator = NewAggregator /\ t.watched = {} /\ t.listen_targets = s.listen_targets
      /\ t.is_network_enabled = s.is_network_enabled
  BY <1>1 DEF SameTargets
<1>4. Calm(t)
  BY <1>0, <1>1, <1>2, <1>3 DEF Calm, Down, Tracker
<1> QED
  BY <1>1, <1>2, <1>3, <1>4 DEF Quiet

\* OnWatchStreamClose: the stream is not open, and not even started if it is not
\* needed.
LEMMA CloseCalms ==
  ASSUME NEW s, Shut(s)
  PROVE  \E t : /\ t = OnWatchStreamClose(s) /\ Calm(t) /\ t.state # "Open" /\ Quiet(s, t)
                /\ ~s.is_network_enabled \/ s.listen_targets = {} => t.state = s.state
<1>0. /\ s \in RemoteStore /\ s.failed = {} /\ IsFiniteSet(s.listen_targets)
      /\ TokensCurrent(s) /\ s.state \in {"Initial", "Error"}
      /\ ~s.idleness_timer /\ s.up = <<>> /\ s.down = <<>>
      /\ s.view \subseteq s.listen_targets
      /\ s.online = "Online" => s.watch_stream_failures = 0 /\ ~s.timer
  BY DEF Shut
<1>1. PICK c : c = [s EXCEPT !.aggregator = NewAggregator, !.watched = {}]
  OBVIOUS
<1>2. c \in RemoteStore
  BY <1>0, <1>1, NewAggregatorIs DEF RemoteStore
<1>3. /\ SameStream(s, c) /\ SameTracker(s, c) /\ c.aggregator = NewAggregator
      /\ c.view = s.view /\ c.is_network_enabled = s.is_network_enabled
      /\ c.listen_targets = s.listen_targets /\ c.watched = {}
  BY <1>0, <1>1 DEF RemoteStore, SameStream, SameTracker
<1>4. Shut(c)
  BY <1>0, <1>2, <1>3 DEF Shut, SameStream, SameTracker, TokensCurrent
<1>5. CASE ShouldStartWatchStream(c)
  <2>1. PICK f \in RemoteStore :
            /\ f = HandleWatchStreamFailure(c) /\ SameStream(c, f) /\ SameTargets(c, f)
            /\ ~f.timer /\ f.online # "Online" /\ f.view \subseteq c.view
    BY <1>2, <1>4, HandleFailureSets DEF Shut
  <2>2. Shut(f) /\ f.watched = {}
    <3>1. /\ c.failed = {} /\ IsFiniteSet(c.listen_targets)
          /\ TokensCurrent(c) /\ c.state \in {"Initial", "Error"}
          /\ ~c.idleness_timer /\ c.up = <<>> /\ c.down = <<>>
          /\ c.view \subseteq c.listen_targets
      BY <1>4 DEF Shut
    <3>2. /\ f.failed = {} /\ TokensCurrent(f) /\ f.state \in {"Initial", "Error"}
          /\ ~f.idleness_timer /\ f.up = <<>> /\ f.down = <<>>
      BY <2>1, <3>1 DEF SameStream, TokensCurrent
    <3>3. f.listen_targets = c.listen_targets /\ f.watched = {} 
      BY <1>3, <2>1 DEF SameTargets
    <3>4. f.view \subseteq f.listen_targets
      BY <2>1, <3>1, <3>3
    <3> QED
      BY <2>1, <3>1, <3>2, <3>3, <3>4 DEF Shut
  <2>3. PICK t : t = StartWatchStream(f) /\ Calm(t) /\ t.state # "Open" /\ Quiet(f, t)
    BY <2>1, <2>2, StartWatchStreamCalms
  <2>4. t = OnWatchStreamClose(s)
    BY <1>1, <1>5, <2>1, <2>3 DEF OnWatchStreamClose
  <2>5. Quiet(s, t)
    BY <1>3, <2>1, <2>3 DEF Quiet, SameTargets
  <2>6. s.is_network_enabled /\ s.listen_targets # {}
    BY <1>3, <1>5 DEF ShouldStartWatchStream
  <2> QED
    BY <2>3, <2>4, <2>5, <2>6
<1>6. CASE ~ShouldStartWatchStream(c)
  <2>1. PICK t : t = UpdateState(c, "Unknown") /\ Calm(t) /\ t.state = c.state /\ Quiet(c, t)
    BY <1>3, <1>4, ShutCalms
  <2>2. t = OnWatchStreamClose(s)
    BY <1>1, <1>6, <2>1 DEF OnWatchStreamClose
  <2>3. Quiet(s, t) /\ t.state = s.state
    BY <1>3, <2>1 DEF Quiet, SameStream
  <2> QED
    BY <1>0, <2>1, <2>2, <2>3
<1> QED
  BY <1>5, <1>6

\* A store whose stream can be closed, whether or not its credentials were taken.
Closable(s) ==
    /\ s \in RemoteStore /\ s.failed = {} /\ IsFiniteSet(s.listen_targets)
    /\ \A c \in s.tokens : c <= s.close_count
    /\ s.online = "Online" => s.watch_stream_failures = 0 /\ ~s.timer
    /\ s.view \subseteq s.listen_targets

LEMMA CalmClosable ==
  ASSUME NEW s, Calm(s)
  PROVE  Closable(s)
  BY DEF Calm, Closable, TokensCurrent, Tracker

\* Close.
LEMMA ClosedShuts ==
  ASSUME NEW s, Closable(s), IsStarted(s), NEW x \in {"Initial", "Error"}
  PROVE  \E t : t = Closed(s, x) /\ Shut(t) /\ t.state = x /\ Quiet(s, t)
<1>0. /\ s \in RemoteStore /\ s.failed = {} /\ IsFiniteSet(s.listen_targets)
      /\ \A c \in s.tokens : c <= s.close_count
      /\ s.online = "Online" => s.watch_stream_failures = 0 /\ ~s.timer
      /\ s.view \subseteq s.listen_targets
  BY DEF Closable
<1>1. PICK n : n = s.close_count + 1
  OBVIOUS
<1>2. n \in Nat /\ s.close_count \in Nat /\ s.tokens \subseteq Nat /\ x \in States
  BY <1>0, <1>1 DEF RemoteStore, States
<1>3. PICK t : t = [s EXCEPT !.idleness_timer = FALSE, !.close_count = n,
                             !.up = <<>>, !.down = <<>>, !.state = x]
  OBVIOUS
<1>4. t = Closed(s, x)
  BY <1>1, <1>3 DEF Closed, HardAssert
<1>5. t \in RemoteStore
  <2>1. <<>> \in Seq(Requests) /\ <<>> \in Seq(Messages)
    OBVIOUS
  <2> QED
    BY <1>0, <1>2, <1>3, <2>1 DEF RemoteStore
<1>6. /\ t.state = x /\ t.close_count = n /\ t.tokens = s.tokens /\ ~t.idleness_timer
      /\ t.up = <<>> /\ t.down = <<>> /\ t.failed = {} /\ t.view = s.view
  BY <1>0, <1>3 DEF RemoteStore
<1>7. SameTargets(s, t) /\ SameTracker(s, t)
  BY <1>0, <1>3 DEF RemoteStore, SameTargets, SameTracker
<1>8. TokensCurrent(t)
  <2>1. \A c \in s.tokens : c \in Nat /\ c <= s.close_count
    BY <1>0, <1>2
  <2>2. \A c \in t.tokens : c <= t.close_count /\ c # t.close_count
    BY <1>1, <1>2, <1>6, <2>1
  <2> QED
    BY <1>6, <2>2 DEF TokensCurrent
<1>9. Shut(t)
  BY <1>0, <1>5, <1>6, <1>7, <1>8 DEF Shut, SameTargets, SameTracker
<1> QED
  BY <1>4, <1>6, <1>7, <1>9 DEF Quiet, SameTargets

\* The stream fails.
LEMMA FailedCalms ==
  ASSUME NEW s, Closable(s), IsStarted(s)
  PROVE  \E t : t = Failed(s) /\ Calm(t) /\ t.state # "Open" /\ Quiet(s, t)
<1>1. PICK c : c = Closed(s, "Error") /\ Shut(c) /\ Quiet(s, c)
  BY ClosedShuts
<1>2. PICK t : t = OnWatchStreamClose(c) /\ Calm(t) /\ t.state # "Open" /\ Quiet(c, t)
  BY <1>1, CloseCalms
<1>3. Quiet(s, t)
  BY <1>1, <1>2 DEF Quiet
<1> QED
  BY <1>1, <1>2, <1>3 DEF Failed

\* Stop, of a stream that is not needed.
LEMMA StopCalms ==
  ASSUME NEW s, Calm(s), ~s.is_network_enabled \/ s.listen_targets = {}
  PROVE  \E t : t = Stop(s) /\ Calm(t) /\ ~IsStarted(t) /\ Quiet(s, t)
<1>1. CASE ~IsStarted(s)
  BY <1>1 DEF Stop, Quiet
<1>2. CASE IsStarted(s)
  <2>1. PICK c : c = Closed(s, "Initial") /\ Shut(c) /\ c.state = "Initial" /\ Quiet(s, c)
    BY <1>2, CalmClosable, ClosedShuts
  <2>2. ~c.is_network_enabled \/ c.listen_targets = {}
    BY <2>1 DEF Quiet
  <2>3. PICK t : /\ t = OnWatchStreamClose(c) /\ Calm(t) /\ Quiet(c, t)
                 /\ t.state = c.state
    BY <2>1, <2>2, CloseCalms
  <2>4. t = Stop(s)
    BY <1>2, <2>1, <2>2, <2>3 DEF Stop, HardAssert, ShouldStartWatchStream
  <2>5. Quiet(s, t) /\ ~IsStarted(t)
    BY <2>1, <2>3 DEF Quiet, IsStarted
  <2> QED
    BY <2>3, <2>4, <2>5
<1> QED
  BY <1>1, <1>2

\* DisableNetworkInternal and EnableNetwork.
LEMMA RestartCalms ==
  ASSUME NEW s, Calm(s)
  PROVE  \E t : /\ t = RestartNetwork(s) /\ Calm(t) /\ t.state # "Open"
                /\ t.is_network_enabled /\ t.listen_targets = s.listen_targets
                /\ t.view \subseteq s.view
<1>0. s \in RemoteStore
  BY DEF Calm
<1>1. PICK n : n = [s EXCEPT !.is_network_enabled = FALSE]
  OBVIOUS
<1>2. n \in RemoteStore
  BY <1>0, <1>1 DEF RemoteStore
<1>3. /\ SameStream(s, n) /\ SameTracker(s, n) /\ n.view = s.view /\ ~n.is_network_enabled
      /\ n.listen_targets = s.listen_targets /\ n.aggregator = s.aggregator
      /\ n.watched = s.watched
  BY <1>0, <1>1 DEF RemoteStore, SameStream, SameTracker
<1>4. Calm(n)
  <2>1. TokensCurrent(n) /\ Tracker(n)
    BY <1>3 DEF Calm, SameStream, SameTracker, TokensCurrent, Tracker, IsStarted
  <2> QED
    BY <1>2, <1>3, <2>1 DEF Calm, SameStream, Down
<1>5. PICK p : p = Stop(n) /\ Calm(p) /\ ~IsStarted(p) /\ Quiet(n, p)
  BY <1>3, <1>4, StopCalms
<1>6. /\ p \in RemoteStore /\ p.failed = {} /\ IsFiniteSet(p.listen_targets)
      /\ TokensCurrent(p) /\ p.state \in {"Initial", "Error"} /\ ~p.idleness_timer
      /\ p.up = <<>> /\ p.down = <<>> /\ p.watched = {} /\ p.view \subseteq p.listen_targets
  BY <1>5 DEF Calm, Down, IsStarted, RemoteStore, States
<1>7. PICK a : a = [p EXCEPT !.aggregator = NewAggregator]
  OBVIOUS
<1>8. a \in RemoteStore
  BY <1>6, <1>7, NewAggregatorIs DEF RemoteStore
<1>9. /\ SameStream(p, a) /\ a.aggregator = NewAggregator /\ a.view = p.view
      /\ a.listen_targets = p.listen_targets /\ a.watched = p.watched
  BY <1>6, <1>7 DEF RemoteStore, SameStream
<1>10. PICK b \in RemoteStore :
            /\ b = UpdateState(a, "Unknown") /\ SameStream(a, b) /\ SameTargets(a, b)
            /\ b.online = "Unknown" /\ ~b.timer /\ b.view = a.view
  BY <1>8, UpdateStateSets
<1>11. /\ b.state \in {"Initial", "Error"} /\ b.failed = {} /\ TokensCurrent(b)
       /\ ~b.idleness_timer /\ b.up = <<>> /\ b.down = <<>>
  BY <1>6, <1>9, <1>10 DEF SameStream, TokensCurrent
<1>12. /\ b.listen_targets = p.listen_targets /\ b.watched = {} /\ b.aggregator = NewAggregator
  BY <1>6, <1>9, <1>10 DEF SameTargets
<1>13. PICK on : on = [[b EXCEPT !.state = "Initial"] EXCEPT !.is_network_enabled = TRUE]
  OBVIOUS
<1>14. on \in RemoteStore
  BY <1>10, <1>13 DEF RemoteStore, States
<1>15. /\ on.state = "Initial" /\ on.is_network_enabled /\ on.failed = b.failed
       /\ on.tokens = b.tokens /\ on.close_count = b.close_count /\ on.timer = b.timer
       /\ on.idleness_timer = b.idleness_timer /\ on.up = b.up /\ on.down = b.down
       /\ on.listen_targets = b.listen_targets /\ on.view = b.view /\ on.online = b.online
       /\ on.aggregator = b.aggregator /\ on.watched = b.watched
  BY <1>10, <1>13 DEF RemoteStore
<1>16. TokensCurrent(on)
  BY <1>11, <1>15 DEF TokensCurrent
<1>17. Shut(on) /\ ~on.timer /\ on.watched = {} /\ on.aggregator = NewAggregator
  BY <1>6, <1>9, <1>10, <1>11, <1>12, <1>14, <1>15, <1>16 DEF Shut
<1>18. on = [InhibitBackoff(b) EXCEPT !.is_network_enabled = TRUE]
  BY <1>11, <1>13 DEF InhibitBackoff, HardAssert, IsStarted
<1>19. RestartNetwork(s) = IF ShouldStartWatchStream(on) THEN StartWatchStream(on)
                           ELSE UpdateState(on, "Unknown")
  BY <1>1, <1>5, <1>7, <1>10, <1>18 DEF RestartNetwork
<1>20. PICK t : t = RestartNetwork(s)
  OBVIOUS
<1>21. Calm(t) /\ t.state # "Open" /\ Quiet(on, t)
  <2>1. CASE ShouldStartWatchStream(on)
    <3>1. PICK u : u = StartWatchStream(on) /\ Calm(u) /\ u.state # "Open" /\ Quiet(on, u)
      BY <1>17, StartWatchStreamCalms
    <3> QED
      BY <1>19, <1>20, <2>1, <3>1
  <2>2. CASE ~ShouldStartWatchStream(on)
    <3>1. PICK u : /\ u = UpdateState(on, "Unknown") /\ Calm(u) /\ u.state = on.state
                   /\ Quiet(on, u)
      BY <1>17, ShutCalms
    <3> QED
      BY <1>15, <1>19, <1>20, <2>2, <3>1
  <2> QED
    BY <2>1, <2>2
<1>22. on.listen_targets = s.listen_targets /\ on.view \subseteq s.view
  BY <1>3, <1>5, <1>9, <1>10, <1>12, <1>15 DEF Quiet
<1> QED
  BY <1>15, <1>20, <1>21, <1>22 DEF Quiet

(***************************************************************************)
(* A remote store that is settled stays so                                 *)
(***************************************************************************)
\* A connection that is down is settled.
LEMMA DownSettles ==
  ASSUME NEW s, NEW c, NEW v, Calm(s), s.is_network_enabled, s.state # "Open",
         ViewsFresh(s, c, v)
  PROVE  Settled(s, c, v)
<1>1. s.up = <<>> /\ s.down = <<>> /\ s.aggregator = NewAggregator
  BY DEF Calm, Down
<1>2. \A T : Places(s.up, T) = {} /\ Places(s.down, T) = {}
  BY <1>1, PlacesOfNothing
<1>3. Counted(s)
  <2> SUFFICES ASSUME NEW d \in Docs
               PROVE  s.aggregator.targets[d].outstanding
                        = Cardinality(Asked(s, d)) + Cardinality(Told(s, d))
    BY DEF Counted
  <2>1. Cardinality(Asked(s, d)) = 0 /\ Cardinality(Told(s, d)) = 0
    BY <1>2, FS_EmptySet DEF Asked, Told
  <2>2. s.aggregator.targets[d].outstanding = 0
    BY <1>1 DEF NewAggregator, NewTarget
  <2> QED
    BY <2>1, <2>2
<1>4. Known(s, c)
  BY <1>1 DEF Known
<1> QED
  BY <1>3, <1>4 DEF Settled, AllWanted, AllCurrent, IsOpen

\* A stream that closes leaves the store settled.
LEMMA QuietSettles ==
  ASSUME NEW s, NEW t, NEW c, NEW v, Settled(s, c, v), Calm(t), t.is_network_enabled,
         t.state # "Open", t.view \subseteq s.view
  PROVE  Settled(t, c, v)
<1>1. ViewsFresh(t, c, v)
  BY DEF Settled, ViewsFresh
<1> QED
  BY <1>1, DownSettles

\* A store that differs in the tracker, the views or the timer of the stream only.
LEMMA SameSettles ==
  ASSUME NEW s, NEW t, NEW c, NEW v, Settled(s, c, v), Calm(t), SameTargets(s, t),
         t.state = s.state, t.up = s.up, t.down = s.down, t.view \subseteq s.view
  PROVE  Settled(t, c, v)
<1>1. /\ t.is_network_enabled = s.is_network_enabled /\ t.listen_targets = s.listen_targets
      /\ t.aggregator = s.aggregator /\ t.watched = s.watched
  BY DEF SameTargets
<1>2. s.is_network_enabled /\ Counted(s) /\ AllWanted(s) /\ AllCurrent(s, c, v)
      /\ Known(s, c) /\ ViewsFresh(s, c, v)
  BY DEF Settled
<1>3. \A d : Asked(t, d) = Asked(s, d) /\ Told(t, d) = Told(s, d)
  BY DEF Asked, Told
<1>4. Counted(t)
  BY <1>1, <1>2, <1>3 DEF Counted
<1>5. AllWanted(t)
  BY <1>1, <1>2, <1>3 DEF AllWanted, Wanted, IsOpen
<1>6. AllCurrent(t, c, v)
  BY <1>1, <1>2, <1>3 DEF AllCurrent, IsOpen
<1>7. Known(t, c) /\ ViewsFresh(t, c, v)
  BY <1>2 DEF Known, ViewsFresh
<1> QED
  BY <1>1, <1>2, <1>4, <1>5, <1>6, <1>7 DEF Settled

\* UpdateState keeps a store calm.
LEMMA UpdateCalms ==
  ASSUME NEW s, Calm(s), NEW o \in {"Unknown", "Online"}
  PROVE  \E t : /\ t = UpdateState(s, o) /\ Calm(t) /\ SameStream(s, t) /\ SameTargets(s, t)
                /\ t.view = s.view
<1>0. s \in RemoteStore
  BY DEF Calm
<1>1. PICK t \in RemoteStore :
            /\ t = UpdateState(s, o) /\ SameStream(s, t) /\ SameTargets(s, t)
            /\ t.online = o /\ ~t.timer /\ t.watch_stream_failures = 0 /\ t.view = s.view
  BY <1>0, UpdateStateSets
<1>2. TokensCurrent(t) /\ Tracker(t)
  BY <1>1 DEF Calm, SameStream, TokensCurrent, Tracker
<1>3. Calm(t)
  BY <1>1, <1>2 DEF Calm, Down, SameStream, SameTargets
<1> QED
  BY <1>1, <1>3

(***************************************************************************)
(* Requests are sent                                                       *)
(***************************************************************************)
\* Requests about d.
LEMMA RequestsAbout ==
  ASSUME NEW rs \in Seq(Requests), NEW d
  PROVE  Places(rs, About(d)) = {i \in 1..Len(rs) : rs[i].doc = d}
<1>1. \A i \in 1..Len(rs) : rs[i] \in Requests
  OBVIOUS
<1> QED
  BY <1>1 DEF Places, About

\* RecordPendingTargetRequest: one answer more is due for every request.
LEMMA RecordPendingCounts ==
  ASSUME NEW s \in RemoteStore, NEW rs \in Seq(Requests)
  PROVE  \E t \in RemoteStore :
            /\ t = RecordPending(s, rs) /\ SameStream(s, t) /\ SameTracker(s, t)
            /\ t.view = s.view /\ t.is_network_enabled = s.is_network_enabled
            /\ t.listen_targets = s.listen_targets /\ t.watched = s.watched
            /\ t.aggregator.updates = s.aggregator.updates
            /\ \A d \in Docs : t.aggregator.targets[d].outstanding
                 = s.aggregator.targets[d].outstanding + Cardinality(Places(rs, About(d)))
<1>1. PICK n : n = [d \in Docs |-> Cardinality(Places(rs, About(d)))]
  OBVIOUS
<1>2. \A d \in Docs : n[d] = Cardinality(Places(rs, About(d))) /\ n[d] \in Nat
  BY <1>1, PlacesFinite
<1>3. s.aggregator \in Aggregators
  BY DEF RemoteStore
<1>4. /\ s.aggregator.targets \in [Docs -> Targets] /\ s.aggregator.updates \in [Docs -> Nat]
  BY <1>3 DEF Aggregators
<1>5. PICK f : f = [d \in Docs |-> [s.aggregator.targets[d] EXCEPT !.outstanding = @ + n[d]]]
  OBVIOUS
<1>6. /\ f \in [Docs -> Targets]
      /\ \A d \in Docs : f[d].outstanding = s.aggregator.targets[d].outstanding + n[d]
  <2> SUFFICES ASSUME NEW d \in Docs
               PROVE  /\ f[d] \in Targets
                      /\ f[d].outstanding = s.aggregator.targets[d].outstanding + n[d]
    BY <1>5
  <2>1. PICK a : a = s.aggregator.targets[d]
    OBVIOUS
  <2>2. a \in Targets /\ f[d] = [a EXCEPT !.outstanding = @ + n[d]]
    BY <1>4, <1>5, <2>1
  <2> QED
    BY <1>2, <2>1, <2>2 DEF Targets
<1>7. PICK g : g = [s.aggregator EXCEPT !.targets = f]
  OBVIOUS
<1>8. g \in Aggregators /\ g.targets = f /\ g.updates = s.aggregator.updates
  BY <1>3, <1>6, <1>7 DEF Aggregators
<1>9. PICK t : t = [s EXCEPT !.aggregator = g]
  OBVIOUS
<1>10. t \in RemoteStore
  BY <1>8, <1>9 DEF RemoteStore
<1>11. t = RecordPending(s, rs)
  <2>1. f = [d \in Docs |-> [s.aggregator.targets[d] EXCEPT
               !.outstanding = @ + Cardinality({i \in 1..Len(rs) : rs[i].doc = d})]]
    <3>1. \A d \in Docs : n[d] = Cardinality({i \in 1..Len(rs) : rs[i].doc = d})
      BY <1>2, RequestsAbout
    <3> QED
      BY <1>5, <3>1
  <2> QED
    BY <1>7, <1>9, <2>1 DEF RecordPending
<1>12. /\ SameStream(s, t) /\ SameTracker(s, t) /\ t.view = s.view /\ t.aggregator = g
       /\ t.is_network_enabled = s.is_network_enabled
       /\ t.listen_targets = s.listen_targets /\ t.watched = s.watched
  BY <1>9 DEF RemoteStore, SameStream, SameTracker
<1> QED
  BY <1>2, <1>6, <1>8, <1>10, <1>11, <1>12

\* SendWatchRequest and SendUnwatchRequest, for the requests rs.
LEMMA SendSends ==
  ASSUME NEW s \in RemoteStore, s.state = "Open", NEW rs \in Seq(Requests)
  PROVE  \E t \in RemoteStore :
            /\ t = Send(s, rs) /\ SameTracker(s, t)
            /\ t.state = s.state /\ t.close_count = s.close_count /\ t.tokens = s.tokens
            /\ t.down = s.down /\ t.failed = s.failed /\ t.up = s.up \o rs
            /\ t.idleness_timer => s.idleness_timer /\ rs = <<>>
            /\ t.view = s.view /\ t.is_network_enabled = s.is_network_enabled
            /\ t.listen_targets = s.listen_targets /\ t.watched = s.watched
            /\ t.aggregator.updates = s.aggregator.updates
            /\ \A d \in Docs : t.aggregator.targets[d].outstanding
                 = s.aggregator.targets[d].outstanding + Cardinality(Places(rs, About(d)))
<1>1. PICK r \in RemoteStore :
            /\ r = RecordPending(s, rs) /\ SameStream(s, r) /\ SameTracker(s, r)
            /\ r.view = s.view /\ r.is_network_enabled = s.is_network_enabled
            /\ r.listen_targets = s.listen_targets /\ r.watched = s.watched
            /\ r.aggregator.updates = s.aggregator.updates
            /\ \A d \in Docs : r.aggregator.targets[d].outstanding
                 = s.aggregator.targets[d].outstanding + Cardinality(Places(rs, About(d)))
  BY RecordPendingCounts
<1>2. /\ r.state = s.state /\ r.close_count = s.close_count /\ r.tokens = s.tokens
      /\ r.down = s.down /\ r.failed = s.failed /\ r.up = s.up
      /\ r.idleness_timer = s.idleness_timer /\ s.up \in Seq(Requests)
  BY <1>1 DEF SameStream, RemoteStore
<1>3. CASE rs = <<>>
  <2>1. r = Send(s, rs)
    BY <1>1, <1>3 DEF Send, WriteAll
  <2>2. r.up = s.up \o rs
    BY <1>2, <1>3
  <2> QED
    BY <1>1, <1>2, <1>3, <2>1, <2>2
<1>4. CASE rs # <<>>
  <2>1. PICK u : u = s.up \o rs
    OBVIOUS
  <2>2. u \in Seq(Requests)
    BY <1>2, <2>1
  <2>3. PICK t : t = [r EXCEPT !.up = u, !.idleness_timer = FALSE]
    OBVIOUS
  <2>4. t \in RemoteStore
    BY <1>1, <2>2, <2>3 DEF RemoteStore
  <2>5. t = Send(s, rs)
    BY <1>1, <1>2, <1>4, <2>1, <2>3 DEF Send, WriteAll, HardAssert, IsOpen
  <2>6. /\ SameTracker(r, t) /\ t.state = r.state /\ t.close_count = r.close_count
        /\ t.tokens = r.tokens /\ t.down = r.down /\ t.failed = r.failed /\ t.up = u
        /\ ~t.idleness_timer /\ t.view = r.view
        /\ t.is_network_enabled = r.is_network_enabled
        /\ t.listen_targets = r.listen_targets /\ t.watched = r.watched
        /\ t.aggregator = r.aggregator
    BY <1>1, <2>3 DEF RemoteStore, SameTracker
  <2>7. SameTracker(s, t)
    BY <1>1, <2>6 DEF SameTracker
  <2> QED
    BY <1>1, <1>2, <2>1, <2>4, <2>5, <2>6, <2>7
<1> QED
  BY <1>3, <1>4

\* An open store that is calm, but for the idle timer.
Lively(s) ==
    /\ s \in RemoteStore /\ s.state = "Open" /\ s.failed = {}
    /\ IsFiniteSet(s.listen_targets) /\ TokensCurrent(s) /\ Tracker(s)
    /\ s.view \subseteq s.listen_targets

\* What an open stream has for a target that is listened to.
InHand(s, d, c, v) ==
    /\ Wanted(s, d)
    /\ Asked(s, d) = {} => Current(s.down, d, s.aggregator.updates[d], c[d], v[d])

\* A request about a target, sent after the others, is the last one about it.
LEMMA WantedSent ==
  ASSUME NEW s \in RemoteStore, NEW t \in RemoteStore, NEW rs \in Seq(Requests), NEW d,
         t.up = s.up \o rs, t.watched = s.watched,
         Places(rs, About(d)) = {} => Wanted(s, d),
         \A i \in Places(rs, About(d)) : rs[i].watch
  PROVE  /\ Wanted(t, d)
         /\ Asked(t, d) = {} => Asked(s, d) = {} /\ Places(rs, About(d)) = {}
<1>1. PICK p, k, T : p = s.up /\ k = Len(s.up) /\ T = About(d)
  OBVIOUS
<1>2. p \in Seq(Requests) /\ k \in Nat
  BY <1>1 DEF RemoteStore
<1>3. /\ \A i \in 1..k : (p \o rs)[i] = p[i]
      /\ \A j \in 1..Len(rs) : (p \o rs)[k + j] = rs[j]
  BY <1>1, <1>2, Joined
<1>4. \A i : i \in Places(p \o rs, T) <=> i \in Places(p, T) \/ \E j \in Places(rs, T) : i = k + j
  BY <1>1, <1>2, PlacesJoined
<1>5. \A i : i \in Asked(t, d) <=> i \in Asked(s, d) \/ \E j \in Places(rs, T) : i = k + j
  BY <1>1, <1>4 DEF Asked
<1>6. Asked(s, d) \subseteq 1..k /\ Places(rs, T) \subseteq 1..Len(rs)
  BY <1>1 DEF Asked, Places
<1>7. \A i \in Asked(s, d) : t.up[i] = s.up[i]
  BY <1>1, <1>3, <1>6
<1>8. \A j \in Places(rs, T) : t.up[k + j] = rs[j]
  BY <1>1, <1>3, <1>6
<1>9. CASE Places(rs, T) = {}
  <2>1. Asked(t, d) = Asked(s, d)
    BY <1>5, <1>9
  <2>2. Wanted(s, d)
    BY <1>1, <1>9
  <2>3. Wanted(t, d)
    BY <1>7, <2>1, <2>2 DEF Wanted
  <2> QED
    BY <1>1, <1>9, <2>1, <2>3
<1>10. CASE Places(rs, T) # {}
  <2>1. PICK x \in Places(rs, T) : TRUE
    BY <1>10
  <2>2. k + x \in Asked(t, d) /\ x \in Nat /\ x > 0
    BY <1>5, <1>6, <2>1
  <2>3. ASSUME NEW i \in Asked(t, d), \A j \in Asked(t, d) : j <= i PROVE t.up[i].watch
    <3>1. k + x <= i
      BY <2>2, <2>3
    <3>2. i \notin Asked(s, d)
      <4> SUFFICES ASSUME i \in Asked(s, d) PROVE FALSE
        OBVIOUS
      <4>1. i \in Nat /\ i <= k
        BY <1>2, <1>6
      <4> QED
        BY <1>2, <2>2, <3>1, <4>1
    <3>3. PICK j \in Places(rs, T) : i = k + j
      BY <1>5, <3>2
    <3> QED
      BY <1>1, <1>8, <3>3
  <2> QED
    BY <2>2, <2>3 DEF Wanted
<1> QED
  BY <1>9, <1>10

\* What is asked of the requests rs: to watch targets that are listened to.
Sendable(s, rs, c, v) ==
    /\ Lively(s) /\ s.is_network_enabled /\ Counted(s) /\ Known(s, c) /\ ViewsFresh(s, c, v)
    /\ rs \in Seq(Requests) /\ (s.idleness_timer => rs # <<>>)
    /\ \A d \in s.listen_targets : Places(rs, About(d)) = {} => InHand(s, d, c, v)
    /\ \A d \in s.listen_targets : \A i \in Places(rs, About(d)) : rs[i].watch
    /\ \A i \in 1..Len(rs) : rs[i].known <= c[rs[i].doc]

\* Requests are sent on an open stream.
LEMMA SendSettles ==
  ASSUME NEW s, NEW rs, NEW c, NEW v, Sendable(s, rs, c, v)
  PROVE  \E t : /\ t = Send(s, rs) /\ Settled(t, c, v) /\ t.view = s.view
                /\ t.listen_targets = s.listen_targets /\ t.state = "Open"
                /\ ~t.idleness_timer
<1>a. /\ Lively(s) /\ s.is_network_enabled /\ Counted(s) /\ Known(s, c) /\ ViewsFresh(s, c, v)
      /\ rs \in Seq(Requests) /\ (s.idleness_timer => rs # <<>>)
  BY DEF Sendable
<1>b. \A d \in s.listen_targets :
         /\ Places(rs, About(d)) = {} => InHand(s, d, c, v)
         /\ \A i \in Places(rs, About(d)) : rs[i].watch
  BY DEF Sendable
<1>c. \A i \in 1..Len(rs) : rs[i].known <= c[rs[i].doc]
  BY DEF Sendable
<1>0. /\ s \in RemoteStore /\ s.state = "Open" /\ s.failed = {}
      /\ IsFiniteSet(s.listen_targets) /\ TokensCurrent(s) /\ Tracker(s)
      /\ s.view \subseteq s.listen_targets
  BY <1>a DEF Lively
<1>1. PICK t \in RemoteStore :
            /\ t = Send(s, rs) /\ SameTracker(s, t)
            /\ t.state = s.state /\ t.close_count = s.close_count /\ t.tokens = s.tokens
            /\ t.down = s.down /\ t.failed = s.failed /\ t.up = s.up \o rs
            /\ t.idleness_timer => s.idleness_timer /\ rs = <<>>
            /\ t.view = s.view /\ t.is_network_enabled = s.is_network_enabled
            /\ t.listen_targets = s.listen_targets /\ t.watched = s.watched
            /\ t.aggregator.updates = s.aggregator.updates
            /\ \A d \in Docs : t.aggregator.targets[d].outstanding
                 = s.aggregator.targets[d].outstanding + Cardinality(Places(rs, About(d)))
  BY <1>0, <1>a, SendSends
<1>2. ~t.idleness_timer
  BY <1>1, <1>a
<1>3. Calm(t)
  <2>1. TokensCurrent(t) /\ Tracker(t)
    BY <1>0, <1>1 DEF TokensCurrent, Tracker, SameTracker, IsStarted
  <2> QED
    BY <1>0, <1>1, <1>2, <2>1 DEF Calm
<1>4. s.up \in Seq(Requests) /\ s.down \in Seq(Messages)
  BY <1>0 DEF RemoteStore
<1>5. Counted(t)
  <2> SUFFICES ASSUME NEW d \in Docs
               PROVE  t.aggregator.targets[d].outstanding
                        = Cardinality(Asked(t, d)) + Cardinality(Told(t, d))
    BY DEF Counted
  <2>1. PICK n, a, b, e : /\ n = s.aggregator.targets[d].outstanding
                          /\ a = Cardinality(Places(s.up, About(d)))
                          /\ b = Cardinality(Told(s, d))
                          /\ e = Cardinality(Places(rs, About(d)))
    OBVIOUS
  <2>2. a \in Nat /\ b \in Nat /\ e \in Nat
    BY <1>4, <1>a, <2>1, PlacesFinite DEF Told
  <2>3. n = a + b
    BY <1>a, <2>1 DEF Counted, Asked
  <2>4. Cardinality(Asked(t, d)) = a + e
    BY <1>1, <1>4, <1>a, <2>1, PlacesJoined DEF Asked
  <2>5. Cardinality(Told(t, d)) = b
    BY <1>1, <2>1 DEF Told
  <2>6. t.aggregator.targets[d].outstanding = n + e
    BY <1>1, <2>1
  <2> QED
    BY <2>2, <2>3, <2>4, <2>5, <2>6
<1>6. ASSUME NEW d \in t.listen_targets
      PROVE  /\ Wanted(t, d)
             /\ Asked(t, d) = {} => Current(t.down, d, t.aggregator.updates[d], c[d], v[d])
  <2>1. d \in s.listen_targets
    BY <1>1
  <2>2. /\ Places(rs, About(d)) = {} => Wanted(s, d)
        /\ \A i \in Places(rs, About(d)) : rs[i].watch
    BY <1>b, <2>1 DEF InHand
  <2>3. /\ Wanted(t, d)
        /\ Asked(t, d) = {} => Asked(s, d) = {} /\ Places(rs, About(d)) = {}
    BY <1>0, <1>1, <1>a, <2>2, WantedSent
  <2> QED
    BY <1>1, <1>b, <2>1, <2>3 DEF InHand
<1>7. AllWanted(t) /\ AllCurrent(t, c, v)
  BY <1>6 DEF AllWanted, AllCurrent
<1>8. Known(t, c)
  <2>1. PICK p, k, l : p = s.up /\ k = Len(s.up) /\ l = Len(rs)
    OBVIOUS
  <2>2. /\ Len(p \o rs) = k + l /\ k \in Nat /\ l \in Nat
        /\ \A i \in 1..k : (p \o rs)[i] = p[i]
        /\ \A j \in 1..l : (p \o rs)[k + j] = rs[j]
    BY <1>4, <1>a, <2>1, Joined
  <2> SUFFICES ASSUME NEW i \in 1..Len(t.up) PROVE t.up[i].known <= c[t.up[i].doc]
    BY DEF Known
  <2>3. CASE i \in 1..k
    BY <1>1, <1>a, <2>1, <2>2, <2>3 DEF Known
  <2>4. CASE i \notin 1..k
    <3>1. PICK j : j = i - k
      OBVIOUS
    <3>2. j \in 1..l /\ i = k + j
      BY <1>1, <2>1, <2>2, <2>4, <3>1
    <3>3. t.up[i] = rs[j]
      BY <1>1, <2>1, <2>2, <3>2
    <3> QED
      BY <1>c, <2>1, <3>2, <3>3
  <2> QED
    BY <2>3, <2>4
<1>9. ViewsFresh(t, c, v)
  BY <1>1, <1>a DEF ViewsFresh
<1>10. Settled(t, c, v)
  BY <1>1, <1>3, <1>5, <1>7, <1>8, <1>9, <1>a DEF Settled
<1> QED
  BY <1>0, <1>1, <1>2, <1>10

\* The request about a document.
LEMMA RequestIs ==
  ASSUME cache \in [Docs -> Nat], NEW d \in Docs, NEW w \in BOOLEAN
  PROVE  /\ Request(d, w) \in Requests /\ Request(d, w).doc = d
         /\ Request(d, w).watch = w /\ Request(d, w).known = cache[d]
  BY DEF Request, Requests

\* A single request.
LEMMA OneRequest ==
  ASSUME NEW r \in Requests
  PROVE  \E rs \in Seq(Requests) :
            /\ rs = <<r>> /\ rs # <<>> /\ Len(rs) = 1 /\ rs[1] = r
            /\ Places(rs, About(r.doc)) = {1}
            /\ \A d : d # r.doc => Places(rs, About(d)) = {}
<1>1. PICK rs : rs = <<r>>
  OBVIOUS
<1>2. rs \in Seq(Requests) /\ rs # <<>> /\ Len(rs) = 1 /\ rs[1] = r
  BY <1>1
<1>3. r \in About(r.doc) /\ \A d : d # r.doc => r \notin About(d)
  BY DEF About
<1>4. Places(rs, About(r.doc)) = {1}
  BY <1>1, <1>3, PlacesOfOne
<1>5. \A d : d # r.doc => Places(rs, About(d)) = {}
  BY <1>1, <1>3, PlacesOfOne
<1> QED
  BY <1>1, <1>2, <1>4, <1>5

(***************************************************************************)
(* Listens                                                                 *)
(***************************************************************************)
\* The history of when documents were listened to differs at d only.
SinceBut(d, v, w) == \A e \in Docs : e # d => w[e] = v[e]

\* RemoteStore::Listen, to a document that is not listened to.
LEMMA ListenSettles ==
  ASSUME NEW s, NEW v, NEW w, NEW d \in Docs, cache \in [Docs -> Nat],
         Settled(s, cache, v), d \notin s.listen_targets, SinceBut(d, v, w)
  PROVE  \E t : /\ t = ListenTo(s, d) /\ Settled(t, cache, w)
                /\ t.listen_targets = s.listen_targets \cup {d} /\ t.view \subseteq s.view
<1>0. /\ s.is_network_enabled /\ Calm(s) /\ Counted(s) /\ AllWanted(s)
      /\ AllCurrent(s, cache, v) /\ Known(s, cache) /\ ViewsFresh(s, cache, v)
  BY DEF Settled
<1>1. /\ s \in RemoteStore /\ s.failed = {} /\ IsFiniteSet(s.listen_targets)
      /\ TokensCurrent(s) /\ Tracker(s) /\ s.view \subseteq s.listen_targets
      /\ s.idleness_timer => s.state = "Open"
      /\ s.state # "Open" => Down(s)
      /\ s.listen_targets \subseteq Docs
  BY <1>0 DEF Calm, RemoteStore
<1>2. PICK l : l = s.listen_targets \cup {d}
  OBVIOUS
<1>3. l \subseteq Docs /\ IsFiniteSet(l) /\ l # {}
  BY <1>1, <1>2, FS_AddElement
<1>4. PICK n : n = [s EXCEPT !.listen_targets = l]
  OBVIOUS
<1>5. n \in RemoteStore
  BY <1>1, <1>3, <1>4 DEF RemoteStore
<1>6. /\ SameStream(s, n) /\ SameTracker(s, n) /\ n.view = s.view /\ n.listen_targets = l
      /\ n.is_network_enabled = s.is_network_enabled /\ n.aggregator = s.aggregator
      /\ n.watched = s.watched
  BY <1>1, <1>4 DEF RemoteStore, SameStream, SameTracker
<1>7. /\ n.state = s.state /\ n.failed = {} /\ n.up = s.up /\ n.down = s.down
      /\ n.idleness_timer = s.idleness_timer /\ TokensCurrent(n) /\ Tracker(n)
      /\ n.view \subseteq n.listen_targets
  BY <1>1, <1>2, <1>6 DEF SameStream, SameTracker, TokensCurrent, Tracker, IsStarted
<1>8. ViewsFresh(n, cache, w)
  <2>1. \A e \in n.view : e \in s.view /\ e \in Docs /\ e # d
    BY <1>1, <1>6
  <2> QED
    BY <1>0, <2>1 DEF ViewsFresh, SinceBut
<1>9. ListenTo(s, d) = IF ShouldStartWatchStream(n) THEN StartWatchStream(n)
                       ELSE IF IsOpen(n) THEN Send(n, <<Request(d, TRUE)>>) ELSE n
  BY <1>2, <1>4 DEF ListenTo
<1>10. CASE ShouldStartWatchStream(n)
  <2>1. n.state \in {"Initial", "Error"} /\ ~n.timer
    BY <1>5, <1>7, <1>10 DEF ShouldStartWatchStream, IsStarted, RemoteStore, States, Tracker
  <2>2. Shut(n) /\ n.watched = {}
    BY <1>1, <1>3, <1>5, <1>6, <1>7, <2>1 DEF Shut, Down, Tracker
  <2>3. PICK t : t = StartWatchStream(n) /\ Calm(t) /\ t.state # "Open" /\ Quiet(n, t)
    BY <2>1, <2>2, StartWatchStreamCalms
  <2>4. ViewsFresh(t, cache, w) /\ t.is_network_enabled
    BY <1>0, <1>6, <1>8, <2>3 DEF ViewsFresh, Quiet
  <2>5. Settled(t, cache, w)
    BY <2>3, <2>4, DownSettles
  <2> QED
    BY <1>2, <1>6, <1>9, <1>10, <2>3, <2>5 DEF Quiet
<1>11. CASE ~ShouldStartWatchStream(n) /\ ~IsOpen(n)
  <2>1. n.state # "Open" /\ ~n.idleness_timer
    BY <1>1, <1>7, <1>11 DEF IsOpen
  <2>2. Down(n)
    BY <1>1, <1>6, <1>7, <2>1 DEF Down
  <2>3. Calm(n)
    BY <1>3, <1>5, <1>6, <1>7, <2>1, <2>2 DEF Calm
  <2>4. Settled(n, cache, w)
    BY <1>0, <1>6, <1>8, <2>1, <2>3, DownSettles
  <2> QED
    BY <1>2, <1>6, <1>9, <1>11, <2>4
<1>12. CASE ~ShouldStartWatchStream(n) /\ IsOpen(n)
  <2>1. PICK r : r = Request(d, TRUE)
    OBVIOUS
  <2>2. r \in Requests /\ r.doc = d /\ r.watch /\ r.known = cache[d]
    BY <2>1, RequestIs
  <2>3. PICK rs \in Seq(Requests) :
            /\ rs = <<r>> /\ rs # <<>> /\ Len(rs) = 1 /\ rs[1] = r
            /\ Places(rs, About(r.doc)) = {1}
            /\ \A e : e # r.doc => Places(rs, About(e)) = {}
    BY <2>2, OneRequest
  <2>4. Lively(n) /\ n.is_network_enabled
    BY <1>0, <1>3, <1>5, <1>6, <1>7, <1>12 DEF Lively, IsOpen
  <2>5. Counted(n) /\ Known(n, cache)
    BY <1>0, <1>6, <1>7 DEF Counted, Known, Asked, Told
  <2>6. \A e \in n.listen_targets : \A i \in Places(rs, About(e)) : rs[i].watch
    BY <2>2, <2>3
  <2>7. \A e \in n.listen_targets : Places(rs, About(e)) = {} => InHand(n, e, cache, w)
    <3> SUFFICES ASSUME NEW e \in n.listen_targets, Places(rs, About(e)) = {}
                 PROVE  InHand(n, e, cache, w)
      OBVIOUS
    <3>1. e \in s.listen_targets /\ e # d /\ e \in Docs
      BY <1>1, <1>2, <1>6, <2>2, <2>3
    <3>2. IsOpen(s) /\ w[e] = v[e]
      BY <1>7, <1>12, <3>1 DEF IsOpen, SinceBut
    <3>3. Wanted(s, e) /\ (Asked(s, e) = {} =>
                  Current(s.down, e, s.aggregator.updates[e], cache[e], v[e]))
      BY <1>0, <3>1, <3>2 DEF AllWanted, AllCurrent
    <3>4. Asked(n, e) = Asked(s, e)
      BY <1>7 DEF Asked
    <3>5. Wanted(n, e)
      BY <1>6, <1>7, <3>3, <3>4 DEF Wanted
    <3> QED
      BY <1>6, <1>7, <3>2, <3>3, <3>4, <3>5 DEF InHand
  <2>8. \A i \in 1..Len(rs) : rs[i].known <= cache[rs[i].doc]
    <3>1. cache[d] \in Nat
      OBVIOUS
    <3> QED
      BY <2>2, <2>3, <3>1
  <2>9. n.idleness_timer => rs # <<>>
    BY <2>3
  <2>s. Sendable(n, rs, cache, w)
    BY <1>8, <2>4, <2>5, <2>6, <2>7, <2>8, <2>9 DEF Sendable
  <2>10. PICK t : /\ t = Send(n, rs) /\ Settled(t, cache, w) /\ t.view = n.view
                  /\ t.listen_targets = n.listen_targets /\ t.state = "Open"
    BY <2>s, SendSettles
  <2>11. t = ListenTo(s, d)
    BY <1>9, <1>12, <2>1, <2>3, <2>10
  <2> QED
    BY <1>2, <1>6, <2>10, <2>11
<1> QED
  BY <1>10, <1>11, <1>12

\* RemoteStore::StopListening, to a document that is listened to.
LEMMA StopListeningSettles ==
  ASSUME NEW s, NEW v, NEW d \in Docs, cache \in [Docs -> Nat],
         Settled(s, cache, v), d \in s.listen_targets
  PROVE  \E t : /\ t = StopListeningTo(s, d) /\ Settled(t, cache, v)
                /\ t.listen_targets = s.listen_targets \ {d}
<1>0. /\ s.is_network_enabled /\ Calm(s) /\ Counted(s) /\ AllWanted(s)
      /\ AllCurrent(s, cache, v) /\ Known(s, cache) /\ ViewsFresh(s, cache, v)
  BY DEF Settled
<1>1. /\ s \in RemoteStore /\ s.failed = {} /\ IsFiniteSet(s.listen_targets)
      /\ TokensCurrent(s) /\ Tracker(s) /\ s.view \subseteq s.listen_targets
      /\ ~s.idleness_timer
      /\ s.state # "Open" => Down(s)
      /\ s.listen_targets \subseteq Docs /\ s.view \subseteq Docs
  BY <1>0 DEF Calm, RemoteStore
<1>2. PICK l, w : l = s.listen_targets \ {d} /\ w = s.view \ {d}
  OBVIOUS
<1>3. l \subseteq Docs /\ IsFiniteSet(l) /\ w \subseteq l /\ w \subseteq Docs
  BY <1>1, <1>2, FS_RemoveElement
<1>4. PICK n : n = [s EXCEPT !.listen_targets = l, !.view = w]
  OBVIOUS
<1>5. n \in RemoteStore
  BY <1>1, <1>3, <1>4 DEF RemoteStore
<1>6. /\ SameStream(s, n) /\ SameTracker(s, n) /\ n.view = w /\ n.listen_targets = l
      /\ n.is_network_enabled = s.is_network_enabled /\ n.aggregator = s.aggregator
      /\ n.watched = s.watched
  BY <1>1, <1>4 DEF RemoteStore, SameStream, SameTracker
<1>7. /\ n.state = s.state /\ n.failed = {} /\ n.up = s.up /\ n.down = s.down
      /\ ~n.idleness_timer /\ TokensCurrent(n) /\ Tracker(n)
      /\ n.view \subseteq n.listen_targets
  BY <1>1, <1>3, <1>6 DEF SameStream, SameTracker, TokensCurrent, Tracker, IsStarted
<1>8. ViewsFresh(n, cache, v)
  BY <1>0, <1>2, <1>6 DEF ViewsFresh
<1>9. PICK u : u = IF IsOpen(n) THEN Send(n, <<Request(d, FALSE)>>) ELSE n
  OBVIOUS
<1>10. StopListeningTo(s, d) = IF u.listen_targets # {} THEN u
                               ELSE IF IsOpen(u) THEN MarkIdle(u) ELSE UpdateState(u, "Unknown")
  BY <1>2, <1>4, <1>9 DEF StopListeningTo, HardAssert
<1>11. CASE ~IsOpen(n)
  <2>1. u = n /\ n.state # "Open"
    BY <1>9, <1>11 DEF IsOpen
  <2>2. Down(n)
    BY <1>1, <1>6, <1>7, <2>1 DEF Down
  <2>3. Calm(n)
    BY <1>3, <1>5, <1>6, <1>7, <2>2 DEF Calm
  <2>4. Settled(n, cache, v)
    BY <1>0, <1>6, <1>8, <2>1, <2>3, DownSettles
  <2>5. CASE l # {}
    BY <1>2, <1>6, <1>10, <2>1, <2>4, <2>5
  <2>6. CASE l = {}
    <3>1. PICK t : /\ t = UpdateState(n, "Unknown") /\ Calm(t) /\ SameStream(n, t)
                   /\ SameTargets(n, t) /\ t.view = n.view
      BY <2>3, UpdateCalms
    <3>2. t.state = n.state /\ t.up = n.up /\ t.down = n.down
      BY <3>1 DEF SameStream
    <3>3. Settled(t, cache, v)
      BY <2>4, <3>1, <3>2, SameSettles
    <3>4. t = StopListeningTo(s, d)
      BY <1>6, <1>10, <1>11, <2>1, <2>6, <3>1
    <3> QED
      BY <1>2, <1>6, <3>1, <3>3, <3>4 DEF SameTargets
  <2> QED
    BY <2>5, <2>6
<1>12. CASE IsOpen(n)
  <2>1. PICK r : r = Request(d, FALSE)
    OBVIOUS
  <2>2. r \in Requests /\ r.doc = d /\ r.known = cache[d]
    BY <2>1, RequestIs
  <2>3. PICK rs \in Seq(Requests) :
            /\ rs = <<r>> /\ rs # <<>> /\ Len(rs) = 1 /\ rs[1] = r
            /\ Places(rs, About(r.doc)) = {1}
            /\ \A e : e # r.doc => Places(rs, About(e)) = {}
    BY <2>2, OneRequest
  <2>4. Lively(n) /\ n.is_network_enabled
    BY <1>0, <1>3, <1>5, <1>6, <1>7, <1>12 DEF Lively, IsOpen
  <2>5. Counted(n) /\ Known(n, cache)
    BY <1>0, <1>6, <1>7 DEF Counted, Known, Asked, Told
  <2>6. \A e \in n.listen_targets : e # d
    BY <1>2, <1>6
  <2>7. \A e \in n.listen_targets : \A i \in Places(rs, About(e)) : rs[i].watch
    BY <2>2, <2>3, <2>6
  <2>8. ASSUME NEW e \in n.listen_targets
        PROVE  InHand(n, e, cache, v)
    <3>1. e \in s.listen_targets /\ IsOpen(s)
      BY <1>2, <1>6, <1>7, <1>12 DEF IsOpen
    <3>2. Wanted(s, e) /\ (Asked(s, e) = {} =>
                  Current(s.down, e, s.aggregator.updates[e], cache[e], v[e]))
      BY <1>0, <3>1 DEF AllWanted, AllCurrent
    <3>3. Asked(n, e) = Asked(s, e)
      BY <1>7 DEF Asked
    <3>4. Wanted(n, e)
      BY <1>6, <1>7, <3>2, <3>3 DEF Wanted
    <3> QED
      BY <1>6, <1>7, <3>2, <3>3, <3>4 DEF InHand
  <2>9. \A i \in 1..Len(rs) : rs[i].known <= cache[rs[i].doc]
    <3>1. cache[d] \in Nat
      OBVIOUS
    <3> QED
      BY <2>2, <2>3, <3>1
  <2>10. n.idleness_timer => rs # <<>>
    BY <2>3
  <2>s. Sendable(n, rs, cache, v)
    BY <1>8, <2>4, <2>5, <2>7, <2>8, <2>9, <2>10 DEF Sendable
  <2>11. PICK t : /\ t = Send(n, rs) /\ Settled(t, cache, v) /\ t.view = n.view
                  /\ t.listen_targets = n.listen_targets /\ t.state = "Open"
    BY <2>s, SendSettles
  <2>12. u = t
    BY <1>9, <1>12, <2>1, <2>3, <2>11
  <2>13. CASE l # {}
    BY <1>2, <1>6, <1>10, <2>11, <2>12, <2>13
  <2>14. CASE l = {}
    <3>1. PICK m : m = [t EXCEPT !.idleness_timer = TRUE]
      OBVIOUS
    <3>2. m = StopListeningTo(s, d)
      BY <1>6, <1>10, <2>11, <2>12, <2>14, <3>1 DEF IsOpen, MarkIdle
    <3>3. t \in RemoteStore /\ Calm(t)
      BY <2>11 DEF Settled, Calm
    <3>4. m \in RemoteStore
      BY <3>1, <3>3 DEF RemoteStore
    <3>5. /\ SameTargets(t, m) /\ SameTracker(t, m) /\ m.view = t.view /\ m.state = t.state
          /\ m.close_count = t.close_count /\ m.tokens = t.tokens /\ m.up = t.up
          /\ m.down = t.down /\ m.failed = t.failed
      BY <3>1, <3>3 DEF RemoteStore, SameTargets, SameTracker
    <3>6. m.listen_targets = {} /\ m.state = "Open"
      BY <1>6, <2>11, <2>14, <3>5 DEF SameTargets
    <3>7. TokensCurrent(m) /\ Tracker(m)
      BY <3>3, <3>5 DEF Calm, TokensCurrent, Tracker, SameTracker, IsStarted
    <3>8. Calm(m)
      BY <3>3, <3>4, <3>5, <3>6, <3>7 DEF Calm, SameTargets
    <3>9. Settled(m, cache, v)
      BY <2>11, <3>5, <3>8, SameSettles
    <3> QED
      BY <1>2, <2>14, <3>2, <3>6, <3>9
  <2> QED
    BY <2>13, <2>14
<1> QED
  BY <1>11, <1>12

(***************************************************************************)
(* The stream opens, waits, or loses its timer                             *)
(***************************************************************************)
\* A finite set, put into a sequence, is there as a whole.
LEMMA SetToSeqLists ==
  ASSUME NEW S, IsFiniteSet(S)
  PROVE  \E q \in Seq(S) : q = SetToSeq(S) /\ \A x \in S : \E i \in 1..Len(q) : q[i] = x
<1>1. PICK n : n = Cardinality(S)
  OBVIOUS
<1>2. n \in Nat /\ ExistsBijection(1..n, S)
  BY <1>1, FS_CardinalityType
<1>3. PICK f \in [1..n -> S] : IsInjective(f)
  BY <1>2 DEF ExistsBijection, Bijection, Injection
<1>4. PICK q : q = SetToSeq(S)
  OBVIOUS
<1>5. q \in [1..n -> S] /\ IsInjective(q)
  BY <1>1, <1>3, <1>4 DEF SetToSeq
<1>6. q \in Seq(S) /\ Len(q) = n
  BY <1>2, <1>5
<1>7. q \in Injection(1..n, S)
  BY <1>5 DEF Injection
<1>8. Cardinality(1..n) = n
  BY <1>2, FS_Interval
<1>9. q \in Surjection(1..n, S)
  BY <1>1, <1>7, <1>8, FS_Injection
<1>10. \A x \in S : \E i \in 1..n : q[i] = x
  BY <1>9 DEF Surjection
<1> QED
  BY <1>4, <1>6, <1>10

\* OnWatchStreamOpen: every target is watched again.
LEMMA OpenSettles ==
  ASSUME NEW s, NEW v, cache \in [Docs -> Nat], Lively(s), s.is_network_enabled, Down(s),
         ~s.idleness_timer, ViewsFresh(s, cache, v)
  PROVE  \E t : /\ t = OnWatchStreamOpen(s) /\ Settled(t, cache, v) /\ t.view = s.view
                /\ t.listen_targets = s.listen_targets
<1>0. /\ s \in RemoteStore /\ IsFiniteSet(s.listen_targets) /\ s.listen_targets \subseteq Docs
      /\ s.up = <<>> /\ s.down = <<>> /\ s.aggregator = NewAggregator
  BY DEF Lively, Down, RemoteStore
<1>1. PICK ds \in Seq(s.listen_targets) :
            /\ ds = SetToSeq(s.listen_targets)
            /\ \A d \in s.listen_targets : \E i \in 1..Len(ds) : ds[i] = d
  BY <1>0, SetToSeqLists
<1>2. PICK m : m = Len(ds)
  OBVIOUS
<1>3. m \in Nat /\ \A i \in 1..m : ds[i] \in s.listen_targets /\ ds[i] \in Docs
  BY <1>0, <1>1, <1>2
<1>4. PICK rs : rs = [i \in 1..m |-> Request(ds[i], TRUE)]
  OBVIOUS
<1>5. \A i \in 1..m : /\ rs[i] \in Requests /\ rs[i].doc = ds[i] /\ rs[i].watch
                      /\ rs[i].known = cache[ds[i]]
  BY <1>3, <1>4, RequestIs
<1>6. rs \in [1..m -> Requests]
  BY <1>4, <1>5
<1>7. rs \in Seq(Requests) /\ Len(rs) = m
  BY <1>3, <1>6
<1>8. \A d \in s.listen_targets : Places(rs, About(d)) # {}
  <2> SUFFICES ASSUME NEW d \in s.listen_targets PROVE Places(rs, About(d)) # {}
    OBVIOUS
  <2>1. PICK i \in 1..m : ds[i] = d
    BY <1>1, <1>2
  <2>2. rs[i] \in About(d)
    BY <1>5, <2>1 DEF About
  <2> QED
    BY <1>7, <2>2 DEF Places
<1>9. \A d \in s.listen_targets : \A i \in Places(rs, About(d)) : rs[i].watch
  BY <1>5, <1>7 DEF Places
<1>10. \A i \in 1..Len(rs) : rs[i].known <= cache[rs[i].doc]
  <2> SUFFICES ASSUME NEW i \in 1..m PROVE rs[i].known <= cache[rs[i].doc]
    BY <1>7
  <2>1. cache[ds[i]] \in Nat
    BY <1>3
  <2> QED
    BY <1>5, <2>1
<1>11. Counted(s)
  <2> SUFFICES ASSUME NEW d \in Docs
               PROVE  s.aggregator.targets[d].outstanding
                        = Cardinality(Asked(s, d)) + Cardinality(Told(s, d))
    BY DEF Counted
  <2>1. Cardinality(Asked(s, d)) = 0 /\ Cardinality(Told(s, d)) = 0
    BY <1>0, PlacesOfNothing, FS_EmptySet DEF Asked, Told
  <2>2. s.aggregator.targets[d].outstanding = 0
    BY <1>0 DEF NewAggregator, NewTarget
  <2> QED
    BY <2>1, <2>2
<1>12. Known(s, cache)
  BY <1>0 DEF Known
<1>13. Sendable(s, rs, cache, v)
  BY <1>7, <1>8, <1>9, <1>10, <1>11, <1>12 DEF Sendable
<1>14. OnWatchStreamOpen(s) = Send(s, rs)
  BY <1>1, <1>2, <1>4 DEF OnWatchStreamOpen
<1> QED
  BY <1>13, <1>14, SendSettles

\* An answer to a request for credentials.
LEMMA CredentialsTaken ==
  ASSUME NEW s, Calm(s), NEW c \in s.tokens
  PROVE  \E t \in RemoteStore :
            /\ t = Credentials(s, c) /\ SameTargets(s, t) /\ SameTracker(s, t)
            /\ t.view = s.view /\ t.state = s.state /\ t.close_count = s.close_count
            /\ t.tokens = s.tokens \ {c} /\ t.idleness_timer = s.idleness_timer
            /\ t.up = s.up /\ t.down = s.down /\ t.failed = {}
            /\ UpToDate(s, c) => s.state = "Starting"
            /\ \A k \in t.tokens : k <= t.close_count
<1>0. s \in RemoteStore /\ TokensCurrent(s) /\ s.failed = {}
  BY DEF Calm
<1>1. PICK k : k = s.tokens \ {c}
  OBVIOUS
<1>2. PICK t : t = [s EXCEPT !.tokens = k]
  OBVIOUS
<1>3. t \in RemoteStore
  BY <1>0, <1>1, <1>2 DEF RemoteStore
<1>4. /\ SameTargets(s, t) /\ SameTracker(s, t) /\ t.view = s.view /\ t.state = s.state
      /\ t.close_count = s.close_count /\ t.tokens = k
      /\ t.idleness_timer = s.idleness_timer /\ t.up = s.up /\ t.down = s.down
      /\ t.failed = {}
  BY <1>0, <1>2 DEF RemoteStore, SameTargets, SameTracker
<1>5. UpToDate(s, c) => s.state = "Starting"
  BY <1>0 DEF UpToDate, TokensCurrent
<1>6. t = Credentials(s, c)
  BY <1>1, <1>2, <1>4, <1>5 DEF Credentials, HardAssert
<1>7. \A x \in t.tokens : x <= t.close_count
  BY <1>0, <1>1, <1>4 DEF TokensCurrent
<1> QED
  BY <1>1, <1>3, <1>4, <1>5, <1>6, <1>7

\* Credentials that are out of date change nothing else.
LEMMA StaleCredentialsSettle ==
  ASSUME NEW s, NEW v, NEW w, Settled(s, w, v), NEW c \in s.tokens, ~UpToDate(s, c)
  PROVE  \E t : t = Credentials(s, c) /\ Settled(t, w, v) /\ Quiet(s, t)
<1>0. Calm(s)
  BY DEF Settled
<1>1. PICK t \in RemoteStore :
            /\ t = Credentials(s, c) /\ SameTargets(s, t) /\ SameTracker(s, t)
            /\ t.view = s.view /\ t.state = s.state /\ t.close_count = s.close_count
            /\ t.tokens = s.tokens \ {c} /\ t.idleness_timer = s.idleness_timer
            /\ t.up = s.up /\ t.down = s.down /\ t.failed = {}
            /\ \A k \in t.tokens : k <= t.close_count
  BY <1>0, CredentialsTaken
<1>2. TokensCurrent(t) /\ Tracker(t)
  BY <1>0, <1>1 DEF Calm, TokensCurrent, Tracker, SameTracker, IsStarted, UpToDate
<1>3. Calm(t)
  BY <1>0, <1>1, <1>2 DEF Calm, Down, SameTargets
<1>4. Settled(t, w, v)
  BY <1>1, <1>3, SameSettles
<1> QED
  BY <1>1, <1>4 DEF Quiet, SameTargets

\* Credentials that are up to date: the stream opens.
LEMMA CredentialsSettle ==
  ASSUME NEW s, NEW v, cache \in [Docs -> Nat], Settled(s, cache, v),
         NEW c \in s.tokens, UpToDate(s, c)
  PROVE  \E t : /\ t = OnWatchStreamOpen(Opened(Credentials(s, c)))
                /\ Settled(t, cache, v) /\ t.view = s.view
                /\ t.listen_targets = s.listen_targets
<1>0. Calm(s) /\ s.is_network_enabled /\ ViewsFresh(s, cache, v)
  BY DEF Settled
<1>1. PICK g \in RemoteStore :
            /\ g = Credentials(s, c) /\ SameTargets(s, g) /\ SameTracker(s, g)
            /\ g.view = s.view /\ g.state = s.state /\ g.close_count = s.close_count
            /\ g.tokens = s.tokens \ {c} /\ g.idleness_timer = s.idleness_timer
            /\ g.up = s.up /\ g.down = s.down /\ g.failed = {}
            /\ s.state = "Starting"
            /\ \A k \in g.tokens : k <= g.close_count
  BY <1>0, CredentialsTaken
<1>2. PICK o : o = [g EXCEPT !.state = "Open"]
  OBVIOUS
<1>3. o \in RemoteStore
  BY <1>1, <1>2 DEF RemoteStore, States
<1>4. /\ SameTargets(g, o) /\ SameTracker(g, o) /\ o.view = g.view /\ o.state = "Open"
      /\ o.close_count = g.close_count /\ o.tokens = g.tokens
      /\ o.idleness_timer = g.idleness_timer /\ o.up = g.up /\ o.down = g.down
      /\ o.failed = g.failed
  BY <1>1, <1>2 DEF RemoteStore, SameTargets, SameTracker
<1>5. /\ o.is_network_enabled = s.is_network_enabled /\ o.listen_targets = s.listen_targets
      /\ o.aggregator = s.aggregator /\ o.watched = s.watched
  BY <1>1, <1>4 DEF SameTargets
<1>6. TokensCurrent(o)
  BY <1>1, <1>4 DEF TokensCurrent, UpToDate
<1>7. Tracker(o)
  BY <1>0, <1>1, <1>4 DEF Calm, Tracker, SameTracker, IsStarted
<1>8. Down(o) /\ ~o.idleness_timer
  BY <1>0, <1>1, <1>4, <1>5 DEF Calm, Down
<1>9. Lively(o)
  BY <1>0, <1>1, <1>3, <1>4, <1>5, <1>6, <1>7 DEF Lively, Calm
<1>10. ViewsFresh(o, cache, v) /\ o.is_network_enabled
  BY <1>0, <1>1, <1>4, <1>5 DEF ViewsFresh
<1>11. PICK t : /\ t = OnWatchStreamOpen(o) /\ Settled(t, cache, v) /\ t.view = o.view
                /\ t.listen_targets = o.listen_targets
  BY <1>8, <1>9, <1>10, OpenSettles
<1>12. o = Opened(Credentials(s, c))
  BY <1>1, <1>2 DEF Opened
<1> QED
  BY <1>1, <1>4, <1>5, <1>11, <1>12

\* No credentials: the stream fails.
LEMMA NoCredentialsSettle ==
  ASSUME NEW s, NEW v, NEW w, Settled(s, w, v), NEW c \in s.tokens, UpToDate(s, c)
  PROVE  \E t : t = Failed(Credentials(s, c)) /\ Settled(t, w, v) /\ Quiet(s, t)
<1>0. Calm(s) /\ s.is_network_enabled
  BY DEF Settled
<1>1. PICK g \in RemoteStore :
            /\ g = Credentials(s, c) /\ SameTargets(s, g) /\ SameTracker(s, g)
            /\ g.view = s.view /\ g.state = s.state /\ g.close_count = s.close_count
            /\ g.tokens = s.tokens \ {c} /\ g.idleness_timer = s.idleness_timer
            /\ g.up = s.up /\ g.down = s.down /\ g.failed = {}
            /\ s.state = "Starting"
            /\ \A k \in g.tokens : k <= g.close_count
  BY <1>0, CredentialsTaken
<1>2. PICK t : t = Failed(g) /\ Calm(t) /\ t.state # "Open" /\ Quiet(g, t)
  <2>1. IsStarted(g) /\ g.state \in {"Starting"}
    BY <1>1 DEF IsStarted
  <2>2. Closable(g)
    BY <1>0, <1>1 DEF Closable, Calm, Tracker, SameTracker, SameTargets
  <2> QED
    BY <2>1, <2>2, FailedCalms
<1>3. Quiet(s, t) /\ t.is_network_enabled
  BY <1>0, <1>1, <1>2 DEF Quiet, SameTargets
<1>4. Settled(t, w, v)
  BY <1>2, <1>3, QuietSettles DEF Quiet
<1> QED
  BY <1>1, <1>2, <1>3, <1>4

\* The stream fails while it is open.
LEMMA FailureSettles ==
  ASSUME NEW s, NEW v, NEW w, Settled(s, w, v), IsOpen(s)
  PROVE  \E t : t = Failed(s) /\ Settled(t, w, v) /\ Quiet(s, t)
<1>1. Calm(s) /\ s.is_network_enabled /\ IsStarted(s)
  BY DEF Settled, IsOpen, IsStarted
<1>2. PICK t : t = Failed(s) /\ Calm(t) /\ t.state # "Open" /\ Quiet(s, t)
  BY <1>1, CalmClosable, FailedCalms
<1>3. Settled(t, w, v)
  BY <1>1, <1>2, QuietSettles DEF Quiet
<1> QED
  BY <1>2, <1>3

\* The idle timer fires: nothing is listened to.
LEMMA IdleSettles ==
  ASSUME NEW s, NEW v, NEW w, Settled(s, w, v), s.idleness_timer
  PROVE  \E t : t = Stop(s) /\ Settled(t, w, v) /\ Quiet(s, t)
<1>1. Calm(s) /\ s.is_network_enabled /\ s.listen_targets = {}
  BY DEF Settled, Calm
<1>2. PICK t : t = Stop(s) /\ Calm(t) /\ ~IsStarted(t) /\ Quiet(s, t)
  BY <1>1, StopCalms
<1>3. t.state # "Open"
  BY <1>2 DEF IsStarted
<1>4. Settled(t, w, v)
  BY <1>1, <1>2, <1>3, QuietSettles DEF Quiet
<1> QED
  BY <1>2, <1>4

\* The network restarts.
LEMMA RestartSettles ==
  ASSUME NEW s, NEW v, NEW w, Settled(s, w, v)
  PROVE  \E t : t = RestartNetwork(s) /\ Settled(t, w, v) /\ Quiet(s, t)
<1>1. Calm(s) /\ s.is_network_enabled
  BY DEF Settled
<1>2. PICK t : /\ t = RestartNetwork(s) /\ Calm(t) /\ t.state # "Open"
               /\ t.is_network_enabled /\ t.listen_targets = s.listen_targets
               /\ t.view \subseteq s.view
  BY <1>1, RestartCalms
<1>3. Settled(t, w, v)
  BY <1>2, QuietSettles
<1>4. s.is_network_enabled = TRUE /\ t.is_network_enabled = TRUE
  <2>1. s \in RemoteStore /\ t \in RemoteStore
    BY <1>1, <1>2 DEF Calm
  <2> QED
    BY <1>1, <1>2, <2>1 DEF RemoteStore
<1> QED
  BY <1>2, <1>3, <1>4 DEF Quiet

\* The backoff is over.
LEMMA BackoffSettles ==
  ASSUME NEW s, NEW v, NEW w, Settled(s, w, v), s.state = "Backoff"
  PROVE  \E t : t = BackoffOver(s) /\ Settled(t, w, v) /\ Quiet(s, t)
<1>0. Calm(s) /\ s.is_network_enabled /\ s \in RemoteStore
  BY DEF Settled, Calm
<1>1. PICK n : n = [s EXCEPT !.state = "Initial"]
  OBVIOUS
<1>2. n \in RemoteStore
  BY <1>0, <1>1 DEF RemoteStore, States
<1>3. /\ SameTargets(s, n) /\ SameTracker(s, n) /\ n.view = s.view /\ n.state = "Initial"
      /\ n.close_count = s.close_count /\ n.tokens = s.tokens
      /\ n.idleness_timer = s.idleness_timer /\ n.up = s.up /\ n.down = s.down
      /\ n.failed = s.failed
  BY <1>0, <1>1 DEF RemoteStore, SameTargets, SameTracker
<1>4. TokensCurrent(n)
  BY <1>0, <1>3 DEF Calm, TokensCurrent
<1>5. PICK t \in RemoteStore :
            /\ t = Start(n) /\ SameTargets(n, t) /\ SameTracker(n, t) /\ t.view = n.view
            /\ t.state \in {"Starting", "Backoff"} /\ TokensCurrent(t)
            /\ t.idleness_timer = n.idleness_timer /\ t.up = n.up /\ t.down = n.down
            /\ t.failed = n.failed
  BY <1>2, <1>3, <1>4, StartBegins
<1>6. /\ t.is_network_enabled = s.is_network_enabled /\ t.listen_targets = s.listen_targets
      /\ t.aggregator = s.aggregator /\ t.watched = s.watched
  BY <1>3, <1>5 DEF SameTargets
<1>7. Tracker(t) /\ ~t.idleness_timer
  BY <1>0, <1>3, <1>5 DEF Calm, Tracker, SameTracker, IsStarted
<1>8. Down(t)
  BY <1>0, <1>3, <1>5, <1>6 DEF Calm, Down
<1>9. Calm(t) /\ t.state # "Open"
  BY <1>0, <1>3, <1>5, <1>6, <1>7, <1>8 DEF Calm
<1>10. Quiet(s, t)
  BY <1>3, <1>5, <1>6 DEF Quiet
<1>11. Settled(t, w, v)
  BY <1>0, <1>6, <1>9, <1>10, QuietSettles DEF Quiet
<1> QED
  BY <1>1, <1>5, <1>10, <1>11 DEF BackoffOver

\* The online state timer fires.
LEMMA TimeoutSettles ==
  ASSUME NEW s, NEW v, NEW w, Settled(s, w, v), s.timer
  PROVE  \E t : /\ t = SetOnline([HardAssert(s, s.online = "Unknown", "NotUnknown")
                                     EXCEPT !.timer = FALSE], "Offline")
                /\ Settled(t, w, v) /\ Quiet(s, t)
<1>0. Calm(s) /\ s \in RemoteStore /\ s.online = "Unknown"
  BY DEF Settled, Calm, Tracker
<1>1. PICK n : n = [s EXCEPT !.timer = FALSE]
  OBVIOUS
<1>2. n \in RemoteStore
  BY <1>0, <1>1 DEF RemoteStore
<1>3. SameTargets(s, n) /\ SameStream(s, n) /\ ~n.timer
  BY <1>0, <1>1 DEF RemoteStore, SameTargets, SameStream
<1>4. PICK t \in RemoteStore :
            /\ t = SetOnline(n, "Offline") /\ SameStream(n, t) /\ SameTargets(n, t)
            /\ t.online = "Offline" /\ t.timer = n.timer /\ t.view = {}
  BY <1>2, SetOnlineSets DEF OnlineStates
<1>5. SameStream(s, t) /\ SameTargets(s, t)
  BY <1>3, <1>4 DEF SameStream, SameTargets
<1>6. TokensCurrent(t) /\ Tracker(t)
  BY <1>0, <1>3, <1>4, <1>5 DEF Calm, TokensCurrent, Tracker, SameStream
<1>7. Calm(t)
  BY <1>0, <1>4, <1>5, <1>6 DEF Calm, Down, SameStream, SameTargets
<1>8. Settled(t, w, v)
  BY <1>4, <1>5, <1>7, SameSettles DEF SameStream
<1> QED
  BY <1>0, <1>1, <1>4, <1>5, <1>8 DEF HardAssert, Quiet, SameTargets

(***************************************************************************)
(* Messages                                                                *)
(***************************************************************************)
\* The kinds of messages.
LEMMA Kinds ==
  ASSUME NEW d, NEW m
  PROVE  /\ m \in AnswersFor(d) => m.kind \in {"added", "removed"} /\ m.doc = d
         /\ IsDocument(m, d) => m.kind = "document" /\ m.doc = d
         /\ m = Snapshot => m.kind = "snapshot"
  BY DEF AnswersFor, TargetChanges, IsDocument, DocumentChanges, Snapshot

\* What a message of a kind is.
LEMMA MessageIs ==
  ASSUME NEW m \in Messages
  PROVE  /\ m.kind \in {"added", "removed"} => m.doc \in Docs /\ m \in AnswersFor(m.doc)
         /\ m.kind = "current" => m.doc \in Docs
         /\ m.kind = "document" => m.doc \in Docs /\ m.version \in Nat /\ IsDocument(m, m.doc)
         /\ m.kind = "snapshot" => m = Snapshot
<1>1. CASE m \in TargetChanges
  BY <1>1 DEF TargetChanges, AnswersFor
<1>2. CASE m \in DocumentChanges
  BY <1>2 DEF DocumentChanges, IsDocument
<1>3. CASE m = Snapshot
  BY <1>3 DEF Snapshot
<1> QED
  BY <1>1, <1>2, <1>3 DEF Messages

\* What the server sends.
LEMMA SentIs ==
  ASSUME NEW d \in Docs, NEW x \in Nat, NEW k \in {"added", "removed"}
  PROVE  /\ Message(k, d) \in Messages /\ Message(k, d) \in AnswersFor(d)
         /\ Message(k, d).kind = k /\ Message(k, d).doc = d
         /\ Message("current", d) \in Messages /\ Message("current", d).kind = "current"
         /\ Document(d, x) \in Messages /\ IsDocument(Document(d, x), d)
         /\ Document(d, x).kind = "document" /\ Document(d, x).version = x
         /\ Snapshot \in Messages /\ Snapshot.kind = "snapshot"
  BY DEF Message, Document, Snapshot, Messages, TargetChanges, DocumentChanges, AnswersFor,
         IsDocument

\* Behind every answer, seen from the messages after the first.
LEMMA BehindTaken ==
  ASSUME NEW q \in Seq(Messages), q # <<>>, NEW d, NEW i \in Nat \ {0}
  PROVE  /\ Behind(Tail(q), d, i) <=> Behind(q, d, i + 1)
         /\ Behind(q, d, 1) <=> Behind(q, d, 2) /\ Head(q) \notin AnswersFor(d)
<1>1. PICK t, n : t = Tail(q) /\ n = Len(Tail(q))
  OBVIOUS
<1>2. n \in Nat /\ Len(q) = n + 1 /\ \A j \in 1..n : t[j] = q[j + 1]
  BY <1>1
<1>3. ASSUME Behind(t, d, i), NEW j \in (i + 1)..(n + 1) PROVE q[j] \notin AnswersFor(d)
  <2>1. PICK l : l = j - 1
    OBVIOUS
  <2>2. l \in i..n /\ l \in 1..n /\ j = l + 1
    BY <1>2, <2>1
  <2> QED
    BY <1>1, <1>2, <1>3, <2>2 DEF Behind
<1>4. ASSUME Behind(q, d, i + 1), NEW j \in i..n PROVE t[j] \notin AnswersFor(d)
  <2>1. j + 1 \in (i + 1)..Len(q) /\ j \in 1..n
    BY <1>2
  <2> QED
    BY <1>2, <1>4, <2>1 DEF Behind
<1>5. Behind(t, d, i) <=> Behind(q, d, i + 1)
  BY <1>1, <1>2, <1>3, <1>4 DEF Behind
<1>6. Head(q) = q[1] /\ \A j : j \in 1..Len(q) <=> j = 1 \/ j \in 2..Len(q)
  BY <1>2
<1>7. Behind(q, d, 1) <=> Behind(q, d, 2) /\ Head(q) \notin AnswersFor(d)
  BY <1>6 DEF Behind
<1> QED
  BY <1>1, <1>5, <1>7

\* What was there of d is there when the first message was taken.
LEMMA SuppliedTaken ==
  ASSUME NEW q \in Seq(Messages), q # <<>>, NEW d, NEW i \in 2..(Len(q) + 1),
         NEW x \in Nat, NEW y \in Nat, NEW c \in Nat, NEW b \in Nat, NEW v \in Nat,
         Supplied(q, d, i, x, c, v), b >= c,
         Behind(q, d, 1) => \/ Head(q) = Snapshot /\ (c >= v \/ b >= v)
                            \/ IsDocument(Head(q), d) /\ y >= v
                            \/ ~IsDocument(Head(q), d) /\ y = x
  PROVE  Supplied(Tail(q), d, i - 1, y, b, v)
<1>1. PICK t, n : t = Tail(q) /\ n = Len(Tail(q))
  OBVIOUS
<1>2. n \in Nat /\ Len(q) = n + 1 /\ Head(q) = q[1] /\ \A j \in 1..n : t[j] = q[j + 1]
  BY <1>1
<1>3. CASE c >= v
  BY <1>3 DEF Supplied
<1>4. Behind(q, d, 1) => Behind(t, d, 1)
  BY <1>1, BehindTaken
<1>5. CASE ~(c >= v) /\ Behind(q, d, 1) /\ x >= v
  BY <1>1, <1>4, <1>5 DEF Supplied
<1>6. ASSUME NEW j \in 1..(i - 1), Behind(q, d, j), IsDocument(q[j], d)
      PROVE  Supplied(Tail(q), d, i - 1, y, b, v)
  <2>1. CASE j = 1
    <3>1. Behind(q, d, 1) /\ IsDocument(Head(q), d) /\ Head(q) # Snapshot
      BY <1>2, <1>6, <2>1, Kinds
    <3> QED
      BY <1>1, <1>4, <3>1 DEF Supplied
  <2>2. CASE j # 1
    <3>1. PICK l : l = j - 1
      OBVIOUS
    <3>2. l \in 1..((i - 1) - 1) /\ l \in Nat \ {0} /\ j = l + 1 /\ l \in 1..n
      BY <1>2, <2>2, <3>1
    <3>3. Behind(t, d, l)
      BY <1>1, <1>6, <3>2, BehindTaken
    <3>4. IsDocument(t[l], d)
      BY <1>2, <1>6, <3>2
    <3> QED
      BY <1>1, <3>2, <3>3, <3>4 DEF Supplied
  <2> QED
    BY <2>1, <2>2
<1> QED
  BY <1>3, <1>5, <1>6 DEF Supplied

\* The first message is taken and worked on: x becomes y, in the cache c becomes b.
Handled(q, d, x, y, c, b) ==
    /\ b >= c
    /\ Behind(q, d, 1) =>
          /\ IsDocument(Head(q), d) => y = Head(q).version
          /\ Head(q) = Snapshot => b >= x
          /\ ~IsDocument(Head(q), d) /\ Head(q) # Snapshot => y = x

LEMMA CurrentTaken ==
  ASSUME NEW q \in Seq(Messages), q # <<>>, NEW d,
         NEW x \in Nat, NEW y \in Nat, NEW c \in Nat, NEW b \in Nat, NEW v \in Nat,
         Current(q, d, x, c, v), Handled(q, d, x, y, c, b)
  PROVE  Current(Tail(q), d, y, b, v)
<1>1. PICK t, n : t = Tail(q) /\ n = Len(Tail(q))
  OBVIOUS
<1>2. /\ n \in Nat /\ Len(q) = n + 1 /\ Head(q) = q[1] /\ t \in Seq(Messages)
      /\ \A j \in 1..n : t[j] = q[j + 1]
  BY <1>1
<1>3. /\ \A i \in 1..(n + 1) : Behind(q, d, i) /\ IsDocument(q[i], d) => q[i].version >= v
      /\ \A i \in 1..(n + 1) : Behind(q, d, i) /\ q[i] = Snapshot => Supplied(q, d, i, x, c, v)
      /\ Supplied(q, d, (n + 1) + 1, x, c, v)
  BY <1>2 DEF Current
<1>4. b >= c
  BY DEF Handled
<1>5. Behind(q, d, 1) => \/ Head(q) = Snapshot /\ (c >= v \/ b >= v)
                         \/ IsDocument(Head(q), d) /\ y >= v
                         \/ ~IsDocument(Head(q), d) /\ y = x
  <2> SUFFICES ASSUME Behind(q, d, 1)
               PROVE  \/ Head(q) = Snapshot /\ (c >= v \/ b >= v)
                      \/ IsDocument(Head(q), d) /\ y >= v
                      \/ ~IsDocument(Head(q), d) /\ y = x
    OBVIOUS
  <2>0. 1 \in 1..(n + 1)
    BY <1>2
  <2>1. CASE IsDocument(Head(q), d)
    BY <1>2, <1>3, <2>0, <2>1 DEF Handled
  <2>2. CASE Head(q) = Snapshot
    <3>1. Supplied(q, d, 1, x, c, v)
      BY <1>2, <1>3, <2>0, <2>2
    <3>2. c >= v \/ x >= v
      BY <3>1 DEF Supplied
    <3>3. b >= x
      BY <2>2 DEF Handled
    <3> QED
      BY <2>2, <3>2, <3>3
  <2>3. CASE ~IsDocument(Head(q), d) /\ Head(q) # Snapshot
    BY <2>3 DEF Handled
  <2> QED
    BY <2>1, <2>2, <2>3
<1>6. \A i \in 2..(n + 2) : Supplied(q, d, i, x, c, v) => Supplied(t, d, i - 1, y, b, v)
  <2> SUFFICES ASSUME NEW i \in 2..(n + 2), Supplied(q, d, i, x, c, v)
               PROVE  Supplied(t, d, i - 1, y, b, v)
    OBVIOUS
  <2>1. i \in 2..(Len(q) + 1)
    BY <1>2
  <2> QED
    BY <1>1, <1>4, <1>5, <2>1, SuppliedTaken
<1>7. ASSUME NEW i \in 1..n, Behind(t, d, i), IsDocument(t[i], d) PROVE t[i].version >= v
  <2>1. i + 1 \in 1..(n + 1) /\ i \in Nat \ {0}
    BY <1>2
  <2>2. Behind(q, d, i + 1)
    BY <1>1, <1>7, <2>1, BehindTaken
  <2> QED
    BY <1>2, <1>3, <1>7, <2>1, <2>2
<1>8. ASSUME NEW i \in 1..n, Behind(t, d, i), t[i] = Snapshot PROVE Supplied(t, d, i, y, b, v)
  <2>1. i + 1 \in 1..(n + 1) /\ i + 1 \in 2..(n + 2) /\ i \in Nat \ {0} /\ (i + 1) - 1 = i
    BY <1>2
  <2>2. Behind(q, d, i + 1)
    BY <1>1, <1>8, <2>1, BehindTaken
  <2>3. Supplied(q, d, i + 1, x, c, v)
    BY <1>2, <1>3, <1>8, <2>1, <2>2
  <2>4. Supplied(t, d, (i + 1) - 1, y, b, v)
    BY <1>6, <2>1, <2>3
  <2> QED
    BY <2>1, <2>4
<1>9. Supplied(t, d, n + 1, y, b, v)
  <2>1. n + 2 \in 2..(n + 2) /\ (n + 1) + 1 = n + 2 /\ (n + 2) - 1 = n + 1
    BY <1>2
  <2>2. Supplied(t, d, (n + 2) - 1, y, b, v)
    BY <1>3, <1>6, <2>1
  <2> QED
    BY <2>1, <2>2
<1> QED
  BY <1>1, <1>7, <1>8, <1>9 DEF Current

(***************************************************************************)
(* OnWatchStreamChange                                                     *)
(***************************************************************************)
\* The message is off the wire, and the client online.
Received(s, u) ==
    /\ u \in RemoteStore /\ Calm(u) /\ SameTargets(s, u) /\ s.state = "Open"
    /\ u.state = "Open" /\ u.up = s.up /\ u.down = Tail(s.down) /\ u.view = s.view

LEMMA Receives ==
  ASSUME NEW s, Calm(s), s.down # <<>>
  PROVE  \E u : u = UpdateState(Read(s), "Online") /\ Received(s, u)
<1>0. /\ s \in RemoteStore /\ s.state = "Open" /\ s.down \in Seq(Messages)
  BY DEF Calm, Down, RemoteStore
<1>1. PICK q : q = Tail(s.down)
  OBVIOUS
<1>2. q \in Seq(Messages)
  BY <1>0, <1>1
<1>3. PICK r : r = [s EXCEPT !.down = q]
  OBVIOUS
<1>4. r \in RemoteStore
  BY <1>0, <1>2, <1>3 DEF RemoteStore
<1>5. /\ SameTargets(s, r) /\ SameTracker(s, r) /\ r.view = s.view /\ r.state = s.state
      /\ r.close_count = s.close_count /\ r.tokens = s.tokens
      /\ r.idleness_timer = s.idleness_timer /\ r.up = s.up /\ r.down = q
      /\ r.failed = s.failed
  BY <1>0, <1>3 DEF RemoteStore, SameTargets, SameTracker
<1>6. TokensCurrent(r) /\ Tracker(r)
  BY <1>5 DEF Calm, TokensCurrent, Tracker, SameTracker, IsStarted
<1>7. Calm(r)
  BY <1>0, <1>4, <1>5, <1>6 DEF Calm, SameTargets
<1>8. PICK u : /\ u = UpdateState(r, "Online") /\ Calm(u) /\ SameStream(r, u)
               /\ SameTargets(r, u) /\ u.view = r.view
  BY <1>7, UpdateCalms
<1>9. SameTargets(s, u)
  BY <1>5, <1>8 DEF SameTargets
<1>10. u.state = "Open" /\ u.up = s.up /\ u.down = Tail(s.down) /\ u.view = s.view
  BY <1>0, <1>1, <1>5, <1>8 DEF SameStream
<1>11. r = Read(s)
  BY <1>1, <1>3 DEF Read
<1> QED
  BY <1>0, <1>8, <1>9, <1>10, <1>11 DEF Received, Calm

\* A target is active when every answer about it came: so the next message counts.
LEMMA ActiveIs ==
  ASSUME NEW s, Calm(s), Counted(s), NEW d \in Docs
  PROVE  s.aggregator.targets[d].outstanding = 0
            <=> Asked(s, d) = {} /\ Behind(s.down, d, 1)
<1>1. s.up \in Seq(Requests) /\ s.down \in Seq(Messages)
  BY DEF Calm, RemoteStore
<1>2. PICK a, b : a = Cardinality(Asked(s, d)) /\ b = Cardinality(Told(s, d))
  OBVIOUS
<1>3. /\ a \in Nat /\ b \in Nat /\ IsFiniteSet(Asked(s, d)) /\ IsFiniteSet(Told(s, d))
  BY <1>1, <1>2, PlacesFinite DEF Asked, Told
<1>4. a = 0 <=> Asked(s, d) = {}
  BY <1>2, <1>3, FS_EmptySet
<1>5. b = 0 <=> Told(s, d) = {}
  BY <1>2, <1>3, FS_EmptySet
<1>6. Told(s, d) = {} <=> Behind(s.down, d, 1)
  BY DEF Told, Places, Behind
<1>7. s.aggregator.targets[d].outstanding = a + b
  BY <1>2 DEF Counted
<1>8. a + b = 0 <=> a = 0 /\ b = 0
  BY <1>3
<1> QED
  BY <1>4, <1>5, <1>6, <1>7, <1>8

\* What a message may do to the store u that received it: the target it is about
\* changes, the views, and the cache, which becomes b.
Worked(s, u, t, c, b) ==
    /\ t \in RemoteStore /\ SameStream(u, t) /\ SameTracker(u, t)
    /\ t.is_network_enabled = u.is_network_enabled
    /\ t.listen_targets = u.listen_targets /\ t.watched = u.watched
    /\ t.view \subseteq t.listen_targets
    /\ b \in [Docs -> Nat] /\ \A d \in Docs : b[d] >= c[d]
    /\ \A d \in Docs : t.aggregator.targets[d].outstanding
          = s.aggregator.targets[d].outstanding
              - (IF Head(s.down) \in AnswersFor(d) THEN 1 ELSE 0)
    /\ \A d \in s.listen_targets : Asked(s, d) = {} =>
          Handled(s.down, d, s.aggregator.updates[d], t.aggregator.updates[d], c[d], b[d])

LEMMA WorkedSettles ==
  ASSUME NEW s, NEW u, NEW t, NEW c \in [Docs -> Nat], NEW b, NEW v \in [Docs -> Nat],
         Settled(s, c, v), s.down # <<>>, Received(s, u), Worked(s, u, t, c, b),
         ViewsFresh(t, b, v)
  PROVE  Settled(t, b, v)
<1>0. /\ s.is_network_enabled /\ Calm(s) /\ Counted(s) /\ AllWanted(s)
      /\ AllCurrent(s, c, v) /\ Known(s, c)
  BY DEF Settled
<1>1. /\ u \in RemoteStore /\ Calm(u) /\ SameTargets(s, u) /\ s.state = "Open"
      /\ u.state = "Open" /\ u.up = s.up /\ u.down = Tail(s.down) /\ u.view = s.view
  BY DEF Received
<1>2. /\ t \in RemoteStore /\ SameStream(u, t) /\ SameTracker(u, t)
      /\ t.is_network_enabled = u.is_network_enabled
      /\ t.listen_targets = u.listen_targets /\ t.watched = u.watched
      /\ t.view \subseteq t.listen_targets
      /\ b \in [Docs -> Nat] /\ \A d \in Docs : b[d] >= c[d]
  BY DEF Worked
<1>3. /\ t.up = s.up /\ t.down = Tail(s.down) /\ t.state = "Open" /\ t.failed = u.failed
      /\ t.close_count = u.close_count /\ t.tokens = u.tokens
      /\ t.idleness_timer = u.idleness_timer
  BY <1>1, <1>2 DEF SameStream
<1>4. t.listen_targets = s.listen_targets /\ t.watched = s.watched /\ t.is_network_enabled
  BY <1>0, <1>1, <1>2 DEF SameTargets
<1>5. Calm(t)
  <2>1. TokensCurrent(t) /\ Tracker(t)
    BY <1>1, <1>2, <1>3 DEF Calm, TokensCurrent, Tracker, SameTracker, IsStarted
  <2> QED
    BY <1>1, <1>2, <1>3, <2>1 DEF Calm
<1>6. s.down \in Seq(Messages) /\ s.up \in Seq(Requests) /\ s \in RemoteStore
  BY <1>0 DEF Calm, RemoteStore
<1>7. \A d : Asked(t, d) = Asked(s, d)
  BY <1>3 DEF Asked
<1>8. Counted(t)
  <2> SUFFICES ASSUME NEW d \in Docs
               PROVE  t.aggregator.targets[d].outstanding
                        = Cardinality(Asked(t, d)) + Cardinality(Told(t, d))
    BY DEF Counted
  <2>1. PICK n, x, y, z : /\ n = s.aggregator.targets[d].outstanding
                          /\ x = Cardinality(Asked(s, d)) /\ y = Cardinality(Told(s, d))
                          /\ z = IF Head(s.down) \in AnswersFor(d) THEN 1 ELSE 0
    OBVIOUS
  <2>2. n = x + y /\ x \in Nat /\ y \in Nat
    BY <1>0, <1>6, <2>1, PlacesFinite DEF Counted, Asked, Told
  <2>3. Cardinality(Told(t, d)) = y - z
    BY <1>3, <1>6, <2>1, PlacesTaken DEF Told
  <2>4. t.aggregator.targets[d].outstanding = n - z
    BY <2>1 DEF Worked
  <2>5. z \in {0, 1} /\ Cardinality(Asked(t, d)) = x
    BY <1>7, <2>1
  <2> QED
    BY <2>2, <2>3, <2>4, <2>5
<1>9. AllWanted(t)
  BY <1>0, <1>1, <1>3, <1>4, <1>7 DEF AllWanted, Wanted, IsOpen
<1>10. AllCurrent(t, b, v)
  <2> SUFFICES ASSUME NEW d \in t.listen_targets, Asked(t, d) = {}
               PROVE  Current(t.down, d, t.aggregator.updates[d], b[d], v[d])
    BY DEF AllCurrent
  <2>1. d \in s.listen_targets /\ d \in Docs /\ Asked(s, d) = {} /\ IsOpen(s)
    BY <1>1, <1>4, <1>6, <1>7 DEF RemoteStore, IsOpen
  <2>2. PICK x, y : x = s.aggregator.updates[d] /\ y = t.aggregator.updates[d]
    OBVIOUS
  <2>3. x \in Nat /\ y \in Nat
    <3>1. s.aggregator \in Aggregators /\ t.aggregator \in Aggregators
      BY <1>2, <1>6 DEF RemoteStore
    <3>2. s.aggregator.updates \in [Docs -> Nat] /\ t.aggregator.updates \in [Docs -> Nat]
      BY <3>1 DEF Aggregators
    <3> QED
      BY <2>1, <2>2, <3>2
  <2>4. c[d] \in Nat /\ b[d] \in Nat /\ v[d] \in Nat
    BY <1>2, <2>1
  <2>5. Current(s.down, d, x, c[d], v[d])
    BY <1>0, <2>1, <2>2 DEF AllCurrent
  <2>6. Handled(s.down, d, x, y, c[d], b[d])
    BY <2>1, <2>2 DEF Worked
  <2>7. Current(Tail(s.down), d, y, b[d], v[d])
    BY <1>6, <2>3, <2>4, <2>5, <2>6, CurrentTaken
  <2> QED
    BY <1>3, <2>2, <2>7
<1>11. Known(t, b)
  <2> SUFFICES ASSUME NEW i \in 1..Len(t.up) PROVE t.up[i].known <= b[t.up[i].doc]
    BY DEF Known
  <2>1. PICK r : r = s.up[i]
    OBVIOUS
  <2>2. r \in Requests /\ t.up[i] = r /\ r.known <= c[r.doc]
    BY <1>0, <1>3, <1>6, <2>1 DEF Known
  <2>3. r.doc \in Docs /\ r.known \in Nat
    BY <2>2 DEF Requests
  <2>4. c[r.doc] \in Nat /\ b[r.doc] \in Nat /\ b[r.doc] >= c[r.doc]
    BY <1>2, <2>3
  <2> QED
    BY <2>2, <2>3, <2>4
<1> QED
  BY <1>4, <1>5, <1>8, <1>9, <1>10, <1>11 DEF Settled

\* One target of the aggregator changes, and what it collected.
TargetWritten(u, d, a, x, t) ==
    t = [u EXCEPT !.aggregator.targets[d] = a, !.aggregator.updates = x]

TargetKept(u, d, a, x, t) ==
    /\ t \in RemoteStore /\ SameStream(u, t) /\ SameTracker(u, t) /\ t.view = u.view
    /\ t.is_network_enabled = u.is_network_enabled
    /\ t.listen_targets = u.listen_targets /\ t.watched = u.watched
    /\ t.aggregator.updates = x
    /\ t.aggregator.targets[d] = a
    /\ \A e \in Docs : e # d => t.aggregator.targets[e] = u.aggregator.targets[e]

LEMMA TargetSet ==
  ASSUME NEW u \in RemoteStore, NEW d \in Docs, NEW a \in Targets, NEW x \in [Docs -> Nat]
  PROVE  \E t : TargetWritten(u, d, a, x, t) /\ TargetKept(u, d, a, x, t)
<1>1. u.aggregator \in Aggregators
  BY DEF RemoteStore
<1>2. u.aggregator.targets \in [Docs -> Targets] /\ u.aggregator.updates \in [Docs -> Nat]
  BY <1>1 DEF Aggregators
<1>3. PICK f : f = [u.aggregator.targets EXCEPT ![d] = a]
  OBVIOUS
<1>4. /\ f \in [Docs -> Targets] /\ f[d] = a
      /\ \A e \in Docs : e # d => f[e] = u.aggregator.targets[e]
  BY <1>2, <1>3
<1>5. PICK g : g = [u.aggregator EXCEPT !.targets = f, !.updates = x]
  OBVIOUS
<1>6. g \in Aggregators /\ g.targets = f /\ g.updates = x
  BY <1>1, <1>4, <1>5 DEF Aggregators
<1>7. PICK t : t = [u EXCEPT !.aggregator = g]
  OBVIOUS
<1>8. t \in RemoteStore
  BY <1>6, <1>7 DEF RemoteStore
<1>9. /\ SameStream(u, t) /\ SameTracker(u, t) /\ t.view = u.view /\ t.aggregator = g
      /\ t.is_network_enabled = u.is_network_enabled
      /\ t.listen_targets = u.listen_targets /\ t.watched = u.watched
  BY <1>7 DEF RemoteStore, SameStream, SameTracker
<1>10. TargetWritten(u, d, a, x, t)
  BY <1>1, <1>3, <1>5, <1>7 DEF RemoteStore, Aggregators, TargetWritten
<1>11. TargetKept(u, d, a, x, t)
  BY <1>4, <1>6, <1>8, <1>9 DEF TargetKept
<1> QED
  BY <1>10, <1>11

\* What collects nothing keeps the updates.
LEMMA SameUpdates ==
  ASSUME NEW u \in RemoteStore, NEW d \in Docs, NEW a \in Targets
  PROVE  [u EXCEPT !.aggregator.targets[d] = a, !.aggregator.updates = u.aggregator.updates]
           = [u EXCEPT !.aggregator.targets[d] = a]
<1>1. u.aggregator \in Aggregators
  BY DEF RemoteStore
<1>2. PICK f : f = [u.aggregator.targets EXCEPT ![d] = a]
  OBVIOUS
<1>3. [u.aggregator EXCEPT !.targets = f, !.updates = u.aggregator.updates]
        = [u.aggregator EXCEPT !.targets = f]
  BY <1>1 DEF Aggregators
<1> QED
  BY <1>1, <1>2, <1>3 DEF RemoteStore, Aggregators

\* The target of a document.
LEMMA TargetIs ==
  ASSUME NEW u \in RemoteStore, NEW d \in Docs
  PROVE  /\ u.aggregator.targets[d] \in Targets /\ u.aggregator.updates \in [Docs -> Nat]
         /\ u.aggregator.targets[d].outstanding \in Int
<1>1. u.aggregator \in Aggregators
  BY DEF RemoteStore
<1>2. u.aggregator.targets \in [Docs -> Targets] /\ u.aggregator.updates \in [Docs -> Nat]
  BY <1>1 DEF Aggregators
<1>3. u.aggregator.targets[d] \in Targets
  BY <1>2
<1> QED
  BY <1>2, <1>3 DEF Targets

\* Every target that is active when a message comes has no answer due.
LEMMA ReceivedActive ==
  ASSUME NEW s, NEW u, NEW c, NEW v, Settled(s, c, v), Received(s, u), NEW d \in Docs
  PROVE  IsActiveTarget(u, d)
           <=> d \in s.listen_targets /\ Asked(s, d) = {} /\ Behind(s.down, d, 1)
<1>1. u.listen_targets = s.listen_targets /\ u.aggregator = s.aggregator
  BY DEF Received, SameTargets
<1>2. Calm(s) /\ Counted(s)
  BY DEF Settled
<1>3. s.aggregator.targets[d].outstanding = 0 <=> Asked(s, d) = {} /\ Behind(s.down, d, 1)
  BY <1>2, ActiveIs
<1> QED
  BY <1>1, <1>3 DEF IsActiveTarget

\* HandleTargetChange for Added and Removed.
LEMMA AnsweredSettles ==
  ASSUME NEW s, NEW u, NEW c \in [Docs -> Nat], NEW v \in [Docs -> Nat],
         Settled(s, c, v), s.down # <<>>, Received(s, u),
         Head(s.down).kind \in {"added", "removed"}
  PROVE  \E t : /\ t = Answered(u, Head(s.down)) /\ Settled(t, c, v) /\ t.view = s.view
                /\ t.listen_targets = s.listen_targets
<1>0. /\ Calm(s) /\ ViewsFresh(s, c, v) /\ u \in RemoteStore /\ SameTargets(s, u)
      /\ u.view = s.view
  BY DEF Settled, Received
<1>1. PICK m : m = Head(s.down)
  OBVIOUS
<1>2. m \in Messages
  BY <1>0, <1>1 DEF Calm, RemoteStore
<1>3. PICK d : d = m.doc
  OBVIOUS
<1>4. d \in Docs /\ m \in AnswersFor(d) /\ \A e : m \in AnswersFor(e) => e = d
  BY <1>1, <1>2, <1>3, MessageIs, Kinds
<1>5. PICK o : o = u.aggregator.targets[d]
  OBVIOUS
<1>6. o \in Targets /\ o.outstanding \in Int /\ u.aggregator.updates \in [Docs -> Nat]
  BY <1>0, <1>4, <1>5, TargetIs
<1>7. PICK p : p = [o EXCEPT !.outstanding = @ - 1]
  OBVIOUS
<1>8. p \in Targets /\ p.outstanding = o.outstanding - 1
  <2>1. PICK k : k = o.outstanding - 1
    OBVIOUS
  <2>2. k \in Int
    BY <1>6, <2>1
  <2>3. p = [o EXCEPT !.outstanding = k]
    BY <1>7, <2>1
  <2>4. p \in Targets /\ p.outstanding = k
    BY <1>6, <2>2, <2>3 DEF Targets
  <2> QED
    BY <2>1, <2>4
<1>9. PICK a : a = IF p.outstanding # 0 THEN p
                   ELSE IF m.kind = "added" THEN [p EXCEPT !.changed = FALSE] ELSE NewTarget
  OBVIOUS
<1>10. a \in Targets /\ a.outstanding = o.outstanding - 1
  <2>1. CASE p.outstanding # 0
    BY <1>8, <1>9, <2>1
  <2>2. CASE p.outstanding = 0 /\ m.kind = "added"
    BY <1>8, <1>9, <2>2 DEF Targets
  <2>3. CASE p.outstanding = 0 /\ m.kind # "added"
    BY <1>8, <1>9, <2>3 DEF Targets, NewTarget
  <2> QED
    BY <2>1, <2>2, <2>3
<1>11. PICK x : x = u.aggregator.updates
  OBVIOUS
<1>11b. PICK t : TargetWritten(u, d, a, x, t) /\ TargetKept(u, d, a, x, t)
  BY <1>0, <1>4, <1>6, <1>10, <1>11, TargetSet
<1>12. /\ t \in RemoteStore /\ SameStream(u, t) /\ SameTracker(u, t) /\ t.view = u.view
       /\ t.is_network_enabled = u.is_network_enabled
       /\ t.listen_targets = u.listen_targets /\ t.watched = u.watched
       /\ t.aggregator.updates = x
       /\ t.aggregator.targets[d] = a
       /\ \A e \in Docs : e # d => t.aggregator.targets[e] = u.aggregator.targets[e]
  BY <1>11b DEF TargetKept
<1>13. t = [u EXCEPT !.aggregator.targets[d] = a]
  BY <1>0, <1>4, <1>10, <1>11, <1>11b, SameUpdates DEF TargetWritten
<1>14. t = Answered(u, m)
  BY <1>3, <1>5, <1>7, <1>9, <1>13 DEF Answered
<1>15. u.aggregator = s.aggregator /\ u.listen_targets = s.listen_targets
  BY <1>0 DEF SameTargets
<1>16. \A e \in Docs : t.aggregator.targets[e].outstanding
          = s.aggregator.targets[e].outstanding - (IF m \in AnswersFor(e) THEN 1 ELSE 0)
  <2> SUFFICES ASSUME NEW e \in Docs
               PROVE  t.aggregator.targets[e].outstanding
                        = s.aggregator.targets[e].outstanding - (IF m \in AnswersFor(e) THEN 1 ELSE 0)
    OBVIOUS
  <2>1. CASE e = d
    BY <1>4, <1>5, <1>10, <1>12, <1>15, <2>1
  <2>2. CASE e # d
    <3>1. m \notin AnswersFor(e) /\ t.aggregator.targets[e] = s.aggregator.targets[e]
      BY <1>4, <1>12, <1>15, <2>2
    <3>2. s.aggregator.targets[e].outstanding \in Int
      BY <1>0, <1>15, TargetIs
    <3> QED
      BY <3>1, <3>2
  <2> QED
    BY <2>1, <2>2
<1>17. \A e \in s.listen_targets :
          Handled(s.down, e, s.aggregator.updates[e], t.aggregator.updates[e], c[e], c[e])
  <2> SUFFICES ASSUME NEW e \in s.listen_targets
               PROVE  Handled(s.down, e, s.aggregator.updates[e], t.aggregator.updates[e],
                              c[e], c[e])
    OBVIOUS
  <2>1. e \in Docs
    BY <1>0 DEF Calm, RemoteStore
  <2>2. c[e] \in Nat
    BY <2>1
  <2>3. ~IsDocument(m, e) /\ m # Snapshot
    BY <1>1, Kinds
  <2> QED
    BY <1>1, <1>11, <1>12, <1>15, <2>2, <2>3 DEF Handled
<1>18. t.view \subseteq t.listen_targets
  BY <1>0, <1>12, <1>15 DEF Calm
<1>19. \A e \in Docs : c[e] >= c[e]
  <2>1. \A e \in Docs : c[e] \in Nat
    OBVIOUS
  <2> QED
    BY <2>1
<1>20. Worked(s, u, t, c, c)
  BY <1>1, <1>12, <1>16, <1>17, <1>18, <1>19 DEF Worked
<1>21. ViewsFresh(t, c, v)
  BY <1>0, <1>12 DEF ViewsFresh
<1>22. Settled(t, c, v)
  BY <1>20, <1>21, WorkedSettles
<1> QED
  BY <1>0, <1>1, <1>12, <1>14, <1>15, <1>22

\* HandleDocumentChange, and HandleTargetChange for Current.
LEMMA ChangedSettles ==
  ASSUME NEW s, NEW u, NEW c \in [Docs -> Nat], NEW v \in [Docs -> Nat],
         Settled(s, c, v), s.down # <<>>, Received(s, u),
         Head(s.down).kind \in {"document", "current"}
  PROVE  \E t : /\ t = Changed(u, Head(s.down)) /\ Settled(t, c, v) /\ t.view = s.view
                /\ t.listen_targets = s.listen_targets
<1>0. /\ Calm(s) /\ ViewsFresh(s, c, v) /\ u \in RemoteStore /\ SameTargets(s, u)
      /\ u.view = s.view
  BY DEF Settled, Received
<1>1. PICK m : m = Head(s.down)
  OBVIOUS
<1>2. m \in Messages
  BY <1>0, <1>1 DEF Calm, RemoteStore
<1>3. PICK d : d = m.doc
  OBVIOUS
<1>4. /\ d \in Docs /\ m # Snapshot /\ \A e : m \notin AnswersFor(e)
      /\ \A e : IsDocument(m, e) => e = d
      /\ m.kind = "document" => m.version \in Nat /\ IsDocument(m, d)
      /\ m.kind # "document" => \A e : ~IsDocument(m, e)
  BY <1>1, <1>2, <1>3, MessageIs, Kinds
<1>5. u.aggregator = s.aggregator /\ u.listen_targets = s.listen_targets
  BY <1>0 DEF SameTargets
<1>6. PICK o, x : o = u.aggregator.targets[d] /\ x = u.aggregator.updates
  OBVIOUS
<1>7. o \in Targets /\ x \in [Docs -> Nat]
  BY <1>0, <1>4, <1>6, TargetIs
<1>8. \A e \in Docs : s.aggregator.targets[e].outstanding \in Int
  BY <1>0, <1>5, TargetIs
<1>9. \A e \in Docs : c[e] \in Nat /\ c[e] >= c[e]
  <2>1. \A e \in Docs : c[e] \in Nat
    OBVIOUS
  <2> QED
    BY <2>1
<1>10. s.listen_targets \subseteq Docs /\ s.view \subseteq s.listen_targets
  BY <1>0 DEF Calm, RemoteStore
<1>11. ASSUME NEW a \in Targets, a.outstanding = o.outstanding, NEW y \in [Docs -> Nat],
              \A e \in Docs : e # d => y[e] = x[e],
              m.kind = "document" => y[d] = m.version,
              m.kind # "document" => y[d] = x[d]
       PROVE  \E t : /\ TargetWritten(u, d, a, y, t)
                     /\ Settled(t, c, v) /\ t.view = s.view
                     /\ t.listen_targets = s.listen_targets
  <2>0. PICK t : TargetWritten(u, d, a, y, t) /\ TargetKept(u, d, a, y, t)
    BY <1>0, <1>4, TargetSet
  <2>1. /\ t \in RemoteStore /\ SameStream(u, t) /\ SameTracker(u, t) /\ t.view = u.view
        /\ t.is_network_enabled = u.is_network_enabled
        /\ t.listen_targets = u.listen_targets /\ t.watched = u.watched
        /\ t.aggregator.updates = y
        /\ t.aggregator.targets[d] = a
        /\ \A e \in Docs : e # d => t.aggregator.targets[e] = u.aggregator.targets[e]
    BY <2>0 DEF TargetKept
  <2>2. \A e \in Docs : t.aggregator.targets[e].outstanding
          = s.aggregator.targets[e].outstanding - (IF m \in AnswersFor(e) THEN 1 ELSE 0)
    BY <1>4, <1>5, <1>6, <1>8, <1>11, <2>1
  <2>3. ASSUME NEW e \in s.listen_targets
        PROVE  Handled(s.down, e, s.aggregator.updates[e], t.aggregator.updates[e], c[e], c[e])
    <3>1. e \in Docs /\ c[e] >= c[e]
      BY <1>9, <1>10
    <3>2. IsDocument(m, e) => t.aggregator.updates[e] = m.version
      <4>1. IsDocument(m, e) => e = d /\ m.kind = "document"
        BY <1>4
      <4> QED
        BY <1>11, <2>1, <4>1
    <3>3. ~IsDocument(m, e) => t.aggregator.updates[e] = s.aggregator.updates[e]
      <4>1. CASE e = d /\ ~IsDocument(m, e)
        BY <1>4, <1>5, <1>6, <1>11, <2>1, <4>1
      <4>2. CASE e # d
        BY <1>5, <1>6, <1>11, <2>1, <3>1, <4>2
      <4> QED
        BY <4>1, <4>2
    <3> QED
      BY <1>1, <1>4, <3>1, <3>2, <3>3 DEF Handled
  <2>4. t.view \subseteq t.listen_targets /\ ViewsFresh(t, c, v)
    BY <1>0, <1>5, <1>10, <2>1 DEF ViewsFresh
  <2>5. Worked(s, u, t, c, c)
    BY <1>1, <1>9, <2>1, <2>2, <2>3, <2>4 DEF Worked
  <2>6. Settled(t, c, v)
    BY <2>4, <2>5, WorkedSettles
  <2> QED
    BY <1>0, <1>5, <2>0, <2>1, <2>6
<1>12. IsActiveTarget(u, d)
          <=> d \in s.listen_targets /\ Asked(s, d) = {} /\ Behind(s.down, d, 1)
  BY <1>4, ReceivedActive
<1>13. CASE ~IsActiveTarget(u, d)
  <2>1. u = Changed(u, m)
    BY <1>3, <1>13 DEF Changed
  <2>2. \A e \in Docs : u.aggregator.targets[e].outstanding
          = s.aggregator.targets[e].outstanding - (IF m \in AnswersFor(e) THEN 1 ELSE 0)
    BY <1>4, <1>5, <1>8
  <2>3. ASSUME NEW e \in s.listen_targets, Asked(s, e) = {}
        PROVE  Handled(s.down, e, s.aggregator.updates[e], u.aggregator.updates[e], c[e], c[e])
    <3>1. e \in Docs /\ c[e] >= c[e]
      BY <1>9, <1>10
    <3>2. Behind(s.down, e, 1) => ~IsDocument(m, e)
      BY <1>4, <1>12, <1>13, <2>3
    <3> QED
      BY <1>1, <1>4, <1>5, <3>1, <3>2 DEF Handled
  <2>4. u.view \subseteq u.listen_targets /\ ViewsFresh(u, c, v)
    BY <1>0, <1>5, <1>10 DEF ViewsFresh
  <2>5. Worked(s, u, u, c, c)
    BY <1>0, <1>1, <1>9, <2>2, <2>3, <2>4 DEF Worked, SameStream, SameTracker
  <2>6. Settled(u, c, v)
    BY <2>4, <2>5, WorkedSettles
  <2> QED
    BY <1>0, <1>1, <1>5, <2>1, <2>6
<1>14. CASE IsActiveTarget(u, d) /\ m.kind = "current"
  <2>1. PICK a : a = [[o EXCEPT !.changed = TRUE] EXCEPT !.current = TRUE]
    OBVIOUS
  <2>2. a \in Targets /\ a.outstanding = o.outstanding
    BY <1>7, <2>1 DEF Targets
  <2>3. PICK t : /\ TargetWritten(u, d, a, x, t)
                 /\ Settled(t, c, v) /\ t.view = s.view
                 /\ t.listen_targets = s.listen_targets
    BY <1>7, <1>11, <1>14, <2>2
  <2>4. t = [u EXCEPT !.aggregator.targets[d] = a]
    BY <1>0, <1>4, <1>6, <2>2, <2>3, SameUpdates DEF TargetWritten
  <2>5. t = Changed(u, m)
    <3>1. u.aggregator \in Aggregators /\ u.aggregator.targets \in [Docs -> Targets]
      BY <1>0 DEF RemoteStore, Aggregators
    <3>2. PICK p : p = [o EXCEPT !.changed = TRUE]
      OBVIOUS
    <3>3. PICK w : w = [u EXCEPT !.aggregator.targets[d] = p]
      OBVIOUS
    <3>4. w = [u EXCEPT !.aggregator.targets[d].changed = TRUE]
      BY <1>6, <3>2, <3>3
    <3>5. w.aggregator.targets[d] = p
      BY <1>0, <1>4, <3>1, <3>3 DEF RemoteStore, Aggregators
    <3>6. a = [p EXCEPT !.current = TRUE]
      BY <2>1, <3>2
    <3>7. [w EXCEPT !.aggregator.targets[d].current = TRUE]
            = [w EXCEPT !.aggregator.targets[d] = a]
      BY <3>5, <3>6
    <3>8. [w EXCEPT !.aggregator.targets[d] = a] = t
      <4>1. PICK f, g : /\ f = [u.aggregator.targets EXCEPT ![d] = p]
                        /\ g = [u.aggregator EXCEPT !.targets = f]
        OBVIOUS
      <4>2. w.aggregator = g /\ w = [u EXCEPT !.aggregator = g]
        BY <1>0, <3>3, <4>1 DEF RemoteStore
      <4>3. g.targets = f
        BY <3>1, <4>1 DEF Aggregators
      <4>4. PICK h : h = [u.aggregator.targets EXCEPT ![d] = a]
        OBVIOUS
      <4>5. [f EXCEPT ![d] = a] = h
        BY <3>1, <4>1, <4>4
      <4>6. [g EXCEPT !.targets = h] = [u.aggregator EXCEPT !.targets = h]
        BY <3>1, <4>1 DEF Aggregators
      <4>7. t = [u EXCEPT !.aggregator = [u.aggregator EXCEPT !.targets = h]]
        BY <2>4, <4>4
      <4>8. [w EXCEPT !.aggregator.targets[d] = a]
              = [w EXCEPT !.aggregator = [g EXCEPT !.targets = h]]
        BY <4>2, <4>3, <4>5
      <4> QED
        BY <1>0, <4>2, <4>6, <4>7, <4>8 DEF RemoteStore
    <3>9. [[u EXCEPT !.aggregator.targets[d].changed = TRUE]
              EXCEPT !.aggregator.targets[d].current = TRUE] = t
      BY <3>4, <3>7, <3>8
    <3> QED
      BY <1>3, <1>14, <3>9 DEF Changed
  <2> QED
    BY <1>1, <2>3, <2>5
<1>15. CASE IsActiveTarget(u, d) /\ m.kind = "document"
  <2>1. PICK a, y : a = [o EXCEPT !.changed = TRUE] /\ y = [x EXCEPT ![d] = m.version]
    OBVIOUS
  <2>2. a \in Targets /\ a.outstanding = o.outstanding
    BY <1>7, <2>1 DEF Targets
  <2>3. /\ y \in [Docs -> Nat] /\ y[d] = m.version
        /\ \A e \in Docs : e # d => y[e] = x[e]
    BY <1>4, <1>7, <1>15, <2>1
  <2>4. PICK t : /\ TargetWritten(u, d, a, y, t)
                 /\ Settled(t, c, v) /\ t.view = s.view
                 /\ t.listen_targets = s.listen_targets
    BY <1>11, <1>15, <2>2, <2>3
  <2>5. t = Changed(u, m)
    <3>1. u.aggregator \in Aggregators /\ u.aggregator.targets \in [Docs -> Targets]
      BY <1>0 DEF RemoteStore, Aggregators
    <3>2. [[u EXCEPT !.aggregator.targets[d].changed = TRUE]
              EXCEPT !.aggregator.updates[d] = m.version] = t
      BY <1>0, <1>4, <1>6, <1>7, <2>1, <2>4, <3>1
         DEF RemoteStore, Aggregators, Targets, TargetWritten
    <3> QED
      BY <1>3, <1>15, <3>2 DEF Changed
  <2> QED
    BY <1>1, <2>4, <2>5
<1> QED
  BY <1>1, <1>13, <1>14, <1>15


\* ApplyRemoteEvent, as it changes the store: the views W, the targets f, and nothing
\* collected.
EventWritten(u, W, f, z, t) ==
    t = [u EXCEPT !.view = W, !.aggregator.updates = z, !.aggregator.targets = f]

EventKept(u, W, f, t) ==
    /\ t \in RemoteStore /\ SameStream(u, t) /\ SameTracker(u, t) /\ t.view = W
    /\ t.is_network_enabled = u.is_network_enabled
    /\ t.listen_targets = u.listen_targets /\ t.watched = u.watched
    /\ t.aggregator.targets = f

LEMMA EventApplied ==
  ASSUME NEW u \in RemoteStore, NEW W \in SUBSET Docs, NEW f \in [Docs -> Targets],
         NEW z \in [Docs -> Nat]
  PROVE  \E t : EventWritten(u, W, f, z, t) /\ EventKept(u, W, f, t)
<1>1. u.aggregator \in Aggregators
  BY DEF RemoteStore
<1>2. PICK g : g = [u.aggregator EXCEPT !.updates = z, !.targets = f]
  OBVIOUS
<1>3. g \in Aggregators /\ g.targets = f /\ g.updates = z
  BY <1>1, <1>2 DEF Aggregators
<1>4. PICK t : t = [u EXCEPT !.view = W, !.aggregator = g]
  OBVIOUS
<1>5. t \in RemoteStore
  BY <1>3, <1>4 DEF RemoteStore
<1>6. /\ SameStream(u, t) /\ SameTracker(u, t) /\ t.view = W /\ t.aggregator = g
      /\ t.is_network_enabled = u.is_network_enabled
      /\ t.listen_targets = u.listen_targets /\ t.watched = u.watched
  BY <1>4 DEF RemoteStore, SameStream, SameTracker
<1>7. EventWritten(u, W, f, z, t)
  BY <1>1, <1>2, <1>4 DEF RemoteStore, Aggregators, EventWritten
<1> QED
  BY <1>3, <1>5, <1>6, <1>7 DEF EventKept

\* A snapshot: the views of the active targets are as current as the targets.
EventOf(u, t) ==
    /\ t = RemoteEvent(u)
    /\ t \in RemoteStore /\ SameStream(u, t) /\ SameTracker(u, t)
    /\ t.is_network_enabled = u.is_network_enabled
    /\ t.listen_targets = u.listen_targets /\ t.watched = u.watched
    /\ \A d \in t.view : d \in Docs /\ (d \in u.view \/ IsActiveTarget(u, d))
    /\ \A d \in Docs : t.aggregator.targets[d].outstanding = u.aggregator.targets[d].outstanding

LEMMA RemoteEventIs ==
  ASSUME NEW u \in RemoteStore
  PROVE  \E t : EventOf(u, t)
<1>1. u.aggregator \in Aggregators /\ u.view \in SUBSET Docs
  BY DEF RemoteStore
<1>2. u.aggregator.targets \in [Docs -> Targets]
  BY <1>1 DEF Aggregators
<1>3. PICK A, C, f, z, W :
          /\ A = {d \in Docs : IsActiveTarget(u, d)}
          /\ C = {d \in A : u.aggregator.targets[d].current}
          /\ f = [d \in Docs |-> IF d \in A
                                   THEN [u.aggregator.targets[d] EXCEPT !.changed = FALSE]
                                   ELSE u.aggregator.targets[d]]
          /\ z = [d \in Docs |-> 0]
          /\ W = (u.view \ A) \cup C
  OBVIOUS
<1>4. z \in [Docs -> Nat] /\ W \in SUBSET Docs
  BY <1>1, <1>3
<1>5. ASSUME NEW d \in Docs
      PROVE  f[d] \in Targets /\ f[d].outstanding = u.aggregator.targets[d].outstanding
  <2>1. PICK o : o = u.aggregator.targets[d]
    OBVIOUS
  <2>2. o \in Targets
    BY <1>2, <2>1
  <2>3. /\ [o EXCEPT !.changed = FALSE] \in Targets
        /\ [o EXCEPT !.changed = FALSE].outstanding = o.outstanding
    BY <2>2 DEF Targets
  <2> QED
    BY <1>3, <2>1, <2>2, <2>3
<1>6. f \in [Docs -> Targets]
  BY <1>3, <1>5
<1>7. PICK t : EventWritten(u, W, f, z, t) /\ EventKept(u, W, f, t)
  BY <1>4, <1>6, EventApplied
<1>8. t = RemoteEvent(u)
  BY <1>3, <1>7 DEF RemoteEvent, EventWritten
<1>9. \A d \in t.view : d \in Docs /\ (d \in u.view \/ IsActiveTarget(u, d))
  BY <1>1, <1>3, <1>7 DEF EventKept
<1> QED
  BY <1>5, <1>7, <1>8, <1>9 DEF EventOf, EventKept

\* PopulateDocumentChanges: the cache only gets newer, and as new as the updates.
LEMMA NewCacheIs ==
  ASSUME cache \in [Docs -> Nat], NEW u \in RemoteStore
  PROVE  \E b \in [Docs -> Nat] :
            /\ b = NewCache(u)
            /\ \A d \in Docs : b[d] >= cache[d] /\ b[d] >= u.aggregator.updates[d]
<1>1. u.aggregator \in Aggregators
  BY DEF RemoteStore
<1>2. u.aggregator.updates \in [Docs -> Nat]
  BY <1>1 DEF Aggregators
<1>3. PICK x, b : x = u.aggregator.updates /\ b = NewCache(u)
  OBVIOUS
<1>4. b = [d \in Docs |-> IF x[d] > cache[d] THEN x[d] ELSE cache[d]]
  BY <1>3 DEF NewCache
<1>5. \A d \in Docs : x[d] \in Nat /\ cache[d] \in Nat
  BY <1>2, <1>3
<1>6. ASSUME NEW d \in Docs PROVE b[d] \in Nat /\ b[d] >= cache[d] /\ b[d] >= x[d]
  BY <1>4, <1>5
<1>7. b \in [Docs -> Nat]
  BY <1>4, <1>6
<1> QED
  BY <1>3, <1>6, <1>7

LEMMA EventSettles ==
  ASSUME NEW s, NEW u, NEW v \in [Docs -> Nat], cache \in [Docs -> Nat],
         Settled(s, cache, v), s.down # <<>>, Received(s, u), Head(s.down).kind = "snapshot"
  PROVE  \E t, b : /\ t = RemoteEvent(u) /\ b = NewCache(u) /\ Settled(t, b, v)
                   /\ t.listen_targets = s.listen_targets /\ b \in [Docs -> Nat]
<1>0. /\ Calm(s) /\ ViewsFresh(s, cache, v) /\ u \in RemoteStore /\ SameTargets(s, u)
      /\ u.view = s.view /\ AllCurrent(s, cache, v)
  BY DEF Settled, Received
<1>1. PICK m : m = Head(s.down)
  OBVIOUS
<1>2. m \in Messages /\ s.down \in Seq(Messages)
  BY <1>0, <1>1 DEF Calm, RemoteStore
<1>3. m = Snapshot
  BY <1>1, <1>2, MessageIs
<1>4. \A e : m \notin AnswersFor(e) /\ ~IsDocument(m, e)
  BY <1>1, Kinds
<1>5. PICK t : EventOf(u, t)
  BY <1>0, RemoteEventIs
<1>6. /\ t = RemoteEvent(u)
      /\ t \in RemoteStore /\ SameStream(u, t) /\ SameTracker(u, t)
      /\ t.is_network_enabled = u.is_network_enabled
      /\ t.listen_targets = u.listen_targets /\ t.watched = u.watched
      /\ \A d \in t.view : d \in Docs /\ (d \in u.view \/ IsActiveTarget(u, d))
      /\ \A d \in Docs :
            t.aggregator.targets[d].outstanding = u.aggregator.targets[d].outstanding
  BY <1>5 DEF EventOf
<1>7. PICK b \in [Docs -> Nat] :
            /\ b = NewCache(u)
            /\ \A d \in Docs : b[d] >= cache[d] /\ b[d] >= u.aggregator.updates[d]
  BY <1>0, NewCacheIs
<1>8. u.aggregator = s.aggregator /\ u.listen_targets = s.listen_targets
  BY <1>0 DEF SameTargets
<1>9. s.listen_targets \subseteq Docs /\ s.view \subseteq s.listen_targets
  BY <1>0 DEF Calm, RemoteStore
<1>10. t.view \subseteq t.listen_targets
  BY <1>0, <1>6, <1>8, <1>9 DEF IsActiveTarget
<1>11. \A d \in Docs : t.aggregator.targets[d].outstanding
          = s.aggregator.targets[d].outstanding - (IF m \in AnswersFor(d) THEN 1 ELSE 0)
  <2> SUFFICES ASSUME NEW d \in Docs
               PROVE  t.aggregator.targets[d].outstanding
                        = s.aggregator.targets[d].outstanding - (IF m \in AnswersFor(d) THEN 1 ELSE 0)
    OBVIOUS
  <2>1. s.aggregator.targets[d].outstanding \in Int
    BY <1>0, <1>8, TargetIs
  <2> QED
    BY <1>4, <1>6, <1>8, <2>1
<1>12. \A d \in s.listen_targets :
          Handled(s.down, d, s.aggregator.updates[d], t.aggregator.updates[d], cache[d], b[d])
  BY <1>1, <1>3, <1>4, <1>7, <1>8, <1>9 DEF Handled
<1>13. Worked(s, u, t, cache, b)
  BY <1>1, <1>6, <1>7, <1>10, <1>11, <1>12 DEF Worked
<1>14. ViewsFresh(t, b, v)
  <2> SUFFICES ASSUME NEW d \in t.view PROVE b[d] >= v[d]
    BY DEF ViewsFresh
  <2>1. d \in Docs
    BY <1>6
  <2>2. PICK x : x = s.aggregator.updates[d]
    OBVIOUS
  <2>3. x \in Nat
    <3>1. u.aggregator.updates \in [Docs -> Nat]
      BY <1>0, <2>1, TargetIs
    <3> QED
      BY <1>8, <2>1, <2>2, <3>1
  <2>4. /\ b[d] \in Nat /\ cache[d] \in Nat /\ v[d] \in Nat /\ b[d] >= cache[d] /\ b[d] >= x
    BY <1>7, <1>8, <2>1, <2>2
  <2>5. CASE d \in u.view
    <3>1. cache[d] >= v[d]
      BY <1>0, <2>5 DEF ViewsFresh
    <3> QED
      BY <2>4, <3>1
  <2>6. CASE IsActiveTarget(u, d)
    <3>1. d \in s.listen_targets /\ Asked(s, d) = {} /\ Behind(s.down, d, 1)
      BY <2>1, <2>6, ReceivedActive
    <3>2. IsOpen(s)
      BY DEF Received, IsOpen
    <3>3. Current(s.down, d, x, cache[d], v[d])
      BY <1>0, <2>2, <3>1, <3>2 DEF AllCurrent
    <3>4. 1 \in 1..Len(s.down) /\ s.down[1] = Snapshot
      BY <1>1, <1>2, <1>3
    <3>5. Supplied(s.down, d, 1, x, cache[d], v[d])
      BY <3>1, <3>3, <3>4 DEF Current
    <3>6. 1..(1 - 1) = {}
      OBVIOUS
    <3>7. cache[d] >= v[d] \/ x >= v[d]
      BY <3>5, <3>6 DEF Supplied
    <3> QED
      BY <2>3, <2>4, <3>7
  <2> QED
    BY <1>6, <2>5, <2>6
<1>15. Settled(t, b, v)
  BY <1>13, <1>14, WorkedSettles
<1> QED
  BY <1>6, <1>7, <1>8, <1>15

(***************************************************************************)
(* What the server sends comes after all messages there are                *)
(***************************************************************************)
\* Behind every answer, when messages that hold no answer come after others.
LEMMA BehindJoined ==
  ASSUME NEW q \in Seq(Messages), NEW p \in Seq(Messages), NEW d, Behind(p, d, 1)
  PROVE  /\ \A i \in 1..(Len(q) + 1) : Behind(q, d, i) <=> Behind(q \o p, d, i)
<1>1. PICK r, k, l : r = q \o p /\ k = Len(q) /\ l = Len(p)
  OBVIOUS
<1>2. /\ k \in Nat /\ l \in Nat /\ Len(r) = k + l
      /\ \A i \in 1..k : r[i] = q[i]
      /\ \A j \in 1..l : r[k + j] = p[j]
  BY <1>1, Joined
<1>3. ASSUME NEW i \in 1..(k + 1), Behind(q, d, i), NEW j \in i..(k + l)
      PROVE  r[j] \notin AnswersFor(d)
  <2>1. CASE j <= k
    <3>1. j \in i..Len(q) /\ j \in 1..k
      BY <1>1, <1>2, <2>1
    <3> QED
      BY <1>2, <1>3, <3>1 DEF Behind
  <2>2. CASE j > k
    <3>1. PICK n : n = j - k
      OBVIOUS
    <3>2. n \in 1..l /\ j = k + n
      BY <1>2, <2>2, <3>1
    <3> QED
      BY <1>1, <1>2, <3>2 DEF Behind
  <2> QED
    BY <1>2, <2>1, <2>2
<1>4. ASSUME NEW i \in 1..(k + 1), Behind(r, d, i), NEW j \in i..k
      PROVE  q[j] \notin AnswersFor(d)
  <2>1. j \in i..Len(r) /\ j \in 1..k
    BY <1>2
  <2> QED
    BY <1>2, <1>4, <2>1 DEF Behind
<1>5. \A i \in 1..(k + 1) : Behind(q, d, i) <=> Behind(r, d, i)
  BY <1>1, <1>2, <1>3, <1>4 DEF Behind
<1> QED
  BY <1>1, <1>5

\* Messages that hold no answer about d and no old document keep d current.
LEMMA CurrentJoined ==
  ASSUME NEW q \in Seq(Messages), NEW p \in Seq(Messages), NEW d, NEW x, NEW c, NEW v,
         Current(q, d, x, c, v), Behind(p, d, 1),
         \A i \in 1..Len(p) : IsDocument(p[i], d) => p[i].version >= v
  PROVE  Current(q \o p, d, x, c, v)
<1>1. PICK r, k, l : r = q \o p /\ k = Len(q) /\ l = Len(p)
  OBVIOUS
<1>2. /\ k \in Nat /\ l \in Nat /\ Len(r) = k + l
      /\ \A i \in 1..k : r[i] = q[i]
      /\ \A j \in 1..l : r[k + j] = p[j]
  BY <1>1, Joined
<1>3. \A i \in 1..(k + 1) : Behind(q, d, i) <=> Behind(r, d, i)
  BY <1>1, BehindJoined
<1>4. ASSUME NEW i \in 1..(k + 1), Supplied(q, d, i, x, c, v), NEW n \in i..((k + l) + 1)
      PROVE  Supplied(r, d, n, x, c, v)
  <2>1. CASE c >= v
    BY <2>1 DEF Supplied
  <2>2. CASE Behind(q, d, 1) /\ x >= v
    <3>1. 1 \in 1..(k + 1)
      BY <1>2
    <3> QED
      BY <1>3, <2>2, <3>1 DEF Supplied
  <2>3. ASSUME NEW j \in 1..(i - 1), Behind(q, d, j), IsDocument(q[j], d)
        PROVE  Supplied(r, d, n, x, c, v)
    <3>1. j \in 1..k /\ j \in 1..(k + 1) /\ j \in 1..(n - 1)
      BY <1>2
    <3>2. Behind(r, d, j) /\ IsDocument(r[j], d)
      BY <1>2, <1>3, <2>3, <3>1
    <3> QED
      BY <3>1, <3>2 DEF Supplied
  <2> QED
    BY <1>4, <2>1, <2>2, <2>3 DEF Supplied
<1>5. \A i \in 1..(k + l) : i \in 1..k \/ \E j \in 1..l : i = k + j
  <2> SUFFICES ASSUME NEW i \in 1..(k + l), i \notin 1..k PROVE \E j \in 1..l : i = k + j
    OBVIOUS
  <2>1. i - k \in 1..l /\ i = k + (i - k)
    BY <1>2
  <2> QED
    BY <2>1
<1>6. Supplied(q, d, k + 1, x, c, v)
  BY <1>1 DEF Current
<1>7. ASSUME NEW i \in 1..(k + l), Behind(r, d, i), IsDocument(r[i], d) PROVE r[i].version >= v
  <2>1. CASE i \in 1..k
    <3>1. i \in 1..(k + 1) /\ i \in 1..Len(q)
      BY <1>1, <1>2, <2>1
    <3>2. Behind(q, d, i) /\ IsDocument(q[i], d) /\ r[i] = q[i]
      BY <1>2, <1>3, <1>7, <2>1, <3>1
    <3> QED
      BY <3>1, <3>2 DEF Current
  <2>2. CASE \E j \in 1..l : i = k + j
    BY <1>1, <1>2, <1>7, <2>2
  <2> QED
    BY <1>5, <2>1, <2>2
<1>8. ASSUME NEW i \in 1..(k + l), Behind(r, d, i), r[i] = Snapshot
      PROVE  Supplied(r, d, i, x, c, v)
  <2>1. CASE i \in 1..k
    <3>1. i \in 1..(k + 1) /\ i \in 1..Len(q) /\ i \in i..((k + l) + 1)
      BY <1>1, <1>2, <2>1
    <3>2. Behind(q, d, i) /\ q[i] = Snapshot
      BY <1>2, <1>3, <1>8, <2>1, <3>1
    <3>3. Supplied(q, d, i, x, c, v)
      BY <3>1, <3>2 DEF Current
    <3> QED
      BY <1>4, <3>1, <3>3
  <2>2. CASE \E j \in 1..l : i = k + j
    <3>1. k + 1 \in 1..(k + 1) /\ i \in (k + 1)..((k + l) + 1)
      BY <1>2, <2>2
    <3> QED
      BY <1>4, <1>6, <3>1
  <2> QED
    BY <1>5, <2>1, <2>2
<1>9. Supplied(r, d, (k + l) + 1, x, c, v)
  <2>1. k + 1 \in 1..(k + 1) /\ (k + l) + 1 \in (k + 1)..((k + l) + 1)
    BY <1>2
  <2> QED
    BY <1>4, <1>6, <2>1
<1> QED
  BY <1>1, <1>2, <1>7, <1>8, <1>9 DEF Current

\* Messages that begin with an answer about d: what came before them does not count.
LEMMA CurrentAnswered ==
  ASSUME NEW q \in Seq(Messages), NEW p \in Seq(Messages), NEW d, NEW x, NEW c, NEW v,
         Current(p, d, x, c, v), p # <<>>, p[1] \in AnswersFor(d)
  PROVE  Current(q \o p, d, x, c, v)
<1>1. PICK r, k, l : r = q \o p /\ k = Len(q) /\ l = Len(p)
  OBVIOUS
<1>2. /\ k \in Nat /\ l \in Nat /\ l >= 1 /\ Len(r) = k + l
      /\ \A i \in 1..k : r[i] = q[i]
      /\ \A j \in 1..l : r[k + j] = p[j]
  <2>1. l \in Nat /\ l >= 1
    BY <1>1
  <2> QED
    BY <1>1, <2>1, Joined
<1>3. \A i \in 1..(k + 1) : ~Behind(r, d, i)
  <2> SUFFICES ASSUME NEW i \in 1..(k + 1) PROVE ~Behind(r, d, i)
    OBVIOUS
  <2>1. k + 1 \in i..Len(r) /\ 1 \in 1..l
    BY <1>2
  <2>2. r[k + 1] \in AnswersFor(d)
    BY <1>2, <2>1
  <2> QED
    BY <2>1, <2>2 DEF Behind
<1>4. \A n \in 1..(l + 1) : Behind(r, d, k + n) <=> Behind(p, d, n)
  <2> SUFFICES ASSUME NEW n \in 1..(l + 1) PROVE Behind(r, d, k + n) <=> Behind(p, d, n)
    OBVIOUS
  <2>1. ASSUME Behind(p, d, n), NEW j \in (k + n)..(k + l) PROVE r[j] \notin AnswersFor(d)
    <3>1. PICK m : m = j - k
      OBVIOUS
    <3>2. m \in n..l /\ m \in 1..l /\ j = k + m
      BY <1>2, <3>1
    <3> QED
      BY <1>1, <1>2, <2>1, <3>2 DEF Behind
  <2>2. ASSUME Behind(r, d, k + n), NEW m \in n..l PROVE p[m] \notin AnswersFor(d)
    <3>1. k + m \in (k + n)..Len(r) /\ m \in 1..l
      BY <1>2
    <3> QED
      BY <1>2, <2>2, <3>1 DEF Behind
  <2> QED
    BY <1>1, <1>2, <2>1, <2>2 DEF Behind
<1>5. ASSUME NEW n \in 1..(l + 1), Supplied(p, d, n, x, c, v)
      PROVE  Supplied(r, d, k + n, x, c, v)
  <2>1. CASE c >= v
    BY <2>1 DEF Supplied
  <2>2. ~Behind(p, d, 1)
    <3>1. 1 \in 1..Len(p)
      BY <1>1, <1>2
    <3> QED
      BY <3>1 DEF Behind
  <2>3. ASSUME NEW j \in 1..(n - 1), Behind(p, d, j), IsDocument(p[j], d)
        PROVE  Supplied(r, d, k + n, x, c, v)
    <3>1. PICK m : m = k + j
      OBVIOUS
    <3>2. m \in 1..((k + n) - 1) /\ j \in 1..l /\ j \in 1..(l + 1)
      BY <1>2, <3>1
    <3>3. Behind(r, d, m) /\ IsDocument(r[m], d)
      BY <1>2, <1>4, <2>3, <3>1, <3>2
    <3> QED
      BY <3>2, <3>3 DEF Supplied
  <2> QED
    BY <1>5, <2>1, <2>2, <2>3 DEF Supplied
<1>6. \A i \in 1..(k + l) : Behind(r, d, i) => \E j \in 1..l : i = k + j
  <2> SUFFICES ASSUME NEW i \in 1..(k + l), Behind(r, d, i) PROVE \E j \in 1..l : i = k + j
    OBVIOUS
  <2>1. i \notin 1..(k + 1)
    BY <1>3
  <2>2. i - k \in 1..l /\ i = k + (i - k)
    BY <1>2, <2>1
  <2> QED
    BY <2>2
<1>7. ASSUME NEW i \in 1..(k + l), Behind(r, d, i), IsDocument(r[i], d) PROVE r[i].version >= v
  <2>1. PICK j \in 1..l : i = k + j
    BY <1>6, <1>7
  <2>2. j \in 1..(l + 1) /\ j \in 1..Len(p) /\ r[i] = p[j]
    BY <1>1, <1>2, <2>1
  <2>3. Behind(p, d, j)
    BY <1>4, <1>7, <2>1, <2>2
  <2> QED
    BY <1>7, <2>2, <2>3 DEF Current
<1>8. ASSUME NEW i \in 1..(k + l), Behind(r, d, i), r[i] = Snapshot
      PROVE  Supplied(r, d, i, x, c, v)
  <2>1. PICK j \in 1..l : i = k + j
    BY <1>6, <1>8
  <2>2. j \in 1..(l + 1) /\ j \in 1..Len(p) /\ r[i] = p[j]
    BY <1>1, <1>2, <2>1
  <2>3. Behind(p, d, j)
    BY <1>4, <1>8, <2>1, <2>2
  <2>4. Supplied(p, d, j, x, c, v)
    BY <1>8, <2>2, <2>3 DEF Current
  <2> QED
    BY <1>5, <2>1, <2>2, <2>4
<1>9. Supplied(r, d, (k + l) + 1, x, c, v)
  <2>1. l + 1 \in 1..(l + 1) /\ k + (l + 1) = (k + l) + 1
    BY <1>2
  <2>2. Supplied(p, d, l + 1, x, c, v)
    BY <1>1 DEF Current
  <2>3. Supplied(r, d, k + (l + 1), x, c, v)
    BY <1>5, <2>1, <2>2
  <2> QED
    BY <2>1, <2>3
<1> QED
  BY <1>1, <1>2, <1>7, <1>8, <1>9 DEF Current

(***************************************************************************)
(* The server                                                              *)
(***************************************************************************)
\* What the server sends when it takes the request h: one answer, and nothing about
\* other documents; a document that is watched is not older than v.
Reply(h, p, c, v) ==
    /\ p \in Seq(Messages)
    /\ \A e \in Docs : Cardinality(Places(p, AnswersFor(e))) = IF e = h.doc THEN 1 ELSE 0
    /\ \A e \in Docs : e # h.doc => /\ Behind(p, e, 1)
                                    /\ \A i \in 1..Len(p) : ~IsDocument(p[i], e)
    /\ h.watch => /\ p # <<>> /\ p[1] \in AnswersFor(h.doc)
                  /\ \A x \in Nat : Current(p, h.doc, x, c, v)

Served(s, t, p) ==
    /\ t \in RemoteStore /\ SameTracker(s, t) /\ t.view = s.view
    /\ t.is_network_enabled = s.is_network_enabled /\ t.listen_targets = s.listen_targets
    /\ t.aggregator = s.aggregator /\ t.state = s.state /\ t.close_count = s.close_count
    /\ t.tokens = s.tokens /\ t.idleness_timer = s.idleness_timer /\ t.failed = s.failed
    /\ t.up = Tail(s.up) /\ t.down = s.down \o p
    /\ \A e \in Docs : e # Head(s.up).doc => (e \in t.watched <=> e \in s.watched)
    /\ Head(s.up).watch => Head(s.up).doc \in t.watched

LEMMA ServedSettles ==
  ASSUME NEW s, NEW t, NEW p, NEW c \in [Docs -> Nat], NEW v \in [Docs -> Nat],
         Settled(s, c, v), s.up # <<>>, Served(s, t, p),
         Reply(Head(s.up), p, c[Head(s.up).doc], v[Head(s.up).doc])
  PROVE  Settled(t, c, v)
<1>0. /\ s.is_network_enabled /\ Calm(s) /\ Counted(s) /\ AllWanted(s)
      /\ AllCurrent(s, c, v) /\ Known(s, c) /\ ViewsFresh(s, c, v)
  BY DEF Settled
<1>1. /\ s \in RemoteStore /\ s.state = "Open" /\ s.up \in Seq(Requests)
      /\ s.down \in Seq(Messages) /\ s.listen_targets \subseteq Docs
  BY <1>0 DEF Calm, Down, RemoteStore
<1>2. /\ t \in RemoteStore /\ SameTracker(s, t) /\ t.view = s.view
      /\ t.is_network_enabled = s.is_network_enabled /\ t.listen_targets = s.listen_targets
      /\ t.aggregator = s.aggregator /\ t.state = s.state /\ t.close_count = s.close_count
      /\ t.tokens = s.tokens /\ t.idleness_timer = s.idleness_timer /\ t.failed = s.failed
  BY DEF Served
<1>3. PICK h, d : h = Head(s.up) /\ d = Head(s.up).doc
  OBVIOUS
<1>4. h \in Requests /\ d \in Docs /\ h.doc = d
  <2>1. h \in Requests
    BY <1>1, <1>3
  <2> QED
    BY <1>3, <2>1 DEF Requests
<1>5. /\ t.up = Tail(s.up) /\ t.down = s.down \o p
      /\ \A e \in Docs : e # d => (e \in t.watched <=> e \in s.watched)
      /\ h.watch => d \in t.watched
  BY <1>3 DEF Served
<1>6. /\ p \in Seq(Messages)
      /\ \A e \in Docs : Cardinality(Places(p, AnswersFor(e))) = IF e = d THEN 1 ELSE 0
      /\ \A e \in Docs : e # d => Behind(p, e, 1) /\ \A i \in 1..Len(p) : ~IsDocument(p[i], e)
      /\ h.watch => /\ p # <<>> /\ p[1] \in AnswersFor(d)
                    /\ \A x \in Nat : Current(p, d, x, c[d], v[d])
  BY <1>3, <1>4 DEF Reply
<1>7. PICK n : n = Len(t.up)
  OBVIOUS
<1>8. /\ n \in Nat /\ Len(s.up) = n + 1 /\ s.up[1] = h /\ t.up \in Seq(Requests)
      /\ \A i \in 1..n : t.up[i] = s.up[i + 1]
  BY <1>1, <1>3, <1>5, <1>7
<1>9. ASSUME NEW e \in Docs
      PROVE  /\ \A i \in Nat : i \in Asked(t, e) <=> i # 0 /\ i + 1 \in Asked(s, e)
             /\ Cardinality(Asked(t, e)) = Cardinality(Asked(s, e)) - (IF e = d THEN 1 ELSE 0)
  <2>1. /\ \A i \in Nat : i \in Places(Tail(s.up), About(e))
                            <=> i # 0 /\ i + 1 \in Places(s.up, About(e))
        /\ Cardinality(Places(Tail(s.up), About(e)))
             = Cardinality(Places(s.up, About(e))) - (IF Head(s.up) \in About(e) THEN 1 ELSE 0)
    BY <1>1, PlacesTaken
  <2>2. Head(s.up) \in About(e) <=> e = d
    BY <1>3, <1>4 DEF About
  <2> QED
    BY <1>5, <2>1, <2>2 DEF Asked
<1>10. \A e \in Docs : Asked(t, e) \subseteq 1..n /\ Asked(s, e) \subseteq 1..(n + 1)
  BY <1>7, <1>8 DEF Asked, Places
<1>11. 1 \in Asked(s, d)
  BY <1>4, <1>8 DEF Asked, Places, About
<1>12. Calm(t)
  <2>1. TokensCurrent(t) /\ Tracker(t)
    BY <1>0, <1>2 DEF Calm, TokensCurrent, Tracker, SameTracker, IsStarted
  <2> QED
    BY <1>0, <1>1, <1>2, <2>1 DEF Calm
<1>13. Counted(t)
  <2> SUFFICES ASSUME NEW e \in Docs
               PROVE  t.aggregator.targets[e].outstanding
                        = Cardinality(Asked(t, e)) + Cardinality(Told(t, e))
    BY DEF Counted
  <2>1. PICK x, y, z : /\ x = Cardinality(Asked(s, e)) /\ y = Cardinality(Told(s, e))
                       /\ z = IF e = d THEN 1 ELSE 0
    OBVIOUS
  <2>2. x \in Nat /\ y \in Nat /\ z \in {0, 1}
    BY <1>1, <2>1, PlacesFinite DEF Asked, Told
  <2>3. s.aggregator.targets[e].outstanding = x + y
    BY <1>0, <2>1 DEF Counted
  <2>4. Cardinality(Asked(t, e)) = x - z
    BY <1>9, <2>1
  <2>5. Cardinality(Told(t, e)) = y + z
    <3>1. Cardinality(Places(s.down \o p, AnswersFor(e)))
            = Cardinality(Places(s.down, AnswersFor(e))) + Cardinality(Places(p, AnswersFor(e)))
      BY <1>1, <1>6, PlacesJoined
    <3> QED
      BY <1>5, <1>6, <2>1, <3>1 DEF Told
  <2> QED
    BY <1>2, <2>2, <2>3, <2>4, <2>5
<1>14. ASSUME NEW e \in s.listen_targets PROVE Wanted(s, e) /\ e \in Docs
  BY <1>0, <1>1 DEF AllWanted, IsOpen
<1>15. ASSUME d \in s.listen_targets, Asked(t, d) = {} PROVE h.watch
  <2>1. \A j \in Asked(s, d) : j <= 1
    <3> SUFFICES ASSUME NEW j \in Asked(s, d), ~(j <= 1) PROVE FALSE
      OBVIOUS
    <3>1. PICK i : i = j - 1
      OBVIOUS
    <3>2. j \in 1..(n + 1)
      BY <1>4, <1>10
    <3>3. i \in Nat /\ i # 0 /\ i + 1 = j
      BY <1>8, <3>1, <3>2
    <3> QED
      BY <1>4, <1>9, <1>15, <3>3
  <2> QED
    BY <1>8, <1>11, <1>14, <1>15, <2>1 DEF Wanted
<1>16. ASSUME NEW e \in Docs, e # d, Asked(t, e) = {} PROVE Asked(s, e) = {}
  <2> SUFFICES ASSUME NEW j \in Asked(s, e) PROVE FALSE
    OBVIOUS
  <2>1. j \in 1..(n + 1) /\ s.up[j].doc = e
    BY <1>10 DEF Asked, Places, About
  <2>2. j # 1
    BY <1>4, <1>8, <1>16, <2>1
  <2>3. PICK i : i = j - 1
    OBVIOUS
  <2>4. i \in Nat /\ i # 0 /\ i + 1 = j
    BY <1>8, <2>1, <2>2, <2>3
  <2> QED
    BY <1>9, <1>16, <2>4
<1>17. AllWanted(t)
  <2> SUFFICES ASSUME NEW e \in t.listen_targets PROVE Wanted(t, e)
    BY DEF AllWanted
  <2>1. e \in s.listen_targets /\ e \in Docs /\ Wanted(s, e)
    BY <1>1, <1>2, <1>14
  <2>2. ASSUME Asked(t, e) = {} PROVE e \in t.watched
    <3>1. CASE e = d
      BY <1>5, <1>15, <2>1, <2>2, <3>1
    <3>2. CASE e # d
      BY <1>5, <1>16, <2>1, <2>2, <3>2 DEF Wanted
    <3> QED
      BY <3>1, <3>2
  <2>3. ASSUME NEW i \in Asked(t, e), \A j \in Asked(t, e) : j <= i PROVE t.up[i].watch
    <3>1. i \in 1..n
      BY <1>10, <2>1
    <3>2. i \in Nat /\ i + 1 \in Asked(s, e) /\ t.up[i] = s.up[i + 1]
      BY <1>8, <1>9, <2>1, <3>1
    <3>3. ASSUME NEW j \in Asked(s, e) PROVE j <= i + 1
      <4>1. j \in 1..(n + 1)
        BY <1>10, <2>1
      <4>2. CASE j = 1
        BY <1>8, <3>1, <4>2
      <4>3. CASE j # 1
        <5>1. PICK l : l = j - 1
          OBVIOUS
        <5>2. l \in Nat /\ l # 0 /\ l + 1 = j
          BY <1>8, <4>1, <4>3, <5>1
        <5>3. l <= i
          BY <1>9, <2>1, <2>3, <5>2
        <5> QED
          BY <3>2, <5>2, <5>3
      <4> QED
        BY <4>2, <4>3
    <3> QED
      BY <2>1, <3>2, <3>3 DEF Wanted
  <2> QED
    BY <2>2, <2>3 DEF Wanted
<1>18. AllCurrent(t, c, v)
  <2> SUFFICES ASSUME NEW e \in t.listen_targets, Asked(t, e) = {}
               PROVE  Current(t.down, e, t.aggregator.updates[e], c[e], v[e])
    BY DEF AllCurrent
  <2>1. e \in s.listen_targets /\ e \in Docs
    BY <1>1, <1>2
  <2>2. PICK x : x = s.aggregator.updates[e]
    OBVIOUS
  <2>3. x \in Nat
    <3>1. s.aggregator.updates \in [Docs -> Nat]
      BY <1>1, <2>1, TargetIs
    <3> QED
      BY <2>1, <2>2, <3>1
  <2>4. Current(s.down \o p, e, x, c[e], v[e])
    <3>1. CASE e = d
      <4>1. h.watch
        BY <1>15, <2>1, <3>1
      <4>2. p # <<>> /\ p[1] \in AnswersFor(e) /\ Current(p, e, x, c[e], v[e])
        BY <1>6, <2>3, <3>1, <4>1
      <4> QED
        BY <1>1, <1>6, <4>2, CurrentAnswered
    <3>2. CASE e # d
      <4>1. Asked(s, e) = {}
        BY <1>16, <2>1, <3>2
      <4>2. Current(s.down, e, x, c[e], v[e])
        BY <1>0, <1>1, <2>1, <2>2, <4>1 DEF AllCurrent, IsOpen
      <4>3. Behind(p, e, 1) /\ \A i \in 1..Len(p) : ~IsDocument(p[i], e)
        BY <1>6, <2>1, <3>2
      <4> QED
        BY <1>1, <1>6, <4>2, <4>3, CurrentJoined
    <3> QED
      BY <3>1, <3>2
  <2> QED
    BY <1>2, <1>5, <2>2, <2>4
<1>19. Known(t, c)
  <2> SUFFICES ASSUME NEW i \in 1..Len(t.up) PROVE t.up[i].known <= c[t.up[i].doc]
    BY DEF Known
  <2>1. i + 1 \in 1..Len(s.up) /\ t.up[i] = s.up[i + 1]
    BY <1>7, <1>8
  <2> QED
    BY <1>0, <2>1 DEF Known
<1>20. ViewsFresh(t, c, v)
  BY <1>0, <1>2 DEF ViewsFresh
<1> QED
  BY <1>0, <1>2, <1>12, <1>13, <1>17, <1>18, <1>19, <1>20 DEF Settled

\* The answer, and messages p that hold none: one answer is underway.
LEMMA OneAnswer ==
  ASSUME NEW d \in Docs, NEW m \in AnswersFor(d), NEW p \in Seq(Messages),
         \A e \in Docs : Behind(p, e, 1), NEW e \in Docs
  PROVE  Cardinality(Places(<<m>> \o p, AnswersFor(e))) = IF e = d THEN 1 ELSE 0
<1>1. PICK o : o = <<m>>
  OBVIOUS
<1>2. m \in Messages /\ (m \in AnswersFor(e) <=> e = d)
  BY DEF AnswersFor, Messages
<1>3. o \in Seq(Messages)
  BY <1>1, <1>2
<1>4. Cardinality(Places(o \o p, AnswersFor(e)))
        = Cardinality(Places(o, AnswersFor(e))) + Cardinality(Places(p, AnswersFor(e)))
  BY <1>3, PlacesJoined
<1>5. Places(p, AnswersFor(e)) = {}
  <2>1. Behind(p, e, 1)
    OBVIOUS
  <2> QED
    BY <2>1 DEF Places, Behind
<1>6. Cardinality(Places(p, AnswersFor(e))) = 0
  BY <1>5, FS_EmptySet
<1>7. Cardinality(Places(o, AnswersFor(e))) = IF e = d THEN 1 ELSE 0
  BY <1>1, <1>2, PlacesOfOne
<1> QED
  BY <1>1, <1>4, <1>6, <1>7

\* A request to stop watching is answered by one message.
LEMMA RemovedReplies ==
  ASSUME NEW h \in Requests, ~h.watch, NEW c, NEW v
  PROVE  \E p : p = <<Message("removed", h.doc)>> /\ Reply(h, p, c, v)
<1>1. PICK d, m, p : d = h.doc /\ m = Message("removed", d) /\ p = <<m>>
  OBVIOUS
<1>2. d \in Docs
  BY <1>1 DEF Requests
<1>3. m \in Messages /\ m \in AnswersFor(d) /\ m.kind = "removed"
  BY <1>1, <1>2, SentIs
<1>4. p \in Seq(Messages) /\ Len(p) = 1 /\ p[1] = m
  BY <1>1, <1>3
<1>5. \A e : ~IsDocument(m, e)
  BY <1>3, Kinds
<1>6. \A e : m \in AnswersFor(e) <=> e = d
  BY <1>3 DEF AnswersFor
<1>7. \A e \in Docs : Cardinality(Places(p, AnswersFor(e))) = IF e = d THEN 1 ELSE 0
  BY <1>1, <1>6, PlacesOfOne
<1>8. \A e \in Docs : e # d => Behind(p, e, 1) /\ \A i \in 1..Len(p) : ~IsDocument(p[i], e)
  BY <1>4, <1>5, <1>6 DEF Behind
<1>9. Reply(h, p, c, v)
  BY <1>1, <1>4, <1>7, <1>8 DEF Reply
<1> QED
  BY <1>1, <1>9

\* A request to watch d is answered by the document, unless the client knows it.
LEMMA AddedReplies ==
  ASSUME NEW h \in Requests, h.watch, NEW x \in Nat, NEW c \in Nat, NEW v \in Nat, x >= v
  PROVE  \E p : /\ p = <<Message("added", h.doc), Document(h.doc, x),
                         Message("current", h.doc), Snapshot>>
                /\ Reply(h, p, c, v)
<1>1. PICK d, m1, m2, m3, p : /\ d = h.doc /\ m1 = Message("added", d) /\ m2 = Document(d, x)
                              /\ m3 = Message("current", d) /\ p = <<m1, m2, m3, Snapshot>>
  OBVIOUS
<1>2. d \in Docs
  BY <1>1 DEF Requests
<1>3. /\ m1 \in Messages /\ m1 \in AnswersFor(d) /\ m1.kind = "added"
      /\ m2 \in Messages /\ m2.kind = "document" /\ m2.version = x /\ IsDocument(m2, d)
      /\ m3 \in Messages /\ m3.kind = "current"
      /\ Snapshot \in Messages /\ Snapshot.kind = "snapshot"
  BY <1>1, <1>2, SentIs
<1>4. /\ \A e : m2 \notin AnswersFor(e) /\ m3 \notin AnswersFor(e) /\ Snapshot \notin AnswersFor(e)
      /\ \A e : ~IsDocument(m1, e) /\ ~IsDocument(m3, e) /\ ~IsDocument(Snapshot, e)
      /\ \A e : IsDocument(m2, e) => e = d
      /\ \A e : m1 \in AnswersFor(e) <=> e = d
  <2>1. \A e : IsDocument(m2, e) => e = d
    BY <1>3 DEF IsDocument
  <2>2. \A e : m1 \in AnswersFor(e) <=> e = d
    BY <1>3 DEF AnswersFor
  <2> QED
    BY <1>3, <2>1, <2>2, Kinds
<1>5. /\ p \in Seq(Messages) /\ Len(p) = 4
      /\ p[1] = m1 /\ p[2] = m2 /\ p[3] = m3 /\ p[4] = Snapshot
  BY <1>1, <1>3
<1>6. \A i \in 1..Len(p) : i = 1 \/ i = 2 \/ i = 3 \/ i = 4
  BY <1>5
<1>7. \A e \in Docs : Cardinality(Places(p, AnswersFor(e))) = IF e = d THEN 1 ELSE 0
  <2>1. PICK r : r = <<m2, m3, Snapshot>>
    OBVIOUS
  <2>2. r \in Seq(Messages) /\ Len(r) = 3 /\ r[1] = m2 /\ r[2] = m3 /\ r[3] = Snapshot
    BY <1>3, <2>1
  <2>3. \A j \in 1..Len(r) : j = 1 \/ j = 2 \/ j = 3
    BY <2>2
  <2>4. \A e \in Docs : Behind(r, e, 1)
    BY <1>4, <2>2, <2>3 DEF Behind
  <2>5. p = <<m1>> \o r
    BY <1>1, <2>1
  <2> QED
    BY <1>2, <1>3, <2>2, <2>4, <2>5, OneAnswer
<1>8. \A e \in Docs : e # d => Behind(p, e, 1) /\ \A i \in 1..Len(p) : ~IsDocument(p[i], e)
  BY <1>4, <1>5, <1>6 DEF Behind
<1>9. ASSUME NEW y \in Nat PROVE Current(p, d, y, c, v)
  <2>1. \A i \in 1..Len(p) : Behind(p, d, i) /\ IsDocument(p[i], d) => p[i].version >= v
    BY <1>3, <1>4, <1>5, <1>6
  <2>2. Behind(p, d, 2)
    <3>1. \A j \in 2..Len(p) : j = 2 \/ j = 3 \/ j = 4
      BY <1>5
    <3> QED
      BY <1>4, <1>5, <3>1 DEF Behind
  <2>3. \A i \in {4, 5} : 2 \in 1..(i - 1)
    OBVIOUS
  <2>4. \A i \in {4, 5} : Supplied(p, d, i, y, c, v)
    BY <1>3, <1>5, <2>2, <2>3 DEF Supplied
  <2>5. \A i \in 1..Len(p) : p[i] = Snapshot => i = 4
    BY <1>3, <1>5, <1>6
  <2> QED
    BY <1>5, <2>1, <2>4, <2>5 DEF Current
<1>10. p # <<>>
  <2>1. Len(<<>>) = 0 /\ Len(p) # 0
    BY <1>5
  <2> QED
    BY <2>1, Zenon
<1>11. Reply(h, p, c, v)
  BY <1>1, <1>3, <1>5, <1>7, <1>8, <1>9, <1>10 DEF Reply
<1> QED
  BY <1>1, <1>11

LEMMA KnownReplies ==
  ASSUME NEW h \in Requests, h.watch, NEW c \in Nat, NEW v \in Nat, c >= v
  PROVE  \E p : /\ p = <<Message("added", h.doc), Message("current", h.doc), Snapshot>>
                /\ Reply(h, p, c, v)
<1>1. PICK d, m1, m3, p : /\ d = h.doc /\ m1 = Message("added", d)
                          /\ m3 = Message("current", d) /\ p = <<m1, m3, Snapshot>>
  OBVIOUS
<1>2. d \in Docs
  BY <1>1 DEF Requests
<1>3. /\ m1 \in Messages /\ m1 \in AnswersFor(d) /\ m1.kind = "added"
      /\ m3 \in Messages /\ m3.kind = "current"
      /\ Snapshot \in Messages /\ Snapshot.kind = "snapshot"
  BY <1>1, <1>2, SentIs
<1>4. /\ \A e : m3 \notin AnswersFor(e) /\ Snapshot \notin AnswersFor(e)
      /\ \A e : ~IsDocument(m1, e) /\ ~IsDocument(m3, e) /\ ~IsDocument(Snapshot, e)
      /\ \A e : m1 \in AnswersFor(e) <=> e = d
  <2>1. \A e : m1 \in AnswersFor(e) <=> e = d
    BY <1>3 DEF AnswersFor
  <2> QED
    BY <1>3, <2>1, Kinds
<1>5. p \in Seq(Messages) /\ Len(p) = 3 /\ p[1] = m1 /\ p[2] = m3 /\ p[3] = Snapshot
  BY <1>1, <1>3
<1>6. \A i \in 1..Len(p) : i = 1 \/ i = 2 \/ i = 3
  BY <1>5
<1>7. \A e \in Docs : Cardinality(Places(p, AnswersFor(e))) = IF e = d THEN 1 ELSE 0
  <2>1. PICK r : r = <<m3, Snapshot>>
    OBVIOUS
  <2>2. r \in Seq(Messages) /\ Len(r) = 2 /\ r[1] = m3 /\ r[2] = Snapshot
    BY <1>3, <2>1
  <2>3. \A j \in 1..Len(r) : j = 1 \/ j = 2
    BY <2>2
  <2>4. \A e \in Docs : Behind(r, e, 1)
    BY <1>4, <2>2, <2>3 DEF Behind
  <2>5. p = <<m1>> \o r
    BY <1>1, <2>1
  <2> QED
    BY <1>2, <1>3, <2>2, <2>4, <2>5, OneAnswer
<1>8. \A e \in Docs : e # d => Behind(p, e, 1) /\ \A i \in 1..Len(p) : ~IsDocument(p[i], e)
  BY <1>4, <1>5, <1>6 DEF Behind
<1>9. ASSUME NEW y \in Nat PROVE Current(p, d, y, c, v)
  BY <1>4, <1>5, <1>6 DEF Current, Supplied
<1>10. p # <<>>
  <2>1. Len(<<>>) = 0 /\ Len(p) # 0
    BY <1>5
  <2> QED
    BY <2>1, Zenon
<1>11. Reply(h, p, c, v)
  BY <1>1, <1>3, <1>5, <1>7, <1>8, <1>9, <1>10 DEF Reply
<1> QED
  BY <1>1, <1>11

\* The messages of an answer, joined one by one, are the answer.
LEMMA JoinedPair ==
  ASSUME NEW a \in Messages, NEW z \in Seq(Messages), NEW r \in Seq(Messages),
         Len(r) = Len(z) + 1, r[1] = a, \A i \in 1..Len(z) : r[i + 1] = z[i]
  PROVE  <<a>> \o z = r
<1>1. PICK o, w, n : o = <<a>> /\ w = o \o z /\ n = Len(z)
  OBVIOUS
<1>2. o \in Seq(Messages) /\ Len(o) = 1 /\ o[1] = a /\ n \in Nat
  BY <1>1
<1>3. /\ w \in Seq(Messages) /\ Len(w) = 1 + n
      /\ \A i \in 1..1 : w[i] = o[i] /\ \A j \in 1..n : w[1 + j] = z[j]
  BY <1>1, <1>2, Joined
<1>4. Len(r) = Len(w)
  BY <1>1, <1>2, <1>3
<1>5. ASSUME NEW i \in 1..Len(r) PROVE r[i] = w[i]
  <2>1. CASE i = 1
    BY <1>2, <1>3, <2>1
  <2>2. CASE i # 1
    <3>1. PICK j : j = i - 1
      OBVIOUS
    <3>2. j \in 1..n /\ i = j + 1 /\ i = 1 + j
      BY <1>1, <1>2, <2>2, <3>1
    <3> QED
      BY <1>1, <1>3, <3>2
  <2> QED
    BY <2>1, <2>2
<1>6. r = w
  BY <1>3, <1>4, <1>5, SeqEqual
<1> QED
  BY <1>1, <1>6

Joins(q, a, docs, c, e, p) == ((q \o <<a>>) \o docs) \o <<c, e>> = q \o p

LEMMA JoinedOneByOne ==
  ASSUME NEW q \in Seq(Messages), NEW a \in Messages, NEW b \in Messages, NEW c \in Messages,
         NEW e \in Messages
  PROVE  Joins(q, a, <<b>>, c, e, <<a, b, c, e>>) /\ Joins(q, a, <<>>, c, e, <<a, c, e>>)
<1>1. PICK x, y, z, r3, r4 : /\ x = <<a>> /\ y = <<b>> /\ z = <<c, e>>
                             /\ r3 = <<b, c, e>> /\ r4 = <<a, b, c, e>>
  OBVIOUS
<1>2. /\ x \in Seq(Messages) /\ y \in Seq(Messages)
      /\ z \in Seq(Messages) /\ Len(z) = 2 /\ z[1] = c /\ z[2] = e
      /\ r3 \in Seq(Messages) /\ Len(r3) = 3 /\ r3[1] = b /\ r3[2] = c /\ r3[3] = e
      /\ r4 \in Seq(Messages) /\ Len(r4) = 4 /\ r4[1] = a /\ r4[2] = b /\ r4[3] = c
      /\ r4[4] = e
  BY <1>1
<1>2a. /\ x \in Seq(Messages) /\ y \in Seq(Messages) /\ z \in Seq(Messages)
       /\ r3 \in Seq(Messages) /\ r4 \in Seq(Messages)
  BY <1>2
<1>2b. \A f, g, h \in Seq(Messages) : (f \o g) \o h = f \o (g \o h)
  BY ConcatAssociative
<1>3. PICK qx : qx = q \o x
  OBVIOUS
<1>4. qx \in Seq(Messages)
  BY <1>2, <1>3
<1>5. y \o z = r3
  <2>1. \A i \in 1..2 : i = 1 \/ i = 2
    OBVIOUS
  <2>2. \A i \in 1..Len(z) : r3[i + 1] = z[i]
    BY <1>2, <2>1
  <2>3. Len(r3) = Len(z) + 1
    BY <1>2
  <2>4. r3[1] = b /\ y = <<b>>
    BY <1>1, <1>2
  <2> QED
    BY <1>2, <2>2, <2>3, <2>4, JoinedPair
<1>6. x \o r3 = r4
  <2>1. \A i \in 1..3 : i = 1 \/ i = 2 \/ i = 3
    OBVIOUS
  <2>2. \A i \in 1..Len(r3) : r4[i + 1] = r3[i]
    BY <1>2, <2>1
  <2>3. Len(r4) = Len(r3) + 1 /\ r4[1] = a
    BY <1>2
  <2>4. <<a>> \o r3 = r4
    BY <1>2a, <2>2, <2>3, JoinedPair
  <2> QED
    BY <1>1, <2>4, Zenon
<1>7. PICK k3 : k3 = <<a, c, e>>
  OBVIOUS
<1>8. k3 \in Seq(Messages) /\ Len(k3) = 3 /\ k3[1] = a /\ k3[2] = c /\ k3[3] = e
  BY <1>7
<1>9. x \o z = k3
  <2>1. \A i \in 1..2 : i = 1 \/ i = 2
    OBVIOUS
  <2>2. \A i \in 1..Len(z) : k3[i + 1] = z[i]
    BY <1>2, <1>8, <2>1
  <2>3. Len(k3) = Len(z) + 1
    BY <1>2, <1>8
  <2> QED
    BY <1>1, <1>2, <1>8, <2>2, <2>3, JoinedPair
<1>10. (qx \o y) \o z = q \o r4
  <2>1. (qx \o y) \o z = qx \o (y \o z)
    BY <1>2a, <1>2b, <1>4, Zenon
  <2>2. (q \o x) \o r3 = q \o (x \o r3)
    BY <1>2a, <1>2b, Zenon
  <2> QED
    BY <1>3, <1>5, <1>6, <2>1, <2>2, Zenon
<1>11. (qx \o <<>>) \o z = q \o k3
  <2>1. qx \o <<>> = qx
    BY <1>4, ConcatEmptySeq
  <2>2. (q \o x) \o z = q \o (x \o z)
    BY <1>2a, <1>2b, Zenon
  <2> QED
    BY <1>3, <1>9, <2>1, <2>2, Zenon
<1> QED
  BY <1>1, <1>3, <1>7, <1>10, <1>11, Zenon DEF Joins

\* A request is off the wire, and messages are on it.
ServeWritten(s, W, q, t) ==
    t = [[s EXCEPT !.up = Tail(@)] EXCEPT !.watched = W, !.down = q]

ServeKept(s, W, q, t) ==
    /\ t \in RemoteStore /\ SameTracker(s, t) /\ t.view = s.view
    /\ t.is_network_enabled = s.is_network_enabled
    /\ t.listen_targets = s.listen_targets
    /\ t.aggregator = s.aggregator /\ t.state = s.state
    /\ t.close_count = s.close_count /\ t.tokens = s.tokens
    /\ t.idleness_timer = s.idleness_timer /\ t.failed = s.failed
    /\ t.up = Tail(s.up) /\ t.down = q /\ t.watched = W

LEMMA Serves ==
  ASSUME NEW s \in RemoteStore, s.up # <<>>, NEW q \in Seq(Messages), NEW W \in SUBSET Docs
  PROVE  \E t : ServeWritten(s, W, q, t) /\ ServeKept(s, W, q, t)
<1>1. PICK z : z = Tail(s.up)
  OBVIOUS
<1>2. z \in Seq(Requests)
  <2>1. s.up \in Seq(Requests)
    BY DEF RemoteStore
  <2> QED
    BY <1>1, <2>1
<1>3. PICK t : t = [s EXCEPT !.up = z, !.watched = W, !.down = q]
  OBVIOUS
<1>4. t \in RemoteStore
  BY <1>2, <1>3 DEF RemoteStore
<1>5. ServeWritten(s, W, q, t)
  BY <1>1, <1>3 DEF RemoteStore, ServeWritten
<1>6. /\ SameTracker(s, t) /\ t.view = s.view
      /\ t.is_network_enabled = s.is_network_enabled /\ t.listen_targets = s.listen_targets
      /\ t.aggregator = s.aggregator /\ t.state = s.state
      /\ t.close_count = s.close_count /\ t.tokens = s.tokens
      /\ t.idleness_timer = s.idleness_timer /\ t.failed = s.failed
      /\ t.up = z /\ t.down = q /\ t.watched = W
  BY <1>3 DEF RemoteStore, SameTracker
<1> QED
  BY <1>1, <1>4, <1>5, <1>6 DEF ServeKept

\* The request to watch, or to stop watching, is served by the reply p.
Rewatched(s) == IF Head(s.up).watch THEN s.watched \cup {Head(s.up).doc}
                                    ELSE s.watched \ {Head(s.up).doc}
ServedBy(s, p, t) == ServeWritten(s, Rewatched(s), s.down \o p, t)

Replied(s, h, p, c, v) ==
    /\ c \in [Docs -> Nat] /\ v \in [Docs -> Nat]
    /\ Settled(s, c, v) /\ s.up # <<>> /\ h = Head(s.up)
    /\ Reply(h, p, c[h.doc], v[h.doc])

LEMMA ReplySettles ==
  ASSUME NEW s, NEW h, NEW p, NEW c, NEW v, Replied(s, h, p, c, v)
  PROVE  \E t : /\ ServedBy(s, p, t)
                /\ Settled(t, c, v) /\ t.view = s.view /\ t.listen_targets = s.listen_targets
<1>0. /\ c \in [Docs -> Nat] /\ v \in [Docs -> Nat]
      /\ Settled(s, c, v) /\ s.up # <<>> /\ h = Head(s.up)
      /\ Reply(h, p, c[h.doc], v[h.doc])
  BY DEF Replied
<1>1. s \in RemoteStore
  BY <1>0 DEF Settled, Calm
<1>2. PICK d : h = Head(s.up) /\ d = Head(s.up).doc
  BY <1>0
<1>3. /\ s.up \in Seq(Requests) /\ s.down \in Seq(Messages) /\ s.watched \subseteq Docs
  BY <1>1 DEF RemoteStore
<1>4. d \in Docs
  <2>1. h \in Requests
    BY <1>0, <1>2, <1>3
  <2> QED
    BY <1>2, <2>1 DEF Requests
<1>5. p \in Seq(Messages)
  BY <1>0 DEF Reply
<1>6. PICK q : q = s.down \o p
  OBVIOUS
<1>7. q \in Seq(Messages)
  BY <1>3, <1>5, <1>6
<1>7a. PICK W : W = Rewatched(s)
  OBVIOUS
<1>8. W \in SUBSET Docs
  BY <1>2, <1>3, <1>4, <1>7a DEF Rewatched
<1>9. PICK t : ServeWritten(s, W, q, t) /\ ServeKept(s, W, q, t)
  BY <1>0, <1>1, <1>7, <1>8, Serves
<1>10. /\ \A e \in Docs : e # d => (e \in W <=> e \in s.watched)
       /\ h.watch => d \in W
  BY <1>2, <1>7a DEF Rewatched
<1>11. Served(s, t, p)
  BY <1>2, <1>6, <1>9, <1>10 DEF Served, ServeKept
<1>12. Settled(t, c, v)
  BY <1>0, <1>2, <1>11, ServedSettles
<1> QED
  BY <1>6, <1>7a, <1>9, <1>12 DEF ServeKept, ServedBy

LEMMA ServeSettles ==
  ASSUME ReadTypes, Settled(remote, cache, since), SinceServed, Serve
  PROVE  /\ Settled(remote', cache, since)
         /\ remote'.listen_targets = remote.listen_targets
<1>1. /\ cache \in [Docs -> Nat] /\ server \in [Docs -> Nat] /\ since \in [Docs -> Nat]
      /\ remote \in RemoteStore /\ remote.up # <<>>
  BY DEF ReadTypes, Serve
<1>2. /\ remote.up \in Seq(Requests) /\ remote.down \in Seq(Messages)
      /\ remote.watched \subseteq Docs
  BY <1>1 DEF RemoteStore
<1>3. PICK h, d, D : h = Head(remote.up) /\ d = h.doc /\ D = remote.down
  OBVIOUS
<1>4. h \in Requests
  BY <1>1, <1>2, <1>3
<1>5. d \in Docs /\ h.known \in Nat /\ D \in Seq(Messages)
  BY <1>2, <1>3, <1>4 DEF Requests
<1>6. h.known <= cache[d]
  <2>1. 1 \in 1..Len(remote.up) /\ remote.up[1] = h
    BY <1>1, <1>2, <1>3
  <2> QED
    BY <1>3, <2>1 DEF Settled, Known
<1>7. PICK x, c, v : x = server[d] /\ c = cache[d] /\ v = since[d]
  OBVIOUS
<1>8. x \in Nat /\ c \in Nat /\ v \in Nat /\ x >= v
  BY <1>1, <1>5, <1>7 DEF SinceServed
<1>9. PICK m1, m2, m3, m4 : /\ m1 = Message("added", d) /\ m2 = Document(d, x)
                            /\ m3 = Message("current", d) /\ m4 = Message("removed", d)
  OBVIOUS
<1>10. /\ m1 \in Messages /\ m2 \in Messages /\ m3 \in Messages /\ m4 \in Messages
       /\ Snapshot \in Messages
  BY <1>5, <1>8, <1>9, SentIs
<1>11. PICK told : told = [remote EXCEPT !.up = Tail(@)]
  OBVIOUS
<1>12. told.watched = remote.watched /\ told.down = D
  BY <1>1, <1>3, <1>11 DEF RemoteStore
<1>13. ASSUME NEW p, Reply(h, p, c, v),
              remote' = [told EXCEPT !.watched = IF h.watch THEN remote.watched \cup {d}
                                                           ELSE remote.watched \ {d},
                                     !.down = D \o p]
       PROVE  /\ Settled(remote', cache, since)
              /\ remote'.listen_targets = remote.listen_targets
  <2>1. Reply(h, p, cache[h.doc], since[h.doc])
    BY <1>3, <1>7, <1>13, Zenon
  <2>1a. Replied(remote, h, p, cache, since)
    BY <1>1, <1>3, <2>1 DEF Replied
  <2>2. PICK t : /\ ServedBy(remote, p, t)
                 /\ Settled(t, cache, since) /\ t.view = remote.view
                 /\ t.listen_targets = remote.listen_targets
    BY <2>1a, ReplySettles
  <2>3. remote' = t
    BY <1>3, <1>11, <1>13, <2>2 DEF ServedBy, ServeWritten, Rewatched
  <2> QED
    BY <2>2, <2>3
<1>14. CASE ~h.watch
  <2>1. PICK p : p = <<m4>> /\ Reply(h, p, c, v)
    BY <1>3, <1>4, <1>9, <1>14, RemovedReplies
  <2>2. remote' = [told EXCEPT !.watched = @ \ {d}, !.down = Append(@, m4)]
    BY <1>3, <1>9, <1>11, <1>14 DEF Serve
  <2>3. remote' = [told EXCEPT !.watched = remote.watched \ {d}, !.down = Append(D, m4)]
    BY <1>12, <2>2
  <2>4. Append(D, m4) = D \o p
    BY <1>5, <1>10, <2>1, AppendIsConcat
  <2>5. remote' = [told EXCEPT !.watched = IF h.watch THEN remote.watched \cup {d}
                                                      ELSE remote.watched \ {d},
                               !.down = D \o p]
    BY <1>14, <2>3, <2>4
  <2> QED
    BY <1>13, <2>1, <2>5
<1>15. CASE h.watch
  <2>1. PICK docs :
           /\ docs = <<m2>> \/ (docs = <<>> /\ (x = 0 \/ x = h.known))
           /\ remote' = [told EXCEPT !.watched = @ \cup {d},
                                     !.down = @ \o <<m1>> \o docs \o <<m3, Snapshot>>]
    BY <1>3, <1>7, <1>9, <1>11, <1>15 DEF Serve
  <2>2. \E p : Reply(h, p, c, v) /\ ((D \o <<m1>>) \o docs) \o <<m3, Snapshot>> = D \o p
    <3>1. CASE docs = <<m2>>
      <4>1. PICK p : p = <<m1, m2, m3, Snapshot>> /\ Reply(h, p, c, v)
        BY <1>3, <1>4, <1>8, <1>9, <1>15, AddedReplies
      <4>2. Joins(D, m1, <<m2>>, m3, Snapshot, <<m1, m2, m3, Snapshot>>)
        BY <1>5, <1>10, JoinedOneByOne
      <4> QED
        BY <3>1, <4>1, <4>2, Zenon DEF Joins
    <3>2. CASE docs = <<>> /\ (x = 0 \/ x = h.known)
      <4>1. c >= v
        BY <1>5, <1>6, <1>7, <1>8, <3>2
      <4>2. PICK p : p = <<m1, m3, Snapshot>> /\ Reply(h, p, c, v)
        BY <1>3, <1>4, <1>8, <1>9, <1>15, <4>1, KnownReplies
      <4>3. Joins(D, m1, <<>>, m3, Snapshot, <<m1, m3, Snapshot>>)
        BY <1>5, <1>10, JoinedOneByOne
      <4> QED
        BY <3>2, <4>2, <4>3, Zenon DEF Joins
    <3> QED
      BY <2>1, <3>1, <3>2
  <2>3. PICK p : Reply(h, p, c, v) /\ ((D \o <<m1>>) \o docs) \o <<m3, Snapshot>> = D \o p
    BY <2>2
  <2>4. remote' = [told EXCEPT !.watched = remote.watched \cup {d},
                               !.down = ((D \o <<m1>>) \o docs) \o <<m3, Snapshot>>]
    BY <1>12, <2>1
  <2>5. remote' = [told EXCEPT !.watched = IF h.watch THEN remote.watched \cup {d}
                                                      ELSE remote.watched \ {d},
                               !.down = D \o p]
    BY <1>15, <2>3, <2>4
  <2> QED
    BY <1>13, <2>3, <2>5
<1> QED
  BY <1>14, <1>15

\* Messages p that the server sends of its own accord: no answers, no old documents.
Pushed(s, p, v) ==
    /\ s.state = "Open" /\ p \in Seq(Messages)
    /\ \A e \in Docs : /\ Behind(p, e, 1)
                       /\ \A i \in 1..Len(p) : IsDocument(p[i], e) => p[i].version >= v[e]

PushWritten(s, p, t) == t = [s EXCEPT !.down = @ \o p]

LEMMA PushSettles ==
  ASSUME NEW s, NEW p, NEW c, NEW v, Settled(s, c, v), Pushed(s, p, v)
  PROVE  \E t : /\ PushWritten(s, p, t) /\ Settled(t, c, v) /\ t.view = s.view
                /\ t.listen_targets = s.listen_targets
<1>0. /\ s.is_network_enabled /\ Calm(s) /\ Counted(s) /\ AllWanted(s)
      /\ AllCurrent(s, c, v) /\ Known(s, c) /\ ViewsFresh(s, c, v)
  BY DEF Settled
<1>1. /\ s \in RemoteStore /\ s.state = "Open" /\ s.up \in Seq(Requests)
      /\ s.down \in Seq(Messages) /\ s.listen_targets \subseteq Docs
  BY <1>0 DEF Calm, RemoteStore, Pushed
<1>2. /\ p \in Seq(Messages)
      /\ \A e \in Docs : /\ Behind(p, e, 1)
                         /\ \A i \in 1..Len(p) : IsDocument(p[i], e) => p[i].version >= v[e]
  BY DEF Pushed
<1>3. PICK q : q = s.down \o p
  OBVIOUS
<1>4. q \in Seq(Messages)
  BY <1>1, <1>2, <1>3
<1>5. PICK t : t = [s EXCEPT !.down = q]
  OBVIOUS
<1>6. t \in RemoteStore
  BY <1>1, <1>4, <1>5 DEF RemoteStore
<1>7. /\ SameTracker(s, t) /\ SameTargets(s, t) /\ t.view = s.view /\ t.state = s.state
      /\ t.close_count = s.close_count /\ t.tokens = s.tokens
      /\ t.idleness_timer = s.idleness_timer /\ t.failed = s.failed
      /\ t.up = s.up /\ t.down = q
  BY <1>1, <1>5 DEF RemoteStore, SameTracker, SameTargets
<1>8. PushWritten(s, p, t)
  BY <1>3, <1>5 DEF PushWritten
<1>9. Calm(t)
  <2>1. TokensCurrent(t) /\ Tracker(t)
    BY <1>0, <1>7 DEF Calm, TokensCurrent, Tracker, SameTracker, IsStarted
  <2> QED
    BY <1>0, <1>1, <1>6, <1>7, <2>1 DEF Calm, SameTargets
<1>10. \A e : Asked(t, e) = Asked(s, e)
  BY <1>7 DEF Asked
<1>11. Counted(t)
  <2> SUFFICES ASSUME NEW e \in Docs
               PROVE  t.aggregator.targets[e].outstanding
                        = Cardinality(Asked(t, e)) + Cardinality(Told(t, e))
    BY DEF Counted
  <2>1. Cardinality(Places(s.down \o p, AnswersFor(e)))
          = Cardinality(Places(s.down, AnswersFor(e))) + Cardinality(Places(p, AnswersFor(e)))
    BY <1>1, <1>2, PlacesJoined
  <2>2. Places(p, AnswersFor(e)) = {}
    BY <1>2 DEF Places, Behind
  <2>3. Cardinality(Places(p, AnswersFor(e))) = 0
    BY <2>2, FS_EmptySet
  <2>4. Cardinality(Told(s, e)) \in Nat
    BY <1>1, PlacesFinite DEF Told
  <2>5. Cardinality(Told(t, e)) = Cardinality(Told(s, e))
    BY <1>3, <1>7, <2>1, <2>3, <2>4 DEF Told
  <2>6. t.aggregator.targets[e].outstanding = s.aggregator.targets[e].outstanding
    BY <1>7 DEF SameTargets
  <2>7. s.aggregator.targets[e].outstanding
          = Cardinality(Asked(s, e)) + Cardinality(Told(s, e))
    BY <1>0 DEF Counted
  <2> QED
    BY <1>10, <2>5, <2>6, <2>7
<1>12. AllWanted(t)
  BY <1>0, <1>1, <1>7, <1>10 DEF AllWanted, Wanted, IsOpen, SameTargets
<1>13. AllCurrent(t, c, v)
  <2> SUFFICES ASSUME NEW e \in t.listen_targets, Asked(t, e) = {}
               PROVE  Current(t.down, e, t.aggregator.updates[e], c[e], v[e])
    BY DEF AllCurrent
  <2>1. e \in s.listen_targets /\ e \in Docs /\ Asked(s, e) = {} /\ IsOpen(s)
    BY <1>1, <1>7, <1>10 DEF SameTargets, IsOpen
  <2>2. PICK x : x = s.aggregator.updates[e]
    OBVIOUS
  <2>3. Current(s.down, e, x, c[e], v[e])
    BY <1>0, <2>1, <2>2 DEF AllCurrent
  <2>4. /\ Behind(p, e, 1)
        /\ \A i \in 1..Len(p) : IsDocument(p[i], e) => p[i].version >= v[e]
    BY <1>2, <2>1
  <2>5. Current(s.down \o p, e, x, c[e], v[e])
    BY <1>1, <1>2, <2>3, <2>4, CurrentJoined
  <2> QED
    BY <1>3, <1>7, <2>2, <2>5 DEF SameTargets
<1>14. Known(t, c) /\ ViewsFresh(t, c, v)
  BY <1>0, <1>7 DEF Known, ViewsFresh
<1>15. t.is_network_enabled
  BY <1>0, <1>7 DEF SameTargets
<1> QED
  BY <1>7, <1>8, <1>9, <1>11, <1>12, <1>13, <1>14, <1>15 DEF Settled, SameTargets

\* Somebody writes the document: a client that watches it hears of it.
LEMMA UpdateSettles ==
  ASSUME ReadTypes, Settled(remote, cache, since), SinceServed, NEW d \in Docs, Update(d)
  PROVE  /\ Settled(remote', cache, since)
         /\ remote'.listen_targets = remote.listen_targets
         /\ server' \in [Docs -> Nat] /\ \A e \in Docs : since[e] <= server'[e]
<1>1. server \in [Docs -> Nat] /\ since \in [Docs -> Nat] /\ Calm(remote)
  BY DEF ReadTypes, Settled
<1>2. PICK x : x = server[d] + 1
  OBVIOUS
<1>3. server' = [server EXCEPT ![d] = x]
  BY <1>2 DEF Update
<1>4. server[d] \in Nat /\ since[d] \in Nat /\ since[d] <= server[d]
  BY <1>1 DEF SinceServed
<1>5. x \in Nat /\ x >= since[d] /\ since[d] <= x
  BY <1>2, <1>4
<1>6. server' \in [Docs -> Nat] /\ server'[d] = x
  BY <1>1, <1>3, <1>5
<1>7. \A e \in Docs : since[e] <= server'[e]
  BY <1>1, <1>3, <1>5, <1>6 DEF SinceServed
<1>8. CASE d \notin remote.watched
  BY <1>6, <1>7, <1>8 DEF Update
<1>9. CASE d \in remote.watched
  <2>1. PICK m, p : m = Document(d, x) /\ p = <<m, Snapshot>>
    OBVIOUS
  <2>2. /\ m \in Messages /\ m.kind = "document" /\ m.version = x
        /\ Snapshot \in Messages /\ Snapshot.kind = "snapshot" /\ IsDocument(m, d)
    BY <1>5, <2>1, SentIs
  <2>3. p \in Seq(Messages) /\ Len(p) = 2 /\ p[1] = m /\ p[2] = Snapshot
    BY <2>1, <2>2
  <2>4. \A i \in 1..Len(p) : i = 1 \/ i = 2
    BY <2>3
  <2>5. remote.state = "Open"
    BY <1>1, <1>9 DEF Calm, Down
  <2>6. /\ \A e : m \notin AnswersFor(e) /\ Snapshot \notin AnswersFor(e)
        /\ \A e : ~IsDocument(Snapshot, e)
        /\ \A e : IsDocument(m, e) => e = d
    <3>1. \A e : IsDocument(m, e) => e = d
      BY <2>2 DEF IsDocument
    <3> QED
      BY <2>2, <3>1, Kinds
  <2>7. \A e \in Docs : Behind(p, e, 1)
    BY <2>3, <2>4, <2>6 DEF Behind
  <2>8. \A e \in Docs : \A i \in 1..Len(p) : IsDocument(p[i], e) => p[i].version >= since[e]
    BY <1>5, <2>2, <2>3, <2>4, <2>6
  <2>9. Pushed(remote, p, since)
    BY <2>3, <2>5, <2>7, <2>8 DEF Pushed
  <2>10. PICK t : /\ PushWritten(remote, p, t) /\ Settled(t, cache, since)
                  /\ t.view = remote.view /\ t.listen_targets = remote.listen_targets
    BY <2>9, PushSettles
  <2>11. remote' = t
    BY <1>6, <1>9, <2>1, <2>10 DEF Update, PushWritten
  <2> QED
    BY <1>6, <1>7, <2>10, <2>11
<1> QED
  BY <1>8, <1>9

(***************************************************************************)
(* What the listeners hear                                                 *)
(***************************************************************************)
\* An event is appended to those on their way.
LEMMA EventAppended ==
  ASSUME NEW q \in Seq(Events), NEW e \in Events, NEW v,
         \A i \in 1..Len(q) : FreshFor(q[i], v), FreshFor(e, v)
  PROVE  /\ Append(q, e) \in Seq(Events)
         /\ \A i \in 1..Len(Append(q, e)) : FreshFor(Append(q, e)[i], v)
<1>1. PICK r : r = Append(q, e)
  OBVIOUS
<1>2. PICK n : n = Len(q)
  OBVIOUS
<1>3. /\ n \in Nat /\ r \in Seq(Events) /\ Len(r) = n + 1 /\ r[n + 1] = e
      /\ \A i \in 1..n : r[i] = q[i]
  BY <1>1, <1>2
<1>4. \A i \in 1..Len(r) : i \in 1..n \/ i = n + 1
  BY <1>3
<1>5. \A i \in 1..Len(r) : FreshFor(r[i], v)
  BY <1>2, <1>3, <1>4
<1> QED
  BY <1>1, <1>3, <1>5

\* Listeners ls read the documents they listen to, since w.
Listens(ls, fl, w) == \A d \in Docs : \A r \in ls[d] : reading[r] = d /\ fl[r] = w[d]

\* OnViewSnapshot, OnOnlineStateChanged: what a view that is current shows is not older
\* than the listen, and who does not listen hears nothing.
LEMMA NotifyFresh ==
  ASSUME ReadTypes, NEW s, NEW c \in [Docs -> Nat], NEW w, NEW ls \in [Docs -> SUBSET Reads],
         NEW fl, ViewsFresh(s, c, w), Listens(ls, fl, w), Notify(s, c, ls),
         \A r \in Reads : \A i \in 1..Len(events[r]) : FreshFor(events[r][i], fl[r])
  PROVE  /\ raised' \subseteq Reads /\ events' \in [Reads -> Seq(Events)]
         /\ \A r \in Reads : \A i \in 1..Len(events'[r]) : FreshFor(events'[r][i], fl[r])
         /\ \A r \in Reads : (\A d \in Docs : r \notin ls[d]) => events'[r] = events[r]
         /\ \A r \in Reads : events'[r] = events[r] \/ reading[r] # None
<1> DEFINE L == UNION {ls[d] : d \in Docs}
           I == {r \in L \ raised : ShouldRaiseInitialEvent(s, reading[r])}
           N == {r \in L \cap raised :
                   \/ c[reading[r]] # cache[reading[r]]
                   \/ (reading[r] \in s.view) # (reading[r] \in remote.view)}
           E == [r \in Reads |->
                   IF r \in I \cup N
                     THEN Append(events[r], [version |-> c[reading[r]],
                                             from_cache |-> reading[r] \notin s.view])
                     ELSE events[r]]
<1>1. raised' = raised \cup I /\ events' = E
  BY DEF Notify
<1>2. \A r : r \in L <=> \E d \in Docs : r \in ls[d]
  OBVIOUS
<1>3. L \subseteq Reads
  BY <1>2
<1>4. I \subseteq L /\ N \subseteq L
  OBVIOUS
<1>4a. events' = [r \in Reads |->
                   IF r \in I \cup N
                     THEN Append(events[r], [version |-> c[reading[r]],
                                             from_cache |-> reading[r] \notin s.view])
                     ELSE events[r]]
  BY <1>1
<1> HIDE DEF L, I, N, E
<1>5. raised' \subseteq Reads
  BY <1>1, <1>3, <1>4 DEF ReadTypes
<1>6. ASSUME NEW r \in Reads
      PROVE  /\ events'[r] \in Seq(Events)
             /\ \A i \in 1..Len(events'[r]) : FreshFor(events'[r][i], fl[r])
             /\ (\A d \in Docs : r \notin ls[d]) => events'[r] = events[r]
             /\ events'[r] = events[r] \/ reading[r] # None
  <2>1. events[r] \in Seq(Events)
    BY DEF ReadTypes
  <2>2. CASE r \notin I \cup N
    BY <1>4a, <2>1, <2>2
  <2>3. CASE r \in I \cup N
    <3>1. PICK d \in Docs : r \in ls[d]
      BY <1>2, <1>4, <2>3
    <3>2. reading[r] = d /\ fl[r] = w[d] /\ reading[r] # None
      BY <3>1, DocsAssumption DEF Listens
    <3>3. PICK e : e = [version |-> c[d], from_cache |-> d \notin s.view]
      OBVIOUS
    <3>4. e \in Events /\ e.version = c[d] /\ (e.from_cache <=> d \notin s.view)
      <4>1. c[d] \in Nat
        OBVIOUS
      <4> QED
        BY <3>3, <4>1 DEF Events
    <3>5. FreshFor(e, fl[r])
      BY <3>2, <3>4 DEF FreshFor, ViewsFresh
    <3>6. events'[r] = Append(events[r], e)
      BY <1>4a, <2>3, <3>2, <3>3
    <3>7. /\ Append(events[r], e) \in Seq(Events)
          /\ \A i \in 1..Len(Append(events[r], e)) : FreshFor(Append(events[r], e)[i], fl[r])
      BY <2>1, <3>4, <3>5, EventAppended
    <3> QED
      BY <3>1, <3>2, <3>6, <3>7
  <2> QED
    BY <2>2, <2>3
<1>7. events' \in [Reads -> Seq(Events)]
  BY <1>4a, <1>6
<1> QED
  BY <1>5, <1>6, <1>7

\* A step of the worker queue that leaves the listeners alone.
LEMMA StepKeeps ==
  ASSUME ReadInv, NEW s, NEW c \in [Docs -> Nat], Settled(s, c, since),
         s.listen_targets = remote.listen_targets, Step(s, c), Kept, server' = server
  PROVE  ReadInv'
<1>0. /\ ReadTypes /\ Settled(remote, cache, since)
      /\ Listening /\ ListenersRead /\ SinceServed /\ Enqueued /\ Heard /\ Once
  BY DEF ReadInv
<1>1. /\ remote' = s /\ cache' = c /\ Notify(s, c, listeners)
      /\ UNCHANGED <<reading, muted, answers, worker, listeners, since, floor, server>>
  BY DEF Step, Kept
<1>2. /\ raised' \subseteq Reads /\ events' \in [Reads -> Seq(Events)]
      /\ \A r \in Reads : \A i \in 1..Len(events'[r]) : FreshFor(events'[r][i], floor[r])
      /\ \A r \in Reads : (\A d \in Docs : r \notin listeners[d]) => events'[r] = events[r]
      /\ \A r \in Reads : events'[r] = events[r] \/ reading[r] # None
  <2>1. listeners \in [Docs -> SUBSET Reads]
    BY <1>0 DEF ReadTypes
  <2>2. ViewsFresh(s, c, since)
    BY DEF Settled
  <2>3. Listens(listeners, floor, since)
    BY <1>0 DEF ListenersRead, Listens
  <2>4. \A r \in Reads : \A i \in 1..Len(events[r]) : FreshFor(events[r][i], floor[r])
    BY <1>0 DEF Heard
  <2> QED
    BY <1>0, <1>1, <2>1, <2>2, <2>3, <2>4, NotifyFresh
<1>3. ReadTypes'
  <2>1. s \in RemoteStore
    BY DEF Settled, Calm
  <2> QED
    BY <1>0, <1>1, <1>2, <2>1 DEF ReadTypes
<1>4. Settled(remote, cache, since)'
  BY <1>1
<1>5. Listening' /\ ListenersRead' /\ SinceServed' /\ Once'
  BY <1>0, <1>1 DEF Listening, ListenersRead, SinceServed, Once
<1>6. Enqueued'
  <2>1. \A i \in 1..Len(worker) : worker[i].read \in Reads
    <3>1. \A i \in 1..Len(worker) : worker[i] \in Operations
      BY <1>0 DEF ReadTypes
    <3> QED
      BY <3>1 DEF Operations
  <2>2. \A r \in Reads : Unheard(r) => Unheard(r)'
    BY <1>1, <1>2 DEF Unheard
  <2> QED
    BY <1>0, <1>1, <2>1, <2>2 DEF Enqueued
<1>7. Heard'
  BY <1>0, <1>1, <1>2 DEF Heard
<1> QED
  BY <1>3, <1>4, <1>5, <1>6, <1>7 DEF ReadInv

(***************************************************************************)
(* The main thread                                                         *)
(***************************************************************************)
\* An operation is enqueued on the worker.
AppendsOperation(q, a, r, p, n) ==
    /\ p = Append(q, [add |-> a, read |-> r]) /\ n = Len(q) /\ n \in Nat
    /\ p \in Seq(Operations) /\ Len(p) = n + 1
    /\ \A i \in 1..n : p[i] = q[i] /\ q[i] \in Operations
    /\ p[n + 1].read = r /\ (p[n + 1].add <=> a)
    /\ \A i \in 1..(n + 1) : i \in 1..n \/ i = n + 1

LEMMA OperationEnqueued ==
  ASSUME NEW q \in Seq(Operations), NEW a \in BOOLEAN, NEW r \in Reads
  PROVE  \E p, n : AppendsOperation(q, a, r, p, n)
<1>1. PICK o : o = [add |-> a, read |-> r]
  OBVIOUS
<1>2. o \in Operations /\ o.read = r /\ o.add = a
  BY <1>1 DEF Operations
<1>3. PICK p, n : p = Append(q, o) /\ n = Len(q)
  OBVIOUS
<1>4. /\ n \in Nat /\ p \in Seq(Operations) /\ Len(p) = n + 1 /\ p[n + 1] = o
      /\ \A i \in 1..n : p[i] = q[i] /\ q[i] \in Operations
  BY <1>2, <1>3
<1>5. \A i \in 1..(n + 1) : i \in 1..n \/ i = n + 1
  BY <1>4
<1> QED
  BY <1>1, <1>2, <1>3, <1>4, <1>5 DEF AppendsOperation

\* DocumentReference::GetDocument.
LEMMA GetDocumentKeeps ==
  ASSUME ReadInv, NEW r \in Reads, NEW d \in Docs, GetDocument(r, d)
  PROVE  ReadInv'
<1>0. /\ ReadTypes /\ Settled(remote, cache, since)
      /\ Listening /\ ListenersRead /\ SinceServed /\ Enqueued /\ Heard /\ Once
  BY DEF ReadInv
<1>1. /\ reading[r] = None /\ reading' = [reading EXCEPT ![r] = d]
      /\ worker' = Append(worker, [add |-> TRUE, read |-> r])
      /\ UNCHANGED <<events, muted, answers, listeners, raised, cache, remote, server,
                     since, floor>>
  BY DEF GetDocument
<1>2. worker \in Seq(Operations) /\ reading \in [Reads -> Docs \cup {None}]
  BY <1>0 DEF ReadTypes
<1>3a. PICK p, n : AppendsOperation(worker, TRUE, r, p, n)
  BY <1>2, OperationEnqueued
<1>3. /\ p = Append(worker, [add |-> TRUE, read |-> r]) /\ n = Len(worker)
      /\ n \in Nat /\ p \in Seq(Operations) /\ Len(p) = n + 1
      /\ \A i \in 1..n : p[i] = worker[i] /\ worker[i] \in Operations
      /\ p[n + 1].read = r /\ (p[n + 1].add <=> TRUE)
      /\ \A i \in 1..(n + 1) : i \in 1..n \/ i = n + 1
  BY <1>3a DEF AppendsOperation
<1>4. worker' = p
  BY <1>1, <1>3
<1>5. reading' \in [Reads -> Docs \cup {None}]
  BY <1>1, <1>2
<1>6. \A x \in Reads : reading[x] # None => x # r /\ reading'[x] = reading[x]
  BY <1>1, <1>2
<1>7. reading'[r] # None
  BY <1>1, <1>2, DocsAssumption
<1>8. \A e \in Docs : r \notin listeners[e]
  BY <1>0, <1>1, DocsAssumption DEF ListenersRead
<1>9. Unheard(r)
  BY <1>0, <1>1, <1>8 DEF Unheard, Heard
<1>10. \A x : Unheard(x) => Unheard(x)'
  BY <1>1 DEF Unheard
<1>11. ReadTypes'
  BY <1>0, <1>1, <1>3, <1>4, <1>5 DEF ReadTypes
<1>12. Settled(remote, cache, since)' /\ Listening' /\ SinceServed' /\ Once'
  BY <1>0, <1>1 DEF Listening, SinceServed, Once
<1>13. ListenersRead'
  <2> SUFFICES ASSUME NEW e \in Docs, NEW x \in listeners[e]
               PROVE  reading'[x] = e /\ floor[x] = since[e]
    BY <1>1 DEF ListenersRead
  <2>1. x \in Reads /\ reading[x] = e /\ floor[x] = since[e] /\ e # None
    BY <1>0, DocsAssumption DEF ListenersRead, ReadTypes
  <2> QED
    BY <1>6, <2>1
<1>14. Enqueued'
  <2>1. \A i \in 1..n : /\ worker[i].read \in Reads /\ reading[worker[i].read] # None
                        /\ worker[i].read # r
                        /\ worker[i].add => Unheard(worker[i].read)
    <3>1. \A i \in 1..n : worker[i].read \in Reads /\ reading[worker[i].read] # None
      BY <1>0, <1>3 DEF Enqueued, Operations
    <3> QED
      BY <1>0, <1>1, <1>3, <3>1 DEF Enqueued
  <2>2. ASSUME NEW i \in 1..(n + 1)
        PROVE  reading'[p[i].read] # None /\ (p[i].add => Unheard(p[i].read)')
    BY <1>3, <1>6, <1>7, <1>9, <1>10, <2>1
  <2>3. ASSUME NEW i \in 1..(n + 1), NEW j \in 1..(n + 1), i # j, p[i].add, p[j].add
        PROVE  p[i].read # p[j].read
    <3>1. CASE i \in 1..n /\ j \in 1..n
      BY <1>0, <1>3, <2>3, <3>1 DEF Enqueued
    <3>2. CASE i = n + 1 /\ j \in 1..n
      BY <1>3, <2>1, <3>2
    <3>3. CASE i \in 1..n /\ j = n + 1
      BY <1>3, <2>1, <3>3
    <3> QED
      BY <1>3, <2>3, <3>1, <3>2, <3>3
  <2> QED
    BY <1>3, <1>4, <2>2, <2>3 DEF Enqueued
<1>15. Heard'
  BY <1>0, <1>1, <1>6 DEF Heard
<1> QED
  BY <1>11, <1>12, <1>13, <1>14, <1>15 DEF ReadInv

\* An event is taken off those on their way.
LEMMA EventTaken ==
  ASSUME NEW q \in Seq(Events), q # <<>>, NEW v, \A i \in 1..Len(q) : FreshFor(q[i], v)
  PROVE  /\ Tail(q) \in Seq(Events) /\ Head(q) \in Events /\ FreshFor(Head(q), v)
         /\ \A i \in 1..Len(Tail(q)) : FreshFor(Tail(q)[i], v)
<1>1. PICK t, n : t = Tail(q) /\ n = Len(Tail(q))
  OBVIOUS
<1>2. /\ n \in Nat /\ Len(q) = n + 1 /\ t \in Seq(Events) /\ Head(q) = q[1] /\ q[1] \in Events
      /\ \A i \in 1..n : t[i] = q[i + 1]
  BY <1>1
<1>3. \A i \in 1..n : i + 1 \in 1..Len(q)
  BY <1>2
<1>4. 1 \in 1..Len(q)
  BY <1>2
<1> QED
  BY <1>1, <1>2, <1>3, <1>4

\* AsyncEventListener, ListenOnce.
LEMMA OnEventKeeps ==
  ASSUME ReadInv, NEW r \in Reads, OnEvent(r)
  PROVE  ReadInv'
<1>0. /\ ReadTypes /\ Settled(remote, cache, since)
      /\ Listening /\ ListenersRead /\ SinceServed /\ Enqueued /\ Heard /\ Once
  BY DEF ReadInv
<1>1. /\ events[r] # <<>> /\ events' = [events EXCEPT ![r] = Tail(@)]
      /\ UNCHANGED <<reading, listeners, raised, cache, remote, server, since, floor>>
  BY DEF OnEvent
<1>2. /\ events \in [Reads -> Seq(Events)] /\ answers \in [Reads -> Seq(Events)]
      /\ worker \in Seq(Operations) /\ muted \subseteq Reads
  BY <1>0 DEF ReadTypes
<1>3. PICK t, e : t = Tail(events[r]) /\ e = Head(events[r])
  OBVIOUS
<1>4. /\ t \in Seq(Events) /\ e \in Events /\ FreshFor(e, floor[r])
      /\ \A i \in 1..Len(t) : FreshFor(t[i], floor[r])
  <2>1. events[r] \in Seq(Events) /\ \A i \in 1..Len(events[r]) : FreshFor(events[r][i], floor[r])
    BY <1>0, <1>2 DEF Heard
  <2> QED
    BY <1>1, <1>3, <2>1, EventTaken
<1>5. /\ events' \in [Reads -> Seq(Events)] /\ events'[r] = t
      /\ \A x \in Reads : x # r => events'[x] = events[x]
  BY <1>1, <1>2, <1>3, <1>4
<1>6. reading[r] # None
  BY <1>0, <1>1 DEF Heard
<1>7. Settled(remote, cache, since)' /\ Listening' /\ ListenersRead' /\ SinceServed'
  BY <1>0, <1>1 DEF Listening, ListenersRead, SinceServed
<1>8. \A i \in 1..Len(worker) : worker[i].read \in Reads
  <2>1. \A i \in 1..Len(worker) : worker[i] \in Operations
    BY <1>2
  <2> QED
    BY <2>1 DEF Operations
<1>9. CASE r \in muted
  <2>1. UNCHANGED <<worker, muted, answers>>
    BY <1>9 DEF OnEvent
  <2>2. ReadTypes'
    BY <1>0, <1>1, <1>5, <2>1 DEF ReadTypes
  <2>3. Once'
    BY <1>0, <2>1 DEF Once
  <2>4. Heard'
    BY <1>0, <1>1, <1>4, <1>5, <1>6, <2>1 DEF Heard
  <2>5. \A x \in Reads : Unheard(x) => Unheard(x)'
    BY <1>1, <1>5, <2>1 DEF Unheard
  <2>6. Enqueued'
    BY <1>0, <1>1, <1>8, <2>1, <2>5 DEF Enqueued
  <2> QED
    BY <1>7, <2>2, <2>3, <2>4, <2>6 DEF ReadInv
<1>10. CASE r \notin muted
  <2>1. /\ worker' = Append(worker, [add |-> FALSE, read |-> r]) /\ muted' = muted \cup {r}
        /\ answers' = [answers EXCEPT ![r] = Append(@, Head(events[r]))]
    BY <1>10 DEF OnEvent, RemoveListener
  <2>2. answers[r] = <<>>
    BY <1>0, <1>10 DEF Once
  <2>3. PICK a : a = Append(answers[r], e)
    OBVIOUS
  <2>4. a \in Seq(Events) /\ Len(a) = 1 /\ a[1] = e
    BY <1>4, <2>2, <2>3
  <2>5. /\ answers' \in [Reads -> Seq(Events)] /\ answers'[r] = a
        /\ \A x \in Reads : x # r => answers'[x] = answers[x]
    BY <1>2, <1>3, <2>1, <2>3, <2>4
  <2>6a. PICK p, n : AppendsOperation(worker, FALSE, r, p, n)
    BY <1>2, OperationEnqueued
  <2>6. /\ p = Append(worker, [add |-> FALSE, read |-> r]) /\ n = Len(worker)
        /\ n \in Nat /\ p \in Seq(Operations) /\ Len(p) = n + 1
        /\ \A i \in 1..n : p[i] = worker[i] /\ worker[i] \in Operations
        /\ p[n + 1].read = r /\ (p[n + 1].add <=> FALSE)
        /\ \A i \in 1..(n + 1) : i \in 1..n \/ i = n + 1
    BY <2>6a DEF AppendsOperation
  <2>7. worker' = p
    BY <2>1, <2>6
  <2>8. ReadTypes'
    BY <1>0, <1>1, <1>2, <1>5, <2>1, <2>5, <2>6, <2>7 DEF ReadTypes
  <2>9. Once'
    BY <1>0, <2>1, <2>4, <2>5 DEF Once
  <2>10. \A i \in 1..Len(a) : FreshFor(a[i], floor[r])
    <3>1. \A i \in 1..Len(a) : i = 1
      BY <2>4
    <3> QED
      BY <1>4, <2>4, <3>1
  <2>11. Heard'
    BY <1>0, <1>1, <1>4, <1>5, <1>6, <2>5, <2>10 DEF Heard
  <2>12. \A x \in Reads : Unheard(x) => Unheard(x)'
    BY <1>1, <1>5, <2>5 DEF Unheard
  <2>13. Enqueued'
    <3>1. ASSUME NEW i \in 1..(n + 1)
          PROVE  reading'[p[i].read] # None /\ (p[i].add => Unheard(p[i].read)')
      <4>1. CASE i \in 1..n
        BY <1>0, <1>1, <1>8, <2>6, <2>12, <4>1 DEF Enqueued
      <4>2. CASE i = n + 1
        BY <1>1, <1>6, <2>6, <4>2
      <4> QED
        BY <2>6, <4>1, <4>2
    <3>2. ASSUME NEW i \in 1..(n + 1), NEW j \in 1..(n + 1), i # j, p[i].add, p[j].add
          PROVE  p[i].read # p[j].read
      <4>1. i \in 1..n /\ j \in 1..n
        BY <2>6, <3>2
      <4> QED
        BY <1>0, <2>6, <3>2, <4>1 DEF Enqueued
    <3> QED
      BY <2>6, <2>7, <3>1, <3>2 DEF Enqueued
  <2> QED
    BY <1>7, <2>8, <2>9, <2>11, <2>13 DEF ReadInv
<1> QED
  BY <1>9, <1>10

(***************************************************************************)
(* The worker queue: what the main thread enqueued                         *)
(***************************************************************************)
\* The first operation of the worker, and those behind it.
TakesOperation(o, q, n) ==
    /\ o = Head(worker) /\ q = Tail(worker) /\ n = Len(Tail(worker))
    /\ o \in Operations /\ q \in Seq(Operations) /\ n \in Nat /\ o.read \in Reads
    /\ reading[o.read] \in Docs /\ (o.add => Unheard(o.read))
    /\ \A i \in 1..n : /\ q[i].read \in Reads /\ reading[q[i].read] # None
                       /\ q[i].add => Unheard(q[i].read)
                       /\ o.add /\ q[i].add => q[i].read # o.read
    /\ \A i, j \in 1..n : i # j /\ q[i].add /\ q[j].add => q[i].read # q[j].read

LEMMA OperationTaken ==
  ASSUME ReadTypes, Enqueued, worker # <<>>
  PROVE  \E o, q, n : TakesOperation(o, q, n)
<1>1. worker \in Seq(Operations) /\ reading \in [Reads -> Docs \cup {None}]
  BY DEF ReadTypes
<1>2. PICK o, q, n : o = Head(worker) /\ q = Tail(worker) /\ n = Len(Tail(worker))
  OBVIOUS
<1>3. /\ n \in Nat /\ Len(worker) = n + 1 /\ o = worker[1] /\ o \in Operations
      /\ q \in Seq(Operations) /\ \A i \in 1..n : q[i] = worker[i + 1]
  BY <1>1, <1>2
<1>4. /\ 1 \in 1..Len(worker) /\ \A i \in 1..n : i + 1 \in 1..Len(worker) /\ i + 1 # 1
      /\ \A i, j \in 1..n : i # j => i + 1 # j + 1
  BY <1>3
<1>5. o.read \in Reads /\ \A i \in 1..n : q[i].read \in Reads
  <2>1. \A i \in 1..n : q[i] \in Operations
    BY <1>1, <1>3, <1>4
  <2> QED
    BY <1>3, <2>1 DEF Operations
<1>6. reading[o.read] # None /\ (o.add => Unheard(o.read))
  BY <1>3, <1>4 DEF Enqueued
<1>7. reading[o.read] \in Docs
  BY <1>1, <1>5, <1>6
<1>8. \A i \in 1..n : /\ reading[q[i].read] # None /\ (q[i].add => Unheard(q[i].read))
                      /\ o.add /\ q[i].add => q[i].read # o.read
  BY <1>3, <1>4 DEF Enqueued
<1>9. \A i, j \in 1..n : i # j /\ q[i].add /\ q[j].add => q[i].read # q[j].read
  BY <1>3, <1>4 DEF Enqueued
<1>10. TakesOperation(o, q, n)
  BY <1>2, <1>3, <1>5, <1>6, <1>7, <1>8, <1>9 DEF TakesOperation
<1> QED
  BY <1>10

\* EventManager::AddQueryListener, up to what the listeners hear: the store t, the
\* versions w that were the server's when the documents were listened to.
NewSince(d, w) == w = IF listeners[d] = {} THEN [since EXCEPT ![d] = server[d]] ELSE since

LEMMA AddListens ==
  ASSUME ReadInv, NEW d \in Docs, NEW w, NewSince(d, w)
  PROVE  \E t : /\ t = (IF listeners[d] = {} THEN ListenTo(remote, d) ELSE remote)
                /\ Settled(t, cache, w) /\ w \in [Docs -> Nat]
                /\ t.listen_targets = remote.listen_targets \cup {d}
                /\ \A e \in Docs : w[e] <= server[e]
                /\ \A e \in Docs : e # d => w[e] = since[e]
                /\ listeners[d] # {} => w = since
<1>0. /\ ReadTypes /\ Settled(remote, cache, since) /\ Listening /\ SinceServed
  BY DEF ReadInv
<1>1. /\ since \in [Docs -> Nat] /\ server \in [Docs -> Nat] /\ cache \in [Docs -> Nat]
  BY <1>0 DEF ReadTypes
<1>2. CASE listeners[d] = {}
  <2>1. w = [since EXCEPT ![d] = server[d]]
    BY <1>2 DEF NewSince
  <2>2. w \in [Docs -> Nat] /\ w[d] = server[d] /\ \A e \in Docs : e # d => w[e] = since[e]
    BY <1>1, <2>1
  <2>3. \A e \in Docs : w[e] <= server[e]
    <3>1. server[d] <= server[d]
      BY <1>1
    <3> QED
      BY <1>0, <2>2, <3>1 DEF SinceServed
  <2>4. d \notin remote.listen_targets
    BY <1>0, <1>2 DEF Listening
  <2>5. SinceBut(d, since, w)
    BY <2>2 DEF SinceBut
  <2>6. PICK t : /\ t = ListenTo(remote, d) /\ Settled(t, cache, w)
                 /\ t.listen_targets = remote.listen_targets \cup {d}
                 /\ t.view \subseteq remote.view
    BY <1>0, <1>1, <2>4, <2>5, ListenSettles
  <2> QED
    BY <1>2, <2>2, <2>3, <2>6
<1>3. CASE listeners[d] # {}
  <2>1. w = since
    BY <1>3 DEF NewSince
  <2>2. d \in remote.listen_targets
    BY <1>0, <1>3 DEF Listening
  <2>3. remote.listen_targets = remote.listen_targets \cup {d}
    BY <2>2
  <2> QED
    BY <1>0, <1>1, <1>3, <2>1, <2>3 DEF SinceServed
<1> QED
  BY <1>2, <1>3

LEMMA AddKeeps ==
  ASSUME ReadInv, AddQueryListener
  PROVE  ReadInv'
<1>0. /\ ReadTypes /\ Settled(remote, cache, since)
      /\ Listening /\ ListenersRead /\ SinceServed /\ Enqueued /\ Heard /\ Once
  BY DEF ReadInv
<1>1. worker # <<>> /\ Head(worker).add
  BY DEF AddQueryListener
<1>2a. PICK o, q, n : TakesOperation(o, q, n)
  BY <1>0, <1>1, OperationTaken
<1>2. /\ o = Head(worker) /\ q = Tail(worker) /\ n = Len(Tail(worker))
      /\ o \in Operations /\ q \in Seq(Operations) /\ n \in Nat /\ o.read \in Reads
      /\ reading[o.read] \in Docs /\ (o.add => Unheard(o.read))
      /\ \A i \in 1..n : /\ q[i].read \in Reads /\ reading[q[i].read] # None
                         /\ q[i].add => Unheard(q[i].read)
                         /\ o.add /\ q[i].add => q[i].read # o.read
      /\ \A i, j \in 1..n : i # j /\ q[i].add /\ q[j].add => q[i].read # q[j].read
  BY <1>2a DEF TakesOperation
<1>3. PICK r, d : r = o.read /\ d = reading[r]
  OBVIOUS
<1>4. r \in Reads /\ d \in Docs /\ o.add /\ Unheard(r) /\ reading[r] = d
  BY <1>1, <1>2, <1>3
<1>5. PICK ls, w, fl : /\ ls = [listeners EXCEPT ![d] = @ \cup {r}]
                       /\ NewSince(d, w)
                       /\ fl = [floor EXCEPT ![r] = w[d]]
  BY DEF NewSince
<1>6. PICK t : /\ t = (IF listeners[d] = {} THEN ListenTo(remote, d) ELSE remote)
               /\ Settled(t, cache, w) /\ w \in [Docs -> Nat]
               /\ t.listen_targets = remote.listen_targets \cup {d}
               /\ \A e \in Docs : w[e] <= server[e]
               /\ \A e \in Docs : e # d => w[e] = since[e]
               /\ listeners[d] # {} => w = since
  BY <1>4, <1>5, AddListens
<1>7. /\ worker' = q /\ listeners' = ls /\ remote' = t /\ since' = w /\ floor' = fl
      /\ Notify(t, cache, ls)
      /\ UNCHANGED <<reading, muted, answers, cache, server>>
  BY <1>2, <1>3, <1>5, <1>6 DEF AddQueryListener, NewSince
<1>8. /\ listeners \in [Docs -> SUBSET Reads] /\ floor \in [Reads -> Nat]
      /\ cache \in [Docs -> Nat]
  BY <1>0 DEF ReadTypes
<1>9. /\ ls \in [Docs -> SUBSET Reads] /\ ls[d] = listeners[d] \cup {r}
      /\ \A e \in Docs : e # d => ls[e] = listeners[e]
  BY <1>4, <1>5, <1>8
<1>10. /\ fl \in [Reads -> Nat] /\ fl[r] = w[d]
       /\ \A x \in Reads : x # r => fl[x] = floor[x]
  <2>1. w[d] \in Nat
    BY <1>4, <1>6
  <2> QED
    BY <1>4, <1>5, <1>8, <2>1
<1>11. /\ \A e \in Docs : r \notin listeners[e]
       /\ events[r] = <<>> /\ answers[r] = <<>>
  BY <1>4 DEF Unheard
<1>12. Listens(ls, fl, w)
  <2> SUFFICES ASSUME NEW e \in Docs, NEW x \in ls[e] PROVE reading[x] = e /\ fl[x] = w[e]
    BY DEF Listens
  <2>1. CASE x = r
    <3>1. e = d
      BY <1>9, <1>11, <2>1
    <3> QED
      BY <1>4, <1>10, <2>1, <3>1
  <2>2. CASE x # r
    <3>1. x \in listeners[e]
      BY <1>9, <2>2
    <3>2. x \in Reads /\ reading[x] = e /\ floor[x] = since[e]
      BY <1>0, <1>8, <3>1 DEF ListenersRead
    <3>3. w[e] = since[e]
      BY <1>6, <3>1
    <3> QED
      BY <1>10, <2>2, <3>2, <3>3
  <2> QED
    BY <2>1, <2>2
<1>13. /\ \A x \in Reads : \A i \in 1..Len(events[x]) : FreshFor(events[x][i], fl[x])
       /\ \A x \in Reads : \A i \in 1..Len(answers[x]) : FreshFor(answers[x][i], fl[x])
  <2>1. 1..Len(<<>>) = {}
    OBVIOUS
  <2> QED
    BY <1>0, <1>10, <1>11, <2>1 DEF Heard
<1>14. /\ raised' \subseteq Reads /\ events' \in [Reads -> Seq(Events)]
       /\ \A x \in Reads : \A i \in 1..Len(events'[x]) : FreshFor(events'[x][i], fl[x])
       /\ \A x \in Reads : (\A e \in Docs : x \notin ls[e]) => events'[x] = events[x]
       /\ \A x \in Reads : events'[x] = events[x] \/ reading[x] # None
  <2>1. ViewsFresh(t, cache, w)
    BY <1>6 DEF Settled
  <2> QED
    BY <1>0, <1>7, <1>8, <1>9, <1>12, <1>13, <2>1, NotifyFresh
<1>15. ReadTypes'
  <2>1. t \in RemoteStore
    BY <1>6 DEF Settled, Calm
  <2> QED
    BY <1>0, <1>2, <1>6, <1>7, <1>9, <1>10, <1>14, <2>1 DEF ReadTypes
<1>16. Settled(remote, cache, since)'
  BY <1>6, <1>7
<1>17. Listening'
  BY <1>0, <1>4, <1>6, <1>7, <1>9 DEF Listening
<1>18. ListenersRead'
  BY <1>7, <1>12 DEF ListenersRead, Listens
<1>19. SinceServed' /\ Once'
  BY <1>0, <1>6, <1>7 DEF SinceServed, Once
<1>20. Heard'
  BY <1>0, <1>7, <1>13, <1>14 DEF Heard
<1>21. Enqueued'
  <2>1. ASSUME NEW x \in Reads, x # r, Unheard(x) PROVE Unheard(x)'
    <3>1. \A e \in Docs : x \notin ls[e]
      BY <1>9, <2>1 DEF Unheard
    <3> QED
      BY <1>7, <1>14, <2>1, <3>1 DEF Unheard
  <2>2. ASSUME NEW i \in 1..n
        PROVE  reading'[q[i].read] # None /\ (q[i].add => Unheard(q[i].read)')
    BY <1>2, <1>3, <1>4, <1>7, <2>1
  <2> QED
    BY <1>2, <1>7, <2>2 DEF Enqueued
<1> QED
  BY <1>15, <1>16, <1>17, <1>18, <1>19, <1>20, <1>21 DEF ReadInv

\* EventManager::RemoveQueryListener.
LEMMA RemoveKeeps ==
  ASSUME ReadInv, RemoveQueryListener
  PROVE  ReadInv'
<1>0. /\ ReadTypes /\ Settled(remote, cache, since)
      /\ Listening /\ ListenersRead /\ SinceServed /\ Enqueued /\ Heard /\ Once
  BY DEF ReadInv
<1>1. worker # <<>>
  BY DEF RemoveQueryListener
<1>2a. PICK o, q, n : TakesOperation(o, q, n)
  BY <1>0, <1>1, OperationTaken
<1>2. /\ o = Head(worker) /\ q = Tail(worker) /\ n = Len(Tail(worker))
      /\ o \in Operations /\ q \in Seq(Operations) /\ n \in Nat /\ o.read \in Reads
      /\ reading[o.read] \in Docs /\ (o.add => Unheard(o.read))
      /\ \A i \in 1..n : /\ q[i].read \in Reads /\ reading[q[i].read] # None
                         /\ q[i].add => Unheard(q[i].read)
                         /\ o.add /\ q[i].add => q[i].read # o.read
      /\ \A i, j \in 1..n : i # j /\ q[i].add /\ q[j].add => q[i].read # q[j].read
  BY <1>2a DEF TakesOperation
<1>3. PICK r, d : r = o.read /\ d = reading[r]
  OBVIOUS
<1>4. r \in Reads /\ d \in Docs
  BY <1>2, <1>3
<1>5. PICK ls : ls = [listeners EXCEPT ![d] = @ \ {r}]
  OBVIOUS
<1>6. /\ worker' = q /\ listeners' = ls
      /\ UNCHANGED <<reading, events, muted, answers, raised, cache, server, since, floor>>
      /\ remote' = IF listeners[d] = {r} THEN StopListeningTo(remote, d) ELSE remote
  <2>1. remote' = IF r \in listeners[d] /\ listeners[d] = {r} THEN StopListeningTo(remote, d)
                                                               ELSE remote
    BY <1>2, <1>3 DEF RemoveQueryListener
  <2>2. listeners[d] = {r} => r \in listeners[d]
    OBVIOUS
  <2> QED
    BY <1>2, <1>3, <1>5, <2>1, <2>2 DEF RemoveQueryListener, main
<1>7. listeners \in [Docs -> SUBSET Reads] /\ cache \in [Docs -> Nat]
  BY <1>0 DEF ReadTypes
<1>8. /\ ls \in [Docs -> SUBSET Reads] /\ ls[d] = listeners[d] \ {r}
      /\ \A e \in Docs : e # d => ls[e] = listeners[e]
  BY <1>4, <1>5, <1>7
<1>9. \A e \in Docs : ls[e] \subseteq listeners[e]
  BY <1>8
<1>10. Settled(remote', cache, since) /\ remote'.listen_targets = {e \in Docs : ls[e] # {}}
  <2>1. CASE listeners[d] = {r}
    <3>1. d \in remote.listen_targets
      BY <1>0, <1>4, <2>1 DEF Listening
    <3>2. PICK t : /\ t = StopListeningTo(remote, d) /\ Settled(t, cache, since)
                   /\ t.listen_targets = remote.listen_targets \ {d}
      BY <1>0, <1>4, <1>7, <3>1, StopListeningSettles
    <3>3. remote' = t
      BY <1>6, <2>1, <3>2
    <3>4. ls[d] = {}
      BY <1>8, <2>1
    <3> QED
      BY <1>0, <1>8, <3>2, <3>3, <3>4 DEF Listening
  <2>2. CASE listeners[d] # {r}
    <3>1. remote' = remote
      BY <1>6, <2>2
    <3>2. ls[d] # {} <=> listeners[d] # {}
      BY <1>8, <2>2
    <3>3. {e \in Docs : ls[e] # {}} = {e \in Docs : listeners[e] # {}}
      BY <1>8, <3>2
    <3> QED
      BY <1>0, <3>1, <3>3 DEF Listening
  <2> QED
    BY <2>1, <2>2
<1>11. ReadTypes'
  <2>1. remote' \in RemoteStore
    BY <1>10 DEF Settled, Calm
  <2> QED
    BY <1>0, <1>2, <1>6, <1>8, <2>1 DEF ReadTypes
<1>12. Settled(remote, cache, since)'
  BY <1>6, <1>10
<1>13. Listening'
  BY <1>6, <1>10 DEF Listening
<1>14. ListenersRead'
  BY <1>0, <1>6, <1>9 DEF ListenersRead
<1>15. SinceServed' /\ Once' /\ Heard'
  BY <1>0, <1>6 DEF SinceServed, Once, Heard
<1>16. Enqueued'
  <2>1. ASSUME NEW x, Unheard(x) PROVE Unheard(x)'
    BY <1>6, <1>9, <2>1 DEF Unheard
  <2>2. ASSUME NEW i \in 1..n
        PROVE  reading'[q[i].read] # None /\ (q[i].add => Unheard(q[i].read)')
    BY <1>2, <1>6, <2>1
  <2> QED
    BY <1>2, <1>6, <2>2 DEF Enqueued
<1> QED
  BY <1>11, <1>12, <1>13, <1>14, <1>15, <1>16 DEF ReadInv

(***************************************************************************)
(* The worker queue: timers and the watch stream; the server               *)
(***************************************************************************)
\* The steps that leave the cache alone, whatever they do to the store.
LEMMA StoreStepKeeps ==
  ASSUME ReadInv, NEW s, Step(s, cache), Kept, server' = server,
         \E t : t = s /\ Settled(t, cache, since) /\ t.listen_targets = remote.listen_targets
  PROVE  ReadInv'
<1>1. cache \in [Docs -> Nat]
  BY DEF ReadInv, ReadTypes
<1>2. Settled(s, cache, since) /\ s.listen_targets = remote.listen_targets
  OBVIOUS
<1> QED
  BY <1>1, <1>2, StepKeeps

LEMMA TimeoutKeeps ==
  ASSUME ReadInv, OnlineStateTimeout
  PROVE  ReadInv'
<1>1. PICK s : s = SetOnline([HardAssert(remote, remote.online = "Unknown", "NotUnknown")
                                EXCEPT !.timer = FALSE], "Offline")
  OBVIOUS
<1>2. Step(s, cache) /\ Kept /\ server' = server /\ remote.timer
  BY <1>1 DEF OnlineStateTimeout
<1>3. Settled(remote, cache, since)
  BY DEF ReadInv
<1>4. PICK t : /\ t = SetOnline([HardAssert(remote, remote.online = "Unknown", "NotUnknown")
                                   EXCEPT !.timer = FALSE], "Offline")
               /\ Settled(t, cache, since) /\ Quiet(remote, t)
  BY <1>2, <1>3, TimeoutSettles
<1>5. s = t /\ t.listen_targets = remote.listen_targets
  BY <1>1, <1>4 DEF Quiet
<1> QED
  BY <1>2, <1>4, <1>5, StoreStepKeeps

LEMMA ArriveKeeps ==
  ASSUME ReadInv, NEW c \in remote.tokens, CredentialsArrive(c)
  PROVE  ReadInv'
<1>0. Settled(remote, cache, since) /\ cache \in [Docs -> Nat]
  BY DEF ReadInv, ReadTypes
<1>1. PICK s : s = IF UpToDate(remote, c) THEN OnWatchStreamOpen(Opened(Credentials(remote, c)))
                                          ELSE Credentials(remote, c)
  OBVIOUS
<1>2. Step(s, cache) /\ Kept /\ server' = server
  BY <1>1 DEF CredentialsArrive
<1>3. CASE UpToDate(remote, c)
  <2>1. PICK t : /\ t = OnWatchStreamOpen(Opened(Credentials(remote, c)))
                 /\ Settled(t, cache, since) /\ t.view = remote.view
                 /\ t.listen_targets = remote.listen_targets
    BY <1>0, <1>3, CredentialsSettle
  <2>2. s = t
    BY <1>1, <1>3, <2>1
  <2> QED
    BY <1>2, <2>1, <2>2, StoreStepKeeps
<1>4. CASE ~UpToDate(remote, c)
  <2>1. PICK t : t = Credentials(remote, c) /\ Settled(t, cache, since) /\ Quiet(remote, t)
    BY <1>0, <1>4, StaleCredentialsSettle
  <2>2. s = t /\ t.listen_targets = remote.listen_targets
    BY <1>1, <1>4, <2>1 DEF Quiet
  <2> QED
    BY <1>2, <2>1, <2>2, StoreStepKeeps
<1> QED
  BY <1>3, <1>4

\* Failures, the backoff, the idle timer, the network.
LEMMA QuietKeeps ==
  ASSUME ReadInv, NEW s, Step(s, cache), Kept, server' = server,
         \E t : t = s /\ Settled(t, cache, since) /\ Quiet(remote, t)
  PROVE  ReadInv'
<1>1. PICK t : t = s /\ Settled(t, cache, since) /\ Quiet(remote, t)
  OBVIOUS
<1>2. t.listen_targets = remote.listen_targets
  BY <1>1 DEF Quiet
<1> QED
  BY <1>1, <1>2, StoreStepKeeps

LEMMA StreamStepsKeep ==
  ASSUME ReadInv,
         \/ \E c \in remote.tokens : CredentialsFail(c)
         \/ BackoffElapsed \/ IdleTimeout \/ StreamFails \/ NetworkRestarts
  PROVE  ReadInv'
<1>0. Settled(remote, cache, since)
  BY DEF ReadInv
<1>1. ASSUME NEW c \in remote.tokens, CredentialsFail(c) PROVE ReadInv'
  <2>1. /\ UpToDate(remote, c) /\ Step(Failed(Credentials(remote, c)), cache) /\ Kept
        /\ server' = server
    BY <1>1 DEF CredentialsFail
  <2>2. \E t : /\ t = Failed(Credentials(remote, c)) /\ Settled(t, cache, since)
               /\ Quiet(remote, t)
    BY <1>0, <2>1, NoCredentialsSettle
  <2> QED
    BY <2>1, <2>2, QuietKeeps
<1>2. CASE BackoffElapsed
  <2>1. remote.state = "Backoff" /\ Step(BackoffOver(remote), cache) /\ Kept /\ server' = server
    BY <1>2 DEF BackoffElapsed
  <2>2. \E t : t = BackoffOver(remote) /\ Settled(t, cache, since) /\ Quiet(remote, t)
    BY <1>0, <2>1, BackoffSettles
  <2> QED
    BY <2>1, <2>2, QuietKeeps
<1>3. CASE IdleTimeout
  <2>1. remote.idleness_timer /\ Step(Stop(remote), cache) /\ Kept /\ server' = server
    BY <1>3 DEF IdleTimeout
  <2>2. \E t : t = Stop(remote) /\ Settled(t, cache, since) /\ Quiet(remote, t)
    BY <1>0, <2>1, IdleSettles
  <2> QED
    BY <2>1, <2>2, QuietKeeps
<1>4. CASE StreamFails
  <2>1. IsOpen(remote) /\ Step(Failed(remote), cache) /\ Kept /\ server' = server
    BY <1>4 DEF StreamFails
  <2>2. \E t : t = Failed(remote) /\ Settled(t, cache, since) /\ Quiet(remote, t)
    BY <1>0, <2>1, FailureSettles
  <2> QED
    BY <2>1, <2>2, QuietKeeps
<1>5. CASE NetworkRestarts
  <2>1. Step(RestartNetwork(remote), cache) /\ Kept /\ server' = server
    BY <1>5 DEF NetworkRestarts
  <2>2. \E t : t = RestartNetwork(remote) /\ Settled(t, cache, since) /\ Quiet(remote, t)
    BY <1>0, RestartSettles
  <2> QED
    BY <2>1, <2>2, QuietKeeps
<1> QED
  BY <1>1, <1>2, <1>3, <1>4, <1>5

\* OnWatchStreamChange.
LEMMA ChangeKeeps ==
  ASSUME ReadInv, WatchStreamChange
  PROVE  ReadInv'
<1>0. /\ Settled(remote, cache, since) /\ cache \in [Docs -> Nat] /\ since \in [Docs -> Nat]
      /\ Calm(remote) /\ remote.down # <<>> /\ Kept /\ server' = server
  BY DEF ReadInv, ReadTypes, Settled, WatchStreamChange
<1>1. PICK m : m = Head(remote.down)
  OBVIOUS
<1>2. PICK u : u = UpdateState(Read(remote), "Online") /\ Received(remote, u)
  BY <1>0, Receives
<1>3. CASE m.kind \in {"added", "removed"} /\ Step(Answered(u, m), cache)
  <2>1. PICK t : /\ t = Answered(u, m) /\ Settled(t, cache, since) /\ t.view = remote.view
                 /\ t.listen_targets = remote.listen_targets
    BY <1>0, <1>1, <1>2, <1>3, AnsweredSettles
  <2> QED
    BY <1>0, <1>3, <2>1, StoreStepKeeps
<1>4. CASE m.kind \in {"document", "current"} /\ Step(Changed(u, m), cache)
  <2>1. PICK t : /\ t = Changed(u, m) /\ Settled(t, cache, since) /\ t.view = remote.view
                 /\ t.listen_targets = remote.listen_targets
    BY <1>0, <1>1, <1>2, <1>4, ChangedSettles
  <2> QED
    BY <1>0, <1>4, <2>1, StoreStepKeeps
<1>5. CASE m.kind = "snapshot" /\ Step(RemoteEvent(u), NewCache(u))
  <2>1. PICK t, b : /\ t = RemoteEvent(u) /\ b = NewCache(u) /\ Settled(t, b, since)
                    /\ t.listen_targets = remote.listen_targets /\ b \in [Docs -> Nat]
    BY <1>0, <1>1, <1>2, <1>5, EventSettles
  <2>2. Step(t, b)
    BY <1>5, <2>1
  <2> QED
    BY <1>0, <2>1, <2>2, StepKeeps
<1> QED
  BY <1>1, <1>2, <1>3, <1>4, <1>5 DEF WatchStreamChange

\* What the server does, no listener hears before its messages arrive.
LEMMA ServerKeeps ==
  ASSUME ReadInv, Serve \/ \E d \in Docs : Update(d)
  PROVE  ReadInv'
<1>0. /\ ReadTypes /\ Settled(remote, cache, since)
      /\ Listening /\ ListenersRead /\ SinceServed /\ Enqueued /\ Heard /\ Once
  BY DEF ReadInv
<1>1. /\ Settled(remote', cache, since) /\ remote'.listen_targets = remote.listen_targets
      /\ server' \in [Docs -> Nat] /\ \A e \in Docs : since[e] <= server'[e]
      /\ UNCHANGED <<reading, events, muted, answers, worker, listeners, raised, cache, since,
                     floor>>
  <2>1. CASE Serve
    <3>1. server' = server /\ server \in [Docs -> Nat] /\ \A e \in Docs : since[e] <= server[e]
      BY <1>0, <2>1 DEF Serve, ReadTypes, SinceServed
    <3>2. Settled(remote', cache, since) /\ remote'.listen_targets = remote.listen_targets
      BY <1>0, <2>1, ServeSettles
    <3>3. UNCHANGED <<reading, events, muted, answers, worker, listeners, raised, cache, since,
                      floor>>
      BY <2>1 DEF Serve, main
    <3> QED
      BY <3>1, <3>2, <3>3
  <2>2. ASSUME NEW d \in Docs, Update(d)
        PROVE  /\ Settled(remote', cache, since)
               /\ remote'.listen_targets = remote.listen_targets
               /\ server' \in [Docs -> Nat] /\ \A e \in Docs : since[e] <= server'[e]
               /\ UNCHANGED <<reading, events, muted, answers, worker, listeners, raised, cache,
                              since, floor>>
    <3>1. UNCHANGED <<reading, events, muted, answers, worker, listeners, raised, cache,
                      since, floor>>
      BY <2>2 DEF Update, main
    <3> QED
      BY <1>0, <2>2, <3>1, UpdateSettles
  <2> QED
    BY <2>1, <2>2
<1>2. ReadTypes'
  <2>1. remote' \in RemoteStore
    BY <1>1 DEF Settled, Calm
  <2> QED
    BY <1>0, <1>1, <2>1 DEF ReadTypes
<1>3. Settled(remote, cache, since)'
  BY <1>1
<1>4. Listening' /\ ListenersRead' /\ SinceServed' /\ Heard' /\ Once'
  BY <1>0, <1>1 DEF Listening, ListenersRead, SinceServed, Heard, Once
<1>5. Enqueued'
  BY <1>0, <1>1 DEF Enqueued, Unheard
<1> QED
  BY <1>2, <1>3, <1>4, <1>5 DEF ReadInv

(***************************************************************************)
(* The invariant holds                                                     *)
(***************************************************************************)
\* Nothing is read, listened to or on the wire at first.
LEMMA IdleIs ==
  /\ Idle \in RemoteStore /\ Calm(Idle) /\ Idle.is_network_enabled /\ Idle.state = "Initial"
  /\ Idle.view = {} /\ Idle.listen_targets = {}
<1>1. /\ Idle.is_network_enabled = TRUE /\ Idle.listen_targets = {} /\ Idle.view = {}
      /\ Idle.aggregator = NewAggregator /\ Idle.watched = {} /\ Idle.online = "Unknown"
      /\ Idle.watch_stream_failures = 0 /\ Idle.timer = FALSE /\ Idle.state = "Initial"
      /\ Idle.close_count = 0 /\ Idle.tokens = {} /\ Idle.idleness_timer = FALSE
      /\ Idle.up = <<>> /\ Idle.down = <<>> /\ Idle.failed = {}
  BY DEF Idle
<1>2. Idle \in RemoteStore
  <2>1. NewAggregator \in Aggregators
    BY NewAggregatorIs
  <2>2. <<>> \in Seq(Requests) /\ <<>> \in Seq(Messages)
    OBVIOUS
  <2> QED
    BY <2>1, <2>2 DEF Idle, RemoteStore, OnlineStates, States
<1>3. IsFiniteSet(Idle.listen_targets)
  BY <1>1, FS_EmptySet
<1>4. TokensCurrent(Idle) /\ Tracker(Idle) /\ Down(Idle)
  BY <1>1 DEF TokensCurrent, Tracker, Down
<1> QED
  BY <1>1, <1>2, <1>3, <1>4 DEF Calm

LEMMA ReadInit == Init => ReadInv
<1> SUFFICES ASSUME Init PROVE ReadInv
  OBVIOUS
<1>1. /\ reading = [r \in Reads |-> None] /\ events = [r \in Reads |-> <<>>] /\ muted = {}
      /\ answers = [r \in Reads |-> <<>>] /\ worker = <<>> /\ raised = {}
      /\ listeners = [d \in Docs |-> {}] /\ remote = Idle
      /\ since = [d \in Docs |-> 0] /\ floor = [r \in Reads |-> 0]
  BY DEF Init
<1>2. server \in [Docs -> Nat] /\ cache \in [Docs -> Nat]
  <2>1. server \in [Docs -> 0..1] /\ cache \in [Docs -> 0..1]
    BY DEF Init
  <2>2. \A x \in 0..1 : x \in Nat
    OBVIOUS
  <2> QED
    BY <2>1, <2>2
<1>3. <<>> \in Seq(Events) /\ <<>> \in Seq(Operations) /\ 0 \in Nat /\ Len(<<>>) = 0 /\ 1..0 = {}
  OBVIOUS
<1>4. ReadTypes
  BY <1>1, <1>2, <1>3, IdleIs DEF ReadTypes
<1>5. Settled(remote, cache, since)
  <2>1. ViewsFresh(Idle, cache, since)
    BY IdleIs DEF ViewsFresh
  <2>2. Settled(Idle, cache, since)
    BY <2>1, IdleIs, DownSettles
  <2> QED
    BY <1>1, <2>2
<1>6. Listening
  <2>1. {d \in Docs : listeners[d] # {}} = {}
    BY <1>1
  <2> QED
    BY <1>1, <2>1, IdleIs DEF Listening
<1>7. ListenersRead
  BY <1>1 DEF ListenersRead
<1>8. SinceServed
  <2>1. \A d \in Docs : since[d] = 0 /\ server[d] \in Nat
    BY <1>1, <1>2
  <2> QED
    BY <2>1 DEF SinceServed
<1>9. Enqueued
  BY <1>1, <1>3 DEF Enqueued
<1>10. Heard
  BY <1>1, <1>3 DEF Heard
<1>11. Once
  BY <1>1, <1>3 DEF Once
<1> QED
  BY <1>4, <1>5, <1>6, <1>7, <1>8, <1>9, <1>10, <1>11 DEF ReadInv

LEMMA ReadNext == ReadInv /\ [Next]_vars => ReadInv'
<1> SUFFICES ASSUME ReadInv, [Next]_vars PROVE ReadInv'
  OBVIOUS
<1>1. ASSUME NEW r \in Reads, NEW d \in Docs, GetDocument(r, d) PROVE ReadInv'
  BY <1>1, GetDocumentKeeps
<1>2. CASE Main
  BY <1>2, OnEventKeeps DEF Main
<1>3. CASE Queued
  BY <1>3, AddKeeps, RemoveKeeps DEF Queued
<1>4. CASE Connect
  BY <1>4, ArriveKeeps, StreamStepsKeep DEF Connect
<1>5. CASE OnlineStateTimeout
  BY <1>5, TimeoutKeeps
<1>6. CASE BackoffElapsed \/ IdleTimeout \/ StreamFails \/ NetworkRestarts
  BY <1>6, StreamStepsKeep
<1>7. CASE WatchStreamChange
  BY <1>7, ChangeKeeps
<1>8. CASE Serve \/ \E d \in Docs : Update(d)
  BY <1>8, ServerKeeps
<1>9. CASE UNCHANGED vars
  <2>1. UNCHANGED <<reading, events, muted, answers, worker, listeners, raised, cache, remote,
                    server, since, floor>>
    BY <1>9 DEF vars, main
  <2>2. ReadTypes' /\ Settled(remote, cache, since)'
    BY <2>1 DEF ReadInv, ReadTypes
  <2>3. Listening' /\ ListenersRead' /\ SinceServed' /\ Heard' /\ Once'
    BY <2>1 DEF ReadInv, Listening, ListenersRead, SinceServed, Heard, Once
  <2>4. Enqueued'
    BY <2>1 DEF ReadInv, Enqueued, Unheard
  <2> QED
    BY <2>2, <2>3, <2>4 DEF ReadInv
<1> QED
  BY <1>1, <1>2, <1>3, <1>4, <1>5, <1>6, <1>7, <1>8, <1>9 DEF Next

\* Whatever fails, and in whatever order events, timers, credentials and messages come,
\* the listeners, the listen targets and the wire fit together.
THEOREM ReadInvariant == Spec => []ReadInv
<1>1. Init => ReadInv
  BY ReadInit
<1>2. ReadInv /\ [Next]_vars => ReadInv'
  BY ReadNext
<1> QED
  BY <1>1, <1>2, PTL DEF Spec

\* Values stay in their types: a version is a number, an operation of the worker is about
\* a read, a message on the wire about a document.
THEOREM ReadTypesHold == Spec => []ReadTypes
<1>1. ReadInv => ReadTypes
  BY DEF ReadInv
<1> QED
  BY <1>1, ReadInvariant, PTL

\* No HARD_ASSERT on the read path fails, for every number of documents, reads, failures
\* and versions.
THEOREM ReadsNeverAssert == Spec => []NoHardAssertFails
<1>1. ReadInv => NoHardAssertFails
  BY DEF ReadInv, Settled, Calm, NoHardAssertFails
<1> QED
  BY <1>1, ReadInvariant, PTL

\* ListenOnce calls its callback once at most, however many events are on their way.
THEOREM ReadsCallOnce == Spec => []CalledAtMostOnce
<1>1. ReadInv => CalledAtMostOnce
  BY DEF ReadInv, Once, CalledAtMostOnce
<1> QED
  BY <1>1, ReadInvariant, PTL

\* What the callback is told is the server's is not older than its listen.
THEOREM ReadsAreFresh == Spec => []AnswersAreFresh
<1>1. ReadInv => AnswersAreFresh
  BY DEF ReadInv, Heard, FreshFor, AnswersAreFresh
<1> QED
  BY <1>1, ReadInvariant, PTL

\* A nonempty set of naturals has a least element.
LEMMA LeastNatural ==
  ASSUME NEW T \in SUBSET Nat, T # {}
  PROVE  \E x \in T : \A y \in T : x <= y
<1>1. PICK R : R = OpToRel(<, Nat)
  OBVIOUS
<1>2. IsWellFoundedOn(R, Nat)
  BY <1>1, NatLessThanWellFounded
<1>3. \E x \in T : \A y \in T : ~(<<y, x>> \in R)
  BY <1>2, WFMin
<1>4. \A x, y \in Nat : y < x => <<y, x>> \in R
  BY <1>1 DEF OpToRel
<1>5. PICK x \in T : \A y \in T : ~(<<y, x>> \in R)
  BY <1>3
<1>6. ASSUME NEW y \in T PROVE x <= y
  <2>1. x \in Nat /\ y \in Nat
    OBVIOUS
  <2>2. ~(y < x)
    BY <1>4, <1>5, <2>1
  <2> QED
    BY <2>1, <2>2
<1> QED
  BY <1>6

\* A nonempty set of naturals below a bound has a greatest element.
LEMMA GreatestNatural ==
  ASSUME NEW T \in SUBSET Nat, T # {}, NEW n \in Nat, \A x \in T : x < n
  PROVE  \E x \in T : \A y \in T : y <= x
<1>1. PICK D : D = {n - x : x \in T}
  OBVIOUS
<1>2. D \in SUBSET Nat /\ D # {}
  <2>1. ASSUME NEW d \in D PROVE d \in Nat
    <3>1. PICK x \in T : d = n - x
      BY <1>1
    <3>2. x \in Nat /\ x < n
      OBVIOUS
    <3> QED
      BY <3>1, <3>2
  <2>2. PICK x \in T : TRUE
    OBVIOUS
  <2>3. n - x \in D
    BY <1>1
  <2> QED
    BY <2>1, <2>3
<1>3. PICK d \in D : \A e \in D : d <= e
  BY <1>2, LeastNatural
<1>4. PICK x \in T : d = n - x
  BY <1>1, <1>3
<1>5. ASSUME NEW y \in T PROVE y <= x
  <2>1. n - y \in D
    BY <1>1
  <2>2. d <= n - y
    BY <1>3, <2>1
  <2> QED
    BY <1>4, <2>2
<1> QED
  BY <1>5

\* The greatest place of a request about d.
LEMMA LastAsked ==
  ASSUME NEW s \in RemoteStore, NEW d, Asked(s, d) # {}
  PROVE  Max(Asked(s, d)) \in Asked(s, d) /\ \A j \in Asked(s, d) : j <= Max(Asked(s, d))
<1>1. PICK S, n : S = Asked(s, d) /\ n = Len(s.up) + 1
  OBVIOUS
<1>2. s.up \in Seq(Requests)
  BY DEF RemoteStore
<1>3. n \in Nat /\ S \in SUBSET Nat /\ S # {} /\ \A x \in S : x < n
  BY <1>1, <1>2 DEF Asked, Places
<1>4. PICK x \in S : \A y \in S : y <= x
  BY <1>3, GreatestNatural
<1>5. \A y \in S : x >= y
  BY <1>3, <1>4
<1>6. Max(S) \in S /\ \A y \in S : Max(S) >= y
  BY <1>5 DEF Max
<1>7. \A y \in S : y <= Max(S)
  BY <1>3, <1>6
<1> QED
  BY <1>1, <1>6, <1>7

\* Every answer that the aggregator waits for is underway, and every target that is
\* listened to is one the server has or is asked for.
THEOREM ReadsAreDue == Spec => []AnswersAreDue
<1>1. ReadInv => AnswersAreDue
  <2> SUFFICES ASSUME ReadInv, NEW d \in Docs, IsOpen(remote)
               PROVE  LET asked == {i \in 1..Len(remote.up) : remote.up[i].doc = d}
                          told == {i \in 1..Len(remote.down) :
                                      /\ remote.down[i].kind \in {"added", "removed"}
                                      /\ remote.down[i].doc = d}
                      IN  /\ remote.aggregator.targets[d].outstanding
                               = Cardinality(asked) + Cardinality(told)
                          /\ d \in remote.listen_targets =>
                               IF asked = {} THEN d \in remote.watched
                               ELSE remote.up[Max(asked)].watch
    BY DEF AnswersAreDue
  <2>1. Counted(remote) /\ AllWanted(remote) /\ remote \in RemoteStore
    BY DEF ReadInv, Settled, Calm
  <2>2. remote.up \in Seq(Requests) /\ remote.down \in Seq(Messages)
    BY <2>1 DEF RemoteStore
  <2>3. {i \in 1..Len(remote.up) : remote.up[i].doc = d} = Asked(remote, d)
    BY <2>2, RequestsAbout DEF Asked
  <2>4. {i \in 1..Len(remote.down) : /\ remote.down[i].kind \in {"added", "removed"}
                                     /\ remote.down[i].doc = d} = Told(remote, d)
    <3>1. \A i \in 1..Len(remote.down) :
             remote.down[i] \in AnswersFor(d)
               <=> remote.down[i].kind \in {"added", "removed"} /\ remote.down[i].doc = d
      <4> SUFFICES ASSUME NEW i \in 1..Len(remote.down)
                   PROVE  remote.down[i] \in AnswersFor(d)
                            <=> remote.down[i].kind \in {"added", "removed"} /\ remote.down[i].doc = d
        OBVIOUS
      <4>1. remote.down[i] \in Messages
        BY <2>2
      <4> QED
        BY <4>1, Kinds, MessageIs
    <3> QED
      BY <3>1 DEF Told, Places
  <2>5. remote.aggregator.targets[d].outstanding
          = Cardinality(Asked(remote, d)) + Cardinality(Told(remote, d))
    BY <2>1 DEF Counted
  <2>6. d \in remote.listen_targets => Wanted(remote, d)
    BY <2>1 DEF AllWanted
  <2>7. ASSUME d \in remote.listen_targets, Asked(remote, d) # {}
        PROVE  remote.up[Max(Asked(remote, d))].watch
    BY <2>1, <2>6, <2>7, LastAsked DEF Wanted
  <2>8. ASSUME d \in remote.listen_targets, Asked(remote, d) = {} PROVE d \in remote.watched
    BY <2>6, <2>8 DEF Wanted
  <2> QED
    BY <2>3, <2>4, <2>5, <2>7, <2>8
<1> QED
  BY <1>1, ReadInvariant, PTL
===============================================================================
