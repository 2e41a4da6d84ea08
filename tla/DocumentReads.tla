----------------------------- MODULE DocumentReads -----------------------------
(***************************************************************************)
(* Firestore's read path, as getDocument uses it: a listener that removes  *)
(* itself after its first event, the event manager and the views it feeds, *)
(* the listen targets of the remote store, the aggregation of what the     *)
(* watch stream says of them, and the online state, which decides when a   *)
(* read makes do with the cache.                                           *)
(*                                                                         *)
(* The app and the callbacks run on the main thread, everything else on    *)
(* the worker queue. Documents are versions; 0 is no document. A document  *)
(* is its own query, view and target, and its number as a target is the    *)
(* same in every listen.                                                   *)
(***************************************************************************)
EXTENDS Integers, Sequences, FiniteSets, SequencesExt, Stream

CONSTANTS
    Docs,         \* the documents that are read
    Reads,        \* the reads that may be made, once each
    MaxVersion,   \* bound: the versions of a document
    MaxFaults     \* bound: failures, reconnections

ASSUME VersionsAssumption == MaxVersion \in Nat
ASSUME FaultsAssumption == MaxFaults \in Nat

VARIABLES
    \* The main thread.
    reading,      \* the document of every read that was made
    events,       \* per read: the events on their way to its listener
    muted,        \* the reads whose listeners are muted
    answers,      \* per read: what its callback was called with
    \* The worker queue.
    worker,       \* the operations the main thread enqueued
    listeners,    \* queries_: per document, the reads that listen to it
    raised,       \* the reads whose listener raised its initial event
    cache,        \* the remote document cache
    remote,       \* the remote store: targets, aggregator, online state, watch stream
    \* The server.
    server,       \* the documents
    \* History.
    since, floor, \* the server's version when a document, or a read, was listened to
    faults

main == <<reading, events, muted, answers>>
vars == <<main, worker, listeners, raised, cache, remote, server, since, floor, faults>>

None == "none"
ASSUME DocsAssumption == None \notin Docs

NewTarget == [outstanding |-> 0, current |-> FALSE, changed |-> FALSE]
NewAggregator == [targets |-> [d \in Docs |-> NewTarget],
                  updates |-> [d \in Docs |-> 0]]

\* view: the documents whose view is current. watched: the targets the server has
\* on the connection.
Idle == [is_network_enabled |-> TRUE, listen_targets |-> {}, view |-> {},
         aggregator |-> NewAggregator, watched |-> {},
         online |-> "Unknown", watch_stream_failures |-> 0, timer |-> FALSE,
         state |-> "Initial", close_count |-> 0, tokens |-> {},
         idleness_timer |-> FALSE, up |-> <<>>, down |-> <<>>, failed |-> {}]

(***************************************************************************)
(* The online state tracker                                                *)
(***************************************************************************)
\* SetAndBroadcast: a view that is offline is not current.
SetOnline(s, state) ==
    [s EXCEPT !.online = state, !.view = IF state = "Offline" THEN {} ELSE s.view]

HandleWatchStreamStart(s) ==
    LET a == HardAssert(s, ~s.timer, "TimerStarted")
    IN  IF s.watch_stream_failures # 0 THEN s
        ELSE [SetOnline(a, "Unknown") EXCEPT !.timer = TRUE]

HandleWatchStreamFailure(s) ==
    IF s.online = "Online"
      THEN SetOnline(HardAssert(HardAssert(s, s.watch_stream_failures = 0, "Failures"),
                                ~s.timer, "TimerSet"), "Unknown")
      ELSE SetOnline([s EXCEPT !.watch_stream_failures = @ + 1, !.timer = FALSE],
                     "Offline")

\* (mutant) The online state is set, and the timer runs on.
KeepTimer(s, state) ==
    SetOnline([s EXCEPT !.watch_stream_failures = 0], state)

UpdateState(s, state) ==
    SetOnline([s EXCEPT !.timer = FALSE, !.watch_stream_failures = 0], state)

(***************************************************************************)
(* The remote store                                                        *)
(***************************************************************************)
Request(d, watch) == [doc |-> d, watch |-> watch, known |-> cache[d]]

\* (mutant) Only requests to watch are waited for.
CountWatches(s, rs) ==
    [s EXCEPT !.aggregator.targets = [d \in Docs |->
        [s.aggregator.targets[d] EXCEPT
            !.outstanding = @ + Cardinality({i \in 1..Len(rs) : rs[i].doc = d /\ rs[i].watch})]]]

\* RecordPendingTargetRequest, for every request of rs.
RecordPending(s, rs) ==
    [s EXCEPT !.aggregator.targets = [d \in Docs |->
        [s.aggregator.targets[d] EXCEPT
            !.outstanding = @ + Cardinality({i \in 1..Len(rs) : rs[i].doc = d})]]]

\* SendWatchRequest, SendUnwatchRequest
Send(s, rs) == WriteAll(RecordPending(s, rs), rs)

ShouldStartWatchStream(s) ==
    s.is_network_enabled /\ ~IsStarted(s) /\ s.listen_targets # {}

StartWatchStream(s) ==
    HandleWatchStreamStart(Start([s EXCEPT !.aggregator = NewAggregator]))

\* RemoteStore::Listen
ListenTo(s, d) ==
    LET t == [s EXCEPT !.listen_targets = @ \cup {d}]
    IN  IF ShouldStartWatchStream(t) THEN StartWatchStream(t)
        ELSE IF IsOpen(t) THEN Send(t, <<Request(d, TRUE)>>) ELSE t

\* RemoteStore::StopListening
StopListeningTo(s, d) ==
    LET a == HardAssert(s, d \in s.listen_targets, "NotWatched")
        t == [a EXCEPT !.listen_targets = @ \ {d}, !.view = @ \ {d}]
        u == IF IsOpen(t) THEN Send(t, <<Request(d, FALSE)>>) ELSE t
    IN  IF u.listen_targets # {} THEN u
        ELSE IF IsOpen(u) THEN MarkIdle(u) ELSE UpdateState(u, "Unknown")

\* OnWatchStreamClose. What the server knows of the connection is gone.
OnWatchStreamClose(s) ==
    LET t == [s EXCEPT !.aggregator = NewAggregator, !.watched = {}]
    IN  IF ShouldStartWatchStream(t) THEN StartWatchStream(HandleWatchStreamFailure(t))
        ELSE UpdateState(t, "Unknown")

\* Stop: a graceful stop has to be wanted.
Stop(s) ==
    LET c == Closed(s, "Initial")
    IN  IF ~IsStarted(s) THEN s
        ELSE OnWatchStreamClose(HardAssert(c, ~ShouldStartWatchStream(c), "StillNeeded"))

\* The stream ends with an error. (A server that ended it with status OK would be
\* taken for Stop, and its assertion would fail while a target is listened to: the
\* server is assumed never to do so.)
Failed(s) == OnWatchStreamClose(Closed(s, "Error"))

\* DisableNetworkInternal and EnableNetwork.
RestartNetwork(s) ==
    LET stopped == Stop([s EXCEPT !.is_network_enabled = FALSE])
        ready == InhibitBackoff(UpdateState([stopped EXCEPT !.aggregator = NewAggregator],
                                            "Unknown"))
        on == [ready EXCEPT !.is_network_enabled = TRUE]
    IN  IF ShouldStartWatchStream(on) THEN StartWatchStream(on)
        ELSE UpdateState(on, "Unknown")

\* (mutant) What was listened to is not watched again.
OpenedOnly(s) == s

\* OnWatchStreamOpen: every target is watched again.
OnWatchStreamOpen(s) ==
    LET ds == SetToSeq(s.listen_targets)
    IN  Send(s, [i \in 1..Len(ds) |-> Request(ds[i], TRUE)])

(***************************************************************************)
(* The aggregator: what the server says of a target counts only when every *)
(* request about the target has been answered.                             *)
(***************************************************************************)
Message(kind, d) == [kind |-> kind, doc |-> d]
Document(d, v) == [kind |-> "document", doc |-> d, version |-> v]
Snapshot == [kind |-> "snapshot"]

\* (mutant) Every target that is listened to is active.
IsListenedTo(s, d) == d \in s.listen_targets

IsActiveTarget(s, d) ==
    d \in s.listen_targets /\ s.aggregator.targets[d].outstanding = 0

\* HandleTargetChange for Added and Removed: one answer less is due.
Answered(s, m) ==
    LET t == [s.aggregator.targets[m.doc] EXCEPT !.outstanding = @ - 1]
        u == IF t.outstanding # 0 THEN t
             ELSE IF m.kind = "added" THEN [t EXCEPT !.changed = FALSE] ELSE NewTarget
    IN  [s EXCEPT !.aggregator.targets[m.doc] = u]

\* HandleDocumentChange, and HandleTargetChange for Current.
Changed(s, m) ==
    LET t == [s EXCEPT !.aggregator.targets[m.doc].changed = TRUE]
    IN  IF ~IsActiveTarget(s, m.doc) THEN s
        ELSE IF m.kind = "current"
               THEN [t EXCEPT !.aggregator.targets[m.doc].current = TRUE]
               ELSE [t EXCEPT !.aggregator.updates[m.doc] = m.version]

\* CreateRemoteEvent, ApplyRemoteEvent: the views of the active targets are as
\* current as the targets. A snapshot is a change of every active target.
RemoteEvent(s) ==
    LET active == {d \in Docs : IsActiveTarget(s, d)}
        current == {d \in active : s.aggregator.targets[d].current}
    IN  [s EXCEPT !.view = (@ \ active) \cup current,
                  !.aggregator.updates = [d \in Docs |-> 0],
                  !.aggregator.targets =
                      [d \in Docs |-> IF d \in active
                                        THEN [s.aggregator.targets[d] EXCEPT !.changed = FALSE]
                                        ELSE s.aggregator.targets[d]]]

\* PopulateDocumentChanges: a document is replaced by newer ones only.
NewCache(s) ==
    [d \in Docs |-> IF s.aggregator.updates[d] > cache[d]
                      THEN s.aggregator.updates[d] ELSE cache[d]]

(***************************************************************************)
(* Views and listeners                                                     *)
(***************************************************************************)
Init ==
    /\ reading = [r \in Reads |-> None]
    /\ events = [r \in Reads |-> <<>>]
    /\ muted = {}
    /\ answers = [r \in Reads |-> <<>>]
    /\ worker = <<>>
    /\ listeners = [d \in Docs |-> {}]
    /\ raised = {}
    /\ server \in [Docs -> 0..1]
    /\ cache \in {c \in [Docs -> 0..1] : \A d \in Docs : c[d] <= server[d]}
    /\ remote = Idle
    /\ since = [d \in Docs |-> 0]
    /\ floor = [r \in Reads |-> 0]
    /\ faults = 0

\* ShouldRaiseInitialEvent for a read, which waits for the server while it may be
\* online.
ShouldRaiseInitialEvent(s, d) == d \in s.view \/ s.online = "Offline"

\* OnViewSnapshot and OnOnlineStateChanged for every listener ls, after the step
\* from remote to s with the documents c: an initial event when it is due, another
\* one for every later change of the document or of the view's sync state.
Notify(s, c, ls) ==
    LET changed(d) == c[d] # cache[d] \/ (d \in s.view) # (d \in remote.view)
        listening == UNION {ls[d] : d \in Docs}
        initial == {r \in listening \ raised : ShouldRaiseInitialEvent(s, reading[r])}
        again == {r \in listening \cap raised : changed(reading[r])}
        event(d) == [version |-> c[d], from_cache |-> d \notin s.view]
    IN  /\ raised' = raised \cup initial
        /\ events' = [r \in Reads |-> IF r \in initial \cup again
                                        THEN Append(events[r], event(reading[r]))
                                        ELSE events[r]]

\* The step from remote to s, and what the listeners hear of it.
Step(s, c) ==
    /\ remote' = s
    /\ cache' = c
    /\ Notify(s, c, listeners)

(***************************************************************************)
(* The main thread                                                         *)
(***************************************************************************)
\* DocumentReference::GetDocument: the listener is added on the worker queue.
GetDocument(r, d) ==
    /\ reading[r] = None
    /\ reading' = [reading EXCEPT ![r] = d]
    /\ worker' = Append(worker, [add |-> TRUE, read |-> r])
    /\ UNCHANGED <<events, muted, answers, listeners, raised, cache, remote, server,
                   since, floor, faults>>

\* (mutant) The listener is removed, but not muted.
RemoveOnly(r) ==
    /\ worker' = Append(worker, [add |-> FALSE, read |-> r])
    /\ UNCHANGED muted

\* QueryListenerRegistration::Remove
RemoveListener(r) ==
    /\ worker' = Append(worker, [add |-> FALSE, read |-> r])
    /\ muted' = muted \cup {r}

\* AsyncEventListener, ListenOnce: the first event removes the listener; no
\* document in the cache is an error, as good an answer as any other.
OnEvent(r) ==
    /\ events[r] # <<>>
    /\ events' = [events EXCEPT ![r] = Tail(@)]
    /\ IF r \in muted THEN UNCHANGED <<worker, muted, answers>>
       ELSE /\ RemoveListener(r)
            /\ answers' = [answers EXCEPT ![r] = Append(@, Head(events[r]))]
    /\ UNCHANGED <<reading, listeners, raised, cache, remote, server, since, floor,
                   faults>>

(***************************************************************************)
(* The worker queue: what the main thread enqueued                         *)
(***************************************************************************)
\* EventManager::AddQueryListener, SyncEngine::Listen: the first listener of a
\* document starts to listen, a later one hears of the view there is.
AddQueryListener ==
    LET r == Head(worker).read
        d == reading[r]
        ls == [listeners EXCEPT ![d] = @ \cup {r}]
        first == listeners[d] = {}
        s == IF first THEN ListenTo(remote, d) ELSE remote
    IN  /\ worker # <<>> /\ Head(worker).add
        /\ worker' = Tail(worker)
        /\ listeners' = ls
        /\ remote' = s
        /\ since' = IF first THEN [since EXCEPT ![d] = server[d]] ELSE since
        /\ floor' = [floor EXCEPT ![r] = since'[d]]
        /\ Notify(s, cache, ls)
        /\ UNCHANGED <<reading, muted, answers, cache, server, faults>>

\* EventManager::RemoveQueryListener, SyncEngine::StopListening.
RemoveQueryListener ==
    LET r == Head(worker).read
        d == reading[r]
        last == r \in listeners[d] /\ listeners[d] = {r}
    IN  /\ worker # <<>> /\ ~Head(worker).add
        /\ worker' = Tail(worker)
        /\ listeners' = [listeners EXCEPT ![d] = @ \ {r}]
        /\ remote' = IF last THEN StopListeningTo(remote, d) ELSE remote
        /\ UNCHANGED <<main, raised, cache, server, since, floor, faults>>

(***************************************************************************)
(* The worker queue: timers and the watch stream                           *)
(***************************************************************************)
Fault == faults < MaxFaults /\ faults' = faults + 1
Kept == UNCHANGED <<reading, muted, answers, worker, listeners, since, floor>>

OnlineStateTimeout ==
    LET a == HardAssert(remote, remote.online = "Unknown", "NotUnknown")
    IN  /\ remote.timer
        /\ Step(SetOnline([a EXCEPT !.timer = FALSE], "Offline"), cache)
        /\ Kept /\ UNCHANGED <<server, faults>>

CredentialsArrive(c) ==
    LET got == Credentials(remote, c)
    IN  /\ c \in remote.tokens
        /\ Step(IF UpToDate(remote, c) THEN OnWatchStreamOpen(Opened(got)) ELSE got, cache)
        /\ Kept /\ UNCHANGED <<server, faults>>

CredentialsFail(c) ==
    /\ c \in remote.tokens /\ UpToDate(remote, c) /\ Fault
    /\ Step(Failed(Credentials(remote, c)), cache)
    /\ Kept /\ UNCHANGED server

BackoffElapsed ==
    /\ remote.state = "Backoff"
    /\ Step(BackoffOver(remote), cache)
    /\ Kept /\ UNCHANGED <<server, faults>>

IdleTimeout ==
    /\ remote.idleness_timer
    /\ Step(Stop(remote), cache)
    /\ Kept /\ UNCHANGED <<server, faults>>

StreamFails ==
    /\ IsOpen(remote) /\ Fault
    /\ Step(Failed(remote), cache)
    /\ Kept /\ UNCHANGED server

\* The network comes back, or the credentials change.
NetworkRestarts ==
    /\ Fault
    /\ Step(RestartNetwork(remote), cache)
    /\ Kept /\ UNCHANGED server

\* OnWatchStreamChange: whatever the message says, the client is online.
WatchStreamChange ==
    LET m == Head(remote.down)
        s == UpdateState(Read(remote), "Online")
    IN  /\ remote.down # <<>>
        /\ \/ /\ m.kind \in {"added", "removed"}
              /\ Step(Answered(s, m), cache)
           \/ /\ m.kind \in {"document", "current"}
              /\ Step(Changed(s, m), cache)
           \/ /\ m.kind = "snapshot"
              /\ Step(RemoteEvent(s), NewCache(s))
        /\ Kept /\ UNCHANGED <<server, faults>>

(***************************************************************************)
(* The server answers every request once, and sends a snapshot only when   *)
(* every target it watches is current.                                     *)
(***************************************************************************)
Serve ==
    LET q == Head(remote.up)
        d == q.doc
        documents == {<<Document(d, server[d])>>} \cup
                     IF server[d] = q.known THEN {<<>>} ELSE {}
        told == [remote EXCEPT !.up = Tail(@)]
    IN  /\ remote.up # <<>>
        /\ \/ /\ q.watch
              /\ \E docs \in IF server[d] = 0 THEN {<<>>} ELSE documents :
                    remote' = [told EXCEPT !.watched = @ \cup {d}, !.down = @ \o
                                 <<Message("added", d)>> \o docs \o
                                 <<Message("current", d), Snapshot>>]
           \/ /\ ~q.watch
              /\ remote' = [told EXCEPT !.watched = @ \ {d},
                                        !.down = Append(@, Message("removed", d))]
        /\ UNCHANGED <<main, worker, listeners, raised, cache, server, since, floor, faults>>

\* Somebody writes the document.
Update(d) ==
    /\ server[d] < MaxVersion
    /\ server' = [server EXCEPT ![d] = @ + 1]
    /\ remote' = IF d \notin remote.watched THEN remote
                 ELSE [remote EXCEPT !.down = @ \o <<Document(d, server'[d]), Snapshot>>]
    /\ UNCHANGED <<main, worker, listeners, raised, cache, since, floor, faults>>

Main    == \E r \in Reads : OnEvent(r)
Queued  == AddQueryListener \/ RemoveQueryListener
Connect == \E c \in remote.tokens : CredentialsArrive(c) \/ CredentialsFail(c)

Next ==
    \/ \E r \in Reads, d \in Docs : GetDocument(r, d)
    \/ Main \/ Queued \/ Connect
    \/ OnlineStateTimeout \/ BackoffElapsed \/ IdleTimeout
    \/ StreamFails \/ NetworkRestarts
    \/ WatchStreamChange \/ Serve
    \/ \E d \in Docs : Update(d)

Spec == Init /\ [][Next]_vars

\* The main thread and the worker queue run what is on them, credentials and the
\* server answer, the backoff and the online state timer elapse: one of them,
\* whichever it is, as long as one of them can. Failures are bounded by MaxFaults:
\* they end some day.
Fairness ==
    WF_vars(\/ \E r \in Reads : OnEvent(r)
            \/ Queued \/ Connect \/ BackoffElapsed \/ OnlineStateTimeout
            \/ WatchStreamChange \/ Serve)

FairSpec == Spec /\ Fairness

(***************************************************************************)
(* Properties                                                              *)
(***************************************************************************)
\* No HARD_ASSERT on the read path fails: the online state timer runs only while
\* the state is unknown and is never started twice, the watch stream is stopped
\* only when nothing is listened to, credentials never reach a stream that was
\* closed meanwhile, whatever order failures, timeouts and answers come in.
NoHardAssertFails == remote.failed = {}

\* The callback of a read is called at most once, although the view may change
\* again before the listener is gone from the worker queue.
CalledAtMostOnce == \A r \in Reads : Len(answers[r]) <= 1

\* An answer that claims to be the server's is not older than the listen that it
\* answers, although the messages about an earlier listen of the same target may
\* still be on the wire: the aggregator waits for the answers that are due.
AnswersAreFresh ==
    \A r \in Reads : \A i \in 1..Len(answers[r]) :
        ~answers[r][i].from_cache => answers[r][i].version >= floor[r]

\* Answers that are due are on the wire: of every target the aggregator waits for
\* exactly as many answers as there are requests and answers underway, and a target
\* that is listened to on an open stream is one the server has or is asked for.
AnswersAreDue ==
    \A d \in Docs :
        LET asked == {i \in 1..Len(remote.up) : remote.up[i].doc = d}
            told == {i \in 1..Len(remote.down) :
                        /\ remote.down[i].kind \in {"added", "removed"}
                        /\ remote.down[i].doc = d}
        IN  IsOpen(remote) =>
                /\ remote.aggregator.targets[d].outstanding
                     = Cardinality(asked) + Cardinality(told)
                /\ d \in remote.listen_targets =>
                     IF asked = {} THEN d \in remote.watched
                     ELSE remote.up[Max(asked)].watch

\* Every read is answered in the end, once failures end and the server answers:
\* again and again no read is waiting.
ReadsAreAnswered ==
    []<>(\A r \in Reads : reading[r] # None => Len(answers[r]) > 0)
===============================================================================
