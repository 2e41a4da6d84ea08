----------------------------- MODULE WritePipeline -----------------------------
(***************************************************************************)
(* Firestore's write path, from WriteMutations to the server's commit: the *)
(* persisted mutation queues, the write pipeline of the remote store, and  *)
(* the write stream.                                                       *)
(*                                                                         *)
(* All of it runs on one worker queue, so that an action is one operation  *)
(* of that queue with everything it calls. A method that changes the       *)
(* remote store or its stream is an operator from state to state, and an   *)
(* action composes them as the method's body does. A HARD_ASSERT that      *)
(* fails is recorded in the state's failed.                                *)
(***************************************************************************)
EXTENDS Integers, Sequences, FiniteSets, Stream

CONSTANTS
    Users,             \* the users of the device, the one who is nobody included
    Writes,            \* the writes that may be made, once each
    Bad,               \* the writes that the server refuses
    kMaxPendingWrites, \* the capacity of the pipeline
    MaxFaults          \* bound: failures, reconnections, changes of user

ASSUME WritesAssumption == Bad \subseteq Writes
ASSUME CapacityAssumption == kMaxPendingWrites \in Nat \ {0}
ASSUME FaultsAssumption == MaxFaults \in Nat

VARIABLES
    \* Persisted: LevelDB and the server.
    mutation_queue,    \* per user: the batches that are pending, oldest first
    log,               \* the writes the server committed, in order
    \* The process.
    running,
    current_user,      \* of the sync engine
    next_batch_id,     \* of the mutation queue
    callbacks,         \* mutation_callbacks_: per user, the batches that have one
    remote,            \* the remote store and its write stream
    \* History.
    issued,            \* the writes made so far, with their users
    acked, rejected,   \* the writes that left the queue, and how
    told,              \* what the callbacks were told
    faults

local   == <<mutation_queue, next_batch_id, callbacks, issued>>
outcome == <<acked, rejected, told>>
vars    == <<local, log, running, current_user, remote, outcome, faults>>

Batch(i, w) == [id |-> i, write |-> w]
Handshake == Batch(0, "handshake")
Queue == mutation_queue[current_user]

(***************************************************************************)
(* The remote store: the state of its write stream, with the pipeline, the *)
(* network switch and the handshake.                                       *)
(***************************************************************************)
Idle == [is_network_enabled |-> TRUE, pipeline |-> <<>>,
         handshake_complete |-> FALSE,
         state |-> "Initial", close_count |-> 0, tokens |-> {},
         idleness_timer |-> FALSE, up |-> <<>>, down |-> <<>>, failed |-> {}]

ShouldStartWriteStream(s) ==
    s.is_network_enabled /\ ~IsStarted(s) /\ s.pipeline # <<>>

StartIfNeeded(s) == IF ShouldStartWriteStream(s) THEN Start(s) ELSE s

\* WriteMutations, for a sequence of batches.
WriteMutations(s, bs) ==
    WriteAll(HardAssert(s, s.handshake_complete \/ bs = <<>>, "NoHandshake"), bs)

\* Where a seek for the key of a batch ends: so many rows of the queue are before it.
Seek(q, id) == Cardinality({i \in 1..Len(q) : q[i].id < id})

\* GetNextMutationBatch, again and again: the batches after the last one that the
\* pipeline has, as long as there is room.
NextBatches(q, s) ==
    LET last == IF s.pipeline = <<>> THEN -1 ELSE s.pipeline[Len(s.pipeline)].id
        n == Seek(q, last + 1)
        room == kMaxPendingWrites - Len(s.pipeline)
    IN  SubSeq(q, n + 1, IF Len(q) < n + room THEN Len(q) ELSE n + room)

\* (mutant) New batches wait for the stream to be opened again.
FillLater(s, q) ==
    LET bs == NextBatches(q, s)
        added == [s EXCEPT !.pipeline = s.pipeline \o bs]
    IN  StartIfNeeded(IF added.pipeline = <<>> THEN MarkIdle(added) ELSE added)

\* FillWritePipeline: what is added is sent at once when the stream is ready; with
\* nothing to send the stream is idle.
FillWritePipeline(s, q) ==
    LET bs == NextBatches(q, s)
        added == [s EXCEPT !.pipeline = s.pipeline \o bs]
        sent == IF IsOpen(added) /\ added.handshake_complete
                  THEN WriteMutations(added, bs) ELSE added
    IN  IF ~s.is_network_enabled THEN s
        ELSE StartIfNeeded(IF sent.pipeline = <<>> THEN MarkIdle(sent) ELSE sent)

HandshakeReset(s) == [s EXCEPT !.handshake_complete = FALSE]

\* Stop: OnWriteStreamClose checks that a stop was wanted.
Stop(s) ==
    LET c == Closed(s, "Initial")
    IN  IF ~IsStarted(s) THEN s
        ELSE HandshakeReset(StartIfNeeded(
                 HardAssert(c, ~ShouldStartWriteStream(c), "StillNeeded")))

\* An error that no write is to blame for: the pipeline is kept, and sent again.
Failed(s) == HandshakeReset(StartIfNeeded(Closed(s, "Error")))

\* A permanent error after the handshake is the first write's: it leaves the
\* pipeline, and q is the queue without it.
Refused(s, q) ==
    LET c == Closed(s, "Error")
        popped == [c EXCEPT !.pipeline = Tail(c.pipeline)]
    IN  HandshakeReset(StartIfNeeded(FillWritePipeline(InhibitBackoff(popped), q)))

\* DisableNetworkInternal and EnableNetwork.
RestartNetwork(s, q) ==
    LET stopped == Stop([s EXCEPT !.is_network_enabled = FALSE])
        ready == InhibitBackoff([stopped EXCEPT !.pipeline = <<>>])
    IN  FillWritePipeline([ready EXCEPT !.is_network_enabled = TRUE], q)

(***************************************************************************)
(* The local store                                                         *)
(***************************************************************************)
\* (mutant) Every mutation queue numbers its batches from 1.
FirstBatchId(queues) == 1

\* LoadNextBatchIdFromDb: beyond every batch of every user.
LoadNextBatchId(queues) ==
    LET ids == UNION {{queues[u][i].id : i \in 1..Len(queues[u])} : u \in Users}
    IN  IF ids = {} THEN 1 ELSE 1 + CHOOSE m \in ids : \A i \in ids : i <= m

\* RemoveMutationBatch, which must find the batch.
Without(b) ==
    LET n == Seek(Queue, b.id)
    IN  SubSeq(Queue, 1, n) \o SubSeq(Queue, n + 2, Len(Queue))
Found(s, b) == HardAssert(s, \E i \in 1..Len(Queue) : Queue[i] = b, "BatchNotFound")

\* (mutant) A callback is looked up and left in place.
NotifyAndKeep(b, ok) ==
    /\ told' = told \cup {[write |-> c.write, ok |-> ok] :
                             c \in {x \in callbacks[current_user] : x.id = b.id}}
    /\ UNCHANGED callbacks

\* NotifyUser: a callback is found by the batch's number, and called once.
NotifyUser(b, ok) ==
    LET called == {x \in callbacks[current_user] : x.id = b.id}
    IN  /\ told' = told \cup {[write |-> c.write, ok |-> ok] : c \in called}
        /\ callbacks' = [callbacks EXCEPT ![current_user] = @ \ called]

Init ==
    /\ mutation_queue = [u \in Users |-> <<>>]
    /\ log = <<>>
    /\ running = TRUE
    /\ current_user \in Users
    /\ next_batch_id = 1
    /\ callbacks = [u \in Users |-> {}]
    /\ remote = Idle
    /\ issued = <<>>
    /\ acked = {} /\ rejected = {} /\ told = {}
    /\ faults = 0

(***************************************************************************)
(* The operations of the worker queue                                      *)
(***************************************************************************)
\* SyncEngine::WriteMutations: insert keeps a callback that has the number already.
Write(w) ==
    LET b == Batch(next_batch_id, w)
        mine == callbacks[current_user]
    IN  /\ running /\ \A i \in 1..Len(issued) : issued[i].write # w
        /\ issued' = Append(issued, [user |-> current_user, write |-> w])
        /\ mutation_queue' = [mutation_queue EXCEPT ![current_user] = Append(Queue, b)]
        /\ next_batch_id' = next_batch_id + 1
        /\ callbacks' = [callbacks EXCEPT ![current_user] =
                            IF \E x \in mine : x.id = b.id THEN mine
                            ELSE mine \cup {b}]
        /\ remote' = FillWritePipeline(remote, mutation_queue'[current_user])
        /\ UNCHANGED <<log, running, current_user, outcome, faults>>

Fault == faults < MaxFaults /\ faults' = faults + 1

\* SyncEngine::HandleCredentialChange: another user has another mutation queue.
HandleCredentialChange(u) ==
    /\ running /\ Fault
    /\ current_user' = u
    /\ next_batch_id' = IF u = current_user THEN next_batch_id
                        ELSE LoadNextBatchId(mutation_queue)
    /\ remote' = RestartNetwork(remote, mutation_queue[u])
    /\ UNCHANGED <<mutation_queue, callbacks, issued, log, running, outcome>>

\* The connectivity monitor reports a network.
ConnectivityChanged ==
    /\ running /\ Fault
    /\ remote' = RestartNetwork(remote, Queue)
    /\ UNCHANGED <<local, log, running, current_user, outcome>>

\* The credentials asked for when the stream was started are there: the stream
\* opens, and writes the handshake, unless it was closed meanwhile.
CredentialsArrive(c) ==
    LET got == Credentials(remote, c)
    IN  /\ running /\ c \in remote.tokens
        /\ remote' = IF UpToDate(remote, c)
                       THEN WriteAll(Opened(got), <<Handshake>>) ELSE got
        /\ UNCHANGED <<local, log, running, current_user, outcome, faults>>

\* They could not be had.
CredentialsFail(c) ==
    /\ running /\ c \in remote.tokens /\ UpToDate(remote, c) /\ Fault
    /\ remote' = Failed(Credentials(remote, c))
    /\ UNCHANGED <<local, log, running, current_user, outcome>>

BackoffElapsed ==
    /\ running /\ remote.state = "Backoff"
    /\ remote' = BackoffOver(remote)
    /\ UNCHANGED <<local, log, running, current_user, outcome, faults>>

IdleTimeout ==
    /\ running /\ remote.idleness_timer
    /\ remote' = Stop(remote)
    /\ UNCHANGED <<local, log, running, current_user, outcome, faults>>

\* The next message from the server, if it is m.
Receive(m) == running /\ remote.down # <<>> /\ Head(remote.down) = m

\* (mutant) The pipeline is not sent again.
SentNothing(s) == s

\* OnWriteStreamHandshakeComplete: the whole pipeline is sent.
SendPipeline(s) == WriteMutations(s, s.pipeline)

HandshakeComplete ==
    /\ Receive("handshake")
    /\ remote' = SendPipeline([Read(remote) EXCEPT !.handshake_complete = TRUE])
    /\ UNCHANGED <<local, log, running, current_user, outcome, faults>>

\* OnWriteStreamMutationResult and HandleSuccessfulWrite: the answer is the first
\* write's. RemoveMutationBatch follows the callback. The code asserts that there is
\* a first write; that no answer comes without one is part of AnswersMatchPipeline.
MutationResult ==
    LET s == Read(remote)
        b == Head(remote.pipeline)
    IN  /\ Receive("ok")
        /\ remote.pipeline # <<>>
        /\ NotifyUser(b, TRUE)
        /\ acked' = acked \cup {b.write}
        /\ mutation_queue' = [mutation_queue EXCEPT ![current_user] = Without(b)]
        /\ remote' = FillWritePipeline(
               Found([s EXCEPT !.pipeline = Tail(s.pipeline)], b),
               mutation_queue'[current_user])
        /\ UNCHANGED <<next_batch_id, issued, log, running, current_user,
                       rejected, faults>>

\* (mutant) The write that was sent last is blamed.
BlamedLast == remote.pipeline[Len(remote.pipeline)]

\* HandleWriteError blames the first write of the pipeline.
Blamed == Head(remote.pipeline)

\* The stream ends with a permanent error: HandleWriteError, HandleRejectedWrite.
WriteRejected ==
    LET b == Blamed
    IN  /\ Receive("refused")
        /\ remote.handshake_complete /\ remote.pipeline # <<>>
        /\ NotifyUser(b, FALSE)
        /\ rejected' = rejected \cup {b.write}
        /\ mutation_queue' = [mutation_queue EXCEPT ![current_user] = Without(b)]
        /\ remote' = Refused(Found(remote, b), mutation_queue'[current_user])
        /\ UNCHANGED <<next_batch_id, issued, log, running, current_user, acked,
                       faults>>

\* It ends with any other error, at any time. (Close would take a server that ends it
\* with status OK for a stop of the client's own, and OnWriteStreamClose asserts that
\* one is wanted: the server is assumed never to do so.)
StreamFails ==
    /\ running /\ IsOpen(remote) /\ Fault
    /\ remote' = Failed(remote)
    /\ UNCHANGED <<local, log, running, current_user, outcome>>

(***************************************************************************)
(* The process, and the server                                             *)
(***************************************************************************)
Crash ==
    /\ running /\ Fault
    /\ running' = FALSE
    /\ callbacks' = [u \in Users |-> {}]
    /\ remote' = Idle
    /\ UNCHANGED <<mutation_queue, next_batch_id, issued, log, current_user,
                   outcome>>

\* The next process: LocalStore::Start, RemoteStore::Start.
Restart(u) ==
    /\ ~running
    /\ running' = TRUE
    /\ current_user' = u
    /\ next_batch_id' = LoadNextBatchId(mutation_queue)
    /\ remote' = FillWritePipeline(Idle, mutation_queue[u])
    /\ UNCHANGED <<mutation_queue, callbacks, issued, log, outcome, faults>>

\* The server takes the next message of the connection, unless it has ended it.
Serving == /\ remote.up # <<>>
           /\ \A i \in 1..Len(remote.down) : remote.down[i] # "refused"
Reply(m) == remote' = [remote EXCEPT !.up = Tail(remote.up),
                                     !.down = Append(remote.down, m)]

ServerHandshake ==
    /\ Serving /\ Head(remote.up) = Handshake
    /\ Reply("handshake")
    /\ UNCHANGED <<local, log, running, current_user, outcome, faults>>

InLog(w) == \E i \in 1..Len(log) : log[i] = w

ServerCommit ==
    /\ Serving /\ Head(remote.up) # Handshake
    /\ Head(remote.up).write \notin Bad
    /\ Reply("ok")
    /\ log' = Append(log, Head(remote.up).write)
    /\ UNCHANGED <<local, running, current_user, outcome, faults>>

ServerRefuse ==
    /\ Serving /\ Head(remote.up) # Handshake
    /\ Head(remote.up).write \in Bad
    /\ Reply("refused")
    /\ UNCHANGED <<local, log, running, current_user, outcome, faults>>

Connect == \E c \in remote.tokens : CredentialsArrive(c) \/ CredentialsFail(c)
Respond == HandshakeComplete \/ MutationResult \/ WriteRejected
Server  == ServerHandshake \/ ServerCommit \/ ServerRefuse

Next ==
    \/ \E w \in Writes : Write(w)
    \/ \E u \in Users : HandleCredentialChange(u) \/ Restart(u)
    \/ ConnectivityChanged \/ StreamFails \/ Crash
    \/ Connect \/ BackoffElapsed \/ IdleTimeout
    \/ Respond \/ Server

Spec == Init /\ [][Next]_vars

\* The worker queue runs what is on it, credentials and the server answer, timers
\* elapse: one of them, whichever it is, as long as one of them can. Failures are
\* bounded by MaxFaults: they end some day. Nobody has to write, sign in or start
\* the process again.
Fairness == WF_vars(Connect \/ BackoffElapsed \/ Respond \/ Server)

FairSpec == Spec /\ Fairness

(***************************************************************************)
(* Properties                                                              *)
(***************************************************************************)
InQueue(u, w) == \E i \in 1..Len(mutation_queue[u]) : mutation_queue[u][i].write = w
Issued == {issued[i].write : i \in 1..Len(issued)}

\* No HARD_ASSERT on the write path fails, whatever order failures, reconnections,
\* changes of user, timeouts and answers come in: a stream is stopped only when it
\* is not needed, started only when it is stopped, written to only when it is
\* ready, and credentials never reach a stream that was closed meanwhile.
NoHardAssertFails == remote.failed = {}

\* Answers are matched to writes by position alone: what is on the wire are the
\* answers of the first writes of the pipeline, then the requests of the rest,
\* and the pipeline is the front of its user's queue.
AnswersMatchPipeline ==
    LET answers == Len(remote.down)
        wire == remote.up
    IN  /\ \A i \in 1..Len(remote.pipeline) : /\ i <= Len(Queue)
                                              /\ remote.pipeline[i] = Queue[i]
        /\ Len(remote.pipeline) <= kMaxPendingWrites
        /\ remote.handshake_complete =>
               /\ answers <= Len(remote.pipeline)
               /\ \A i \in 1..answers :
                      (remote.down[i] = "refused")
                          = (remote.pipeline[i].write \in Bad)
               /\ wire = SubSeq(remote.pipeline, answers + 1, Len(remote.pipeline))

\* Every write ever made is pending, or it was acknowledged and is committed, or
\* it was rejected, and only a write the server refuses ever is: across crashes,
\* changes of user, and errors that cannot tell which write they are about.
NoWriteLost ==
    /\ \A i \in 1..Len(issued) :
           LET w == issued[i].write
           IN  \/ InQueue(issued[i].user, w)
               \/ w \in acked /\ InLog(w)
               \/ w \in rejected
    /\ rejected \subseteq Bad

\* A write's completion is called at most once, with what became of that write,
\* although completions are found by a batch number that is given out again.
CompletionsTellTheTruth ==
    /\ \A t \in told : t.write \in (IF t.ok THEN acked ELSE rejected)
    /\ \A u \in Users : \A c \in callbacks[u] : InQueue(u, c.write)

\* To its caller, the write path is PendingWrites, if a write that is sent again,
\* its answer having been lost, counts when the server commits it first: commits
\* may be unknown to the device for long. What it has committed of a queue are the
\* first writes, so that the ones after them are outstanding.
Outstanding(u) ==
    LET q == mutation_queue[u]
        n == Cardinality({i \in 1..Len(q) : InLog(q[i].write)})
    IN  [i \in 1..(Len(q) - n) |-> q[n + i].write]
FirstCommits ==
    LET new == {i \in 1..Len(log) : \A j \in 1..(i - 1) : log[j] # log[i]}
    IN  [k \in 1..Cardinality(new) |->
            log[CHOOSE i \in new : Cardinality(new \cap 1..i) = k]]
Pending == INSTANCE PendingWrites WITH queue <- [u \in Users |-> Outstanding(u)],
                                       log <- FirstCommits
ImplementsPendingWrites == Pending!Spec

\* What the user who is signed in has written is settled in the end, once failures
\* end: again and again the queue of that user is empty, or the process is dead.
\* With NoWriteLost, a write that left the queue was acknowledged or rejected.
WritesSettle == []<>(Queue = <<>> \/ ~running)
=============================================================================
