----------------------------- MODULE PendingWrites -----------------------------
(***************************************************************************)
(* What Firestore's write path is to its caller, as far as the order of    *)
(* the writes goes: every user has a queue of writes that survives the     *)
(* process; the server commits a user's writes, for the first time, in the *)
(* order in which they were made, and drops the ones it refuses. That it   *)
(* may commit a write again whose answer was lost is not told here: log    *)
(* holds the first commit of each.                                         *)
(***************************************************************************)
EXTENDS Sequences

CONSTANTS
    Users,     \* the users of the device, the one who is nobody included
    Writes,    \* the writes that may be made
    Bad        \* the writes that the server refuses

VARIABLES
    queue,     \* per user: the writes that are waiting, oldest first
    log        \* the writes the server has committed, by their first commit

Init == queue = [u \in Users |-> <<>>] /\ log = <<>>

Enqueue(u, w) ==
    /\ queue' = [queue EXCEPT ![u] = Append(queue[u], w)]
    /\ UNCHANGED log

Commit(u) ==
    /\ queue[u] # <<>> /\ Head(queue[u]) \notin Bad
    /\ log' = Append(log, Head(queue[u]))
    /\ queue' = [queue EXCEPT ![u] = Tail(queue[u])]

Refuse(u) ==
    /\ queue[u] # <<>> /\ Head(queue[u]) \in Bad
    /\ queue' = [queue EXCEPT ![u] = Tail(queue[u])]
    /\ UNCHANGED log

Next == \E u \in Users : \/ \E w \in Writes : Enqueue(u, w)
                         \/ Commit(u) \/ Refuse(u)

Spec == Init /\ [][Next]_<<queue, log>>
=============================================================================
