---------------------------- MODULE ResumableUpload ----------------------------
(***************************************************************************)
(* The upload of one photo with putData: GTMSessionUploadFetcher starts an *)
(* upload, sends the photo in chunks and, when it does not know what       *)
(* became of a chunk, asks the server how much it has.                     *)
(*                                                                         *)
(* One request is in flight at a time. A handler of the fetcher runs when  *)
(* there is a reply to it. A photo is its length: the byte at position i   *)
(* is the number i, so that a byte in the wrong place is seen.             *)
(***************************************************************************)
EXTENDS Integers, Sequences

CONSTANTS
    Lengths,       \* the lengths a photo may have
    BufferSize,    \* kGTMSessionUploadFetcherMaximumDemandBufferSize
    Granularity,   \* what the server wants chunks to be a multiple of
    Slack,         \* a rest smaller than this goes with the chunk before it
    MaxFaults      \* bound: what the network and the server lose

ASSUME LengthsAssumption == Lengths \subseteq Nat
ASSUME SizesAssumption == /\ BufferSize \in Nat \ {0}
                          /\ Granularity \in Nat \ {0}
                          /\ Slack \in Nat
ASSUME FaultsAssumption == MaxFaults \in Nat

VARIABLES
    fullUploadLength,          \* of the photo
    \* The server.
    stored,                    \* the bytes it has
    status,                    \* "none", "active", "final" or "cancelled"
    \* The fetcher.
    flight,                    \* the request in flight
    reply,                     \* what its fetcher finished with, if it has
    currentOffset,
    shouldInitiateOffsetQuery,
    completed,                 \* what the completion handler was called with
    faults

server  == <<stored, status>>
fetcher == <<currentOffset, shouldInitiateOffsetQuery, completed>>
vars == <<fullUploadLength, server, flight, reply, fetcher, faults>>

Request(c, o, b, f) == [command |-> c, offset |-> o, body |-> b, finalize |-> f]
StartRequest == Request("start", 0, <<>>, FALSE)
QueryRequest == Request("query", 0, <<>>, FALSE)
NoRequest    == Request("none", 0, <<>>, FALSE)

\* error: "none"; "retry", for a timeout or a lost connection; "badOffset", a 4xx
\* of an active upload; or "fatal".
Reply(e, s, n) == [error |-> e, status |-> s, size |-> n]
NoReply == Reply("none", "none", 0)

Init ==
    /\ fullUploadLength \in Lengths
    /\ stored = <<>> /\ status = "none"
    /\ flight = StartRequest /\ reply = NoReply
    /\ currentOffset = 0 /\ shouldInitiateOffsetQuery = FALSE
    /\ completed = "none"
    /\ faults = 0

(***************************************************************************)
(* The chunks                                                              *)
(***************************************************************************)
\* The photo is data in memory: a chunk is never larger than the buffer.
ChunkSize == IF BufferSize < Granularity THEN Granularity
             ELSE BufferSize - (BufferSize % Granularity)

HeaderOffset(offset) == offset - (offset % Granularity)

\* The chunk takes what is left, or all but a rest that is not worth a request.
IsFinalChunk(rest) == ChunkSize >= rest \/ rest - Slack < ChunkSize

\* (mutant) The last chunk is not stretched to the rest.
ChunkOnly(rest) == IF ChunkSize >= rest THEN rest ELSE ChunkSize

ThisChunkSize(rest) == IF IsFinalChunk(rest) THEN rest ELSE ChunkSize

\* (mutant) The bytes are those from where the last chunk began.
SubdataOfLast(offset, length) == [i \in 1..length |-> currentOffset + i]

\* generateChunkSubdata, from the offset as it was before updateChunkFetcher rounded it.
Subdata(offset, length) == [i \in 1..length |-> offset + i]

Send(r) == flight' = r /\ reply' = NoReply

\* invokeFinalCallback, then the task's completion. The handler is released first: a
\* second call would find none.
InvokeFinalCallback(outcome) ==
    /\ completed' = IF completed = "none" THEN outcome ELSE completed
    /\ Send(NoRequest)

\* uploadNextChunk, updateChunkFetcher, beginChunkFetcher.
UploadNextChunk(offset) ==
    LET at == HeaderOffset(offset)
        rest == fullUploadLength - at
        size == ThisChunkSize(rest)
    IN  IF offset + size > fullUploadLength
          THEN InvokeFinalCallback("error") /\ UNCHANGED currentOffset
          ELSE /\ Send(Request("upload", at, Subdata(offset, size), IsFinalChunk(rest)))
               /\ currentOffset' = offset
               /\ UNCHANGED completed

(***************************************************************************)
(* The handlers                                                            *)
(***************************************************************************)
Finished(c) == flight.command = c /\ reply # NoReply

\* The end of the initial request: beginChunkFetches, or the fetcher's own retry. A
\* reply without the location of the upload ends as one that is not active does, and
\* the server of this module always names it.
InitialRequestFinished ==
    /\ Finished("start")
    /\ \/ /\ reply.error = "none" /\ reply.status = "active"
          /\ UploadNextChunk(0)
       \/ /\ \/ reply.error = "fatal"
             \/ reply.error = "none" /\ reply.status # "active"
          /\ InvokeFinalCallback("error")
          /\ UNCHANGED currentOffset
       \/ /\ reply.error = "retry"
          /\ Send(StartRequest)
          /\ UNCHANGED <<currentOffset, completed>>
    /\ UNCHANGED <<fullUploadLength, server, shouldInitiateOffsetQuery, faults>>

\* The retry block: the offset is not known any more.
RetryOffset == IF reply.error = "retry" THEN 0 ELSE currentOffset

\* ... and the server will be asked, unless it was just asked in vain.
WillQuery == IF reply.error = "retry" THEN flight.command # "query"
             ELSE shouldInitiateOffsetQuery

\* chunkFetcher:finishedWithData:error:, also for a query that ends the upload; e is
\* the error.
ChunkFetcherFinished(e) ==
    \/ /\ e # "none"
       /\ WillQuery \/ (e = "badOffset" /\ Len(flight.body) > 0)
       /\ Send(QueryRequest)
       /\ currentOffset' = RetryOffset
       /\ shouldInitiateOffsetQuery' = FALSE
       /\ UNCHANGED completed
    \/ /\ e # "none"
       /\ ~WillQuery /\ ~(e = "badOffset" /\ Len(flight.body) > 0)
       /\ InvokeFinalCallback("error")
       /\ currentOffset' = RetryOffset
       /\ shouldInitiateOffsetQuery' = WillQuery
    \/ /\ e = "none" /\ reply.status \in {"final", "cancelled"}
       /\ InvokeFinalCallback(IF reply.status = "final" THEN "success" ELSE "error")
       /\ UNCHANGED <<currentOffset, shouldInitiateOffsetQuery>>
    \/ /\ e = "none" /\ reply.status = "active"
       /\ UploadNextChunk(currentOffset + Len(flight.body))
       /\ UNCHANGED shouldInitiateOffsetQuery

ChunkFinished ==
    /\ Finished("upload")
    /\ ChunkFetcherFinished(reply.error)
    /\ UNCHANGED <<fullUploadLength, server, faults>>

\* (mutant) The upload goes on where the fetcher believes it was.
FromCurrentOffset == currentOffset

\* The server's offset.
ResumeOffset == reply.size

\* queryFetcher:finishedWithData:error:. A cancelled upload is an error, and so is an
\* active one of unknown size, but the server of this module always tells the size.
QueryFinished ==
    /\ Finished("query")
    /\ IF reply.error # "none" THEN ChunkFetcherFinished(reply.error)
       ELSE IF reply.status = "cancelled" THEN ChunkFetcherFinished("premature")
       ELSE IF reply.status = "final" \/ reply.size >= fullUploadLength
         THEN ChunkFetcherFinished("none")
       ELSE UploadNextChunk(ResumeOffset) /\ UNCHANGED shouldInitiateOffsetQuery
    /\ UNCHANGED <<fullUploadLength, server, faults>>

(***************************************************************************)
(* The server, which keeps whole granules of a chunk that breaks off       *)
(***************************************************************************)
Serving(c) == flight.command = c /\ reply = NoReply
Answer(e) == reply' = Reply(e, status', Len(stored'))

ServerStart ==
    /\ Serving("start")
    /\ stored' = <<>> /\ status' = "active"
    /\ Answer("none")
    /\ UNCHANGED <<fullUploadLength, flight, fetcher, faults>>

ServerQuery ==
    /\ Serving("query")
    /\ UNCHANGED server
    /\ Answer("none")
    /\ UNCHANGED <<fullUploadLength, flight, fetcher, faults>>

InPlace == status = "active" /\ flight.offset = Len(stored)

ServerChunk ==
    /\ Serving("upload") /\ InPlace
    /\ stored' = stored \o flight.body
    /\ status' = IF flight.finalize THEN "final" ELSE "active"
    /\ Answer("none")
    /\ UNCHANGED <<fullUploadLength, flight, fetcher, faults>>

\* A chunk in the wrong place, or of an upload that is over.
ServerRefuses ==
    /\ Serving("upload") /\ ~InPlace
    /\ UNCHANGED server
    /\ Answer(IF status = "active" THEN "badOffset" ELSE "none")
    /\ UNCHANGED <<fullUploadLength, flight, fetcher, faults>>

Fault == faults < MaxFaults /\ faults' = faults + 1
Failures == {"retry", "fatal"}

\* The request does not reach the server, or its answer does not arrive.
Lost(e) ==
    /\ flight # NoRequest /\ reply.error \notin Failures /\ Fault
    /\ reply' = Reply(e, "none", 0)
    /\ UNCHANGED <<fullUploadLength, server, flight, fetcher>>

\* The connection breaks in the middle of a chunk.
PartlyTaken(e, n) ==
    /\ Serving("upload") /\ InPlace /\ Fault
    /\ n <= Len(flight.body) /\ (Len(stored) + n) % Granularity = 0
    /\ stored' = stored \o SubSeq(flight.body, 1, n)
    /\ reply' = Reply(e, "none", 0)
    /\ UNCHANGED <<fullUploadLength, status, flight, fetcher>>

\* The server gives the upload up.
Expire ==
    /\ status = "active" /\ Fault
    /\ status' = "cancelled"
    /\ UNCHANGED <<fullUploadLength, stored, flight, reply, fetcher>>

Client == InitialRequestFinished \/ ChunkFinished \/ QueryFinished
Server == ServerStart \/ ServerQuery \/ ServerChunk \/ ServerRefuses

Next ==
    \/ Client \/ Server \/ Expire
    \/ \E e \in Failures : \/ Lost(e)
                           \/ \E n \in 0..fullUploadLength : PartlyTaken(e, n)

Spec == Init /\ [][Next]_vars

\* Every request is answered, if only with an error, and every reply is handled.
\* Failures are bounded by MaxFaults: they end some day.
FairSpec == Spec /\ WF_vars(Client \/ Server)

(***************************************************************************)
(* Properties                                                              *)
(***************************************************************************)
\* What the server has is at every moment the beginning of the photo: no chunk that
\* is sent again is stored twice or in the wrong place, whatever was lost.
StoredIsPrefix == \A i \in 1..Len(stored) : stored[i] = i

\* The handler hears of a success, on which the entry of the photo depends, only when
\* the server has the whole photo. (Of an error it may hear although the server has it.)
SuccessMeansStored ==
    completed = "success" => status = "final" /\ Len(stored) = fullUploadLength

\* Every upload ends, once failures end, unless the server took the last byte of the
\* photo and not the end of the upload: a query that is told so sends a chunk that
\* the server has, is told to ask again, and so on.
UploadEnds ==
    \/ <>(completed # "none")
    \/ <>[](status = "active" /\ Len(stored) = fullUploadLength /\ stored # <<>>)
=============================================================================
