------------------------- MODULE ResumableUploadProofs -------------------------
(***************************************************************************)
(* Proofs about ResumableUpload, for every length of a photo, every size   *)
(* of buffer and granule and every number of failures.                     *)
(***************************************************************************)
EXTENDS ResumableUpload, SequenceTheorems, TLAPS

(***************************************************************************)
(* The inductive invariant                                                 *)
(***************************************************************************)
Statuses == {"none", "active", "final", "cancelled"}
Requests == [command : {"none", "start", "query", "upload"}, offset : Nat,
             body : Seq(Nat), finalize : BOOLEAN]
Replies  == [error : {"none", "badOffset"} \cup Failures, status : Statuses, size : Nat]

\* Every variable has the type of the state it stands for.
UploadTypes ==
    /\ fullUploadLength \in Nat
    /\ stored \in Seq(Nat)
    /\ status \in Statuses
    /\ flight \in Requests
    /\ reply \in Replies
    /\ currentOffset \in Nat
    /\ shouldInitiateOffsetQuery \in BOOLEAN
    /\ completed \in {"none", "success", "error"}

Aligned(n) == n % Granularity = 0

\* What the fetcher sends is a piece of the photo that begins at its current offset,
\* on the boundary of a granule, and ends on another or with the photo.
ChunkIsPiece ==
    /\ Aligned(currentOffset) /\ currentOffset <= fullUploadLength
    /\ flight.command # "upload" => flight.body = <<>>
    /\ flight.command = "upload" =>
           /\ flight.offset = currentOffset
           /\ \A i \in 1..Len(flight.body) : flight.body[i] = flight.offset + i
           /\ flight.offset + Len(flight.body) <= fullUploadLength
           /\ IF flight.finalize THEN flight.offset + Len(flight.body) = fullUploadLength
                                 ELSE Aligned(Len(flight.body))

\* The server has whole granules, until it has everything.
ServerIsAligned ==
    IF status = "final" THEN Len(stored) = fullUploadLength ELSE Aligned(Len(stored))

\* What a reply says of the server is still so when it is handled, as far as the
\* fetcher relies on it.
ReplyIsTrue ==
    /\ reply.status = "final" => status = "final"
    /\ reply.error = "none" /\ reply.status = "active" /\ flight.command = "upload"
           => ~flight.finalize
    /\ reply.error = "none" /\ reply.status # "final" => Aligned(reply.size)

\* The upload is started before it is over.
StartedFirst == flight.command = "start" => status # "final" /\ completed = "none"

UploadInv ==
    /\ UploadTypes
    /\ ChunkIsPiece
    /\ ServerIsAligned
    /\ ReplyIsTrue
    /\ StartedFirst
    /\ StoredIsPrefix
    /\ SuccessMeansStored

(***************************************************************************)
(* Granules                                                                *)
(***************************************************************************)
\* A natural number is a multiple of the granularity and a rest.
LEMMA Granules ==
  ASSUME NEW n \in Nat
  PROVE  \E k \in Nat : n = (k * Granularity) + (n % Granularity)
<1>1. /\ n \div Granularity \in Nat
      /\ n = ((n \div Granularity) * Granularity) + (n % Granularity)
  BY SizesAssumption
<1> QED
  BY <1>1

\* Multiples of the granularity are aligned.
LEMMA MultiplesAligned ==
  ASSUME NEW k \in Nat
  PROVE  Aligned(k * Granularity)
  BY SizesAssumption DEF Aligned

\* The next chunk begins on a boundary when this one does and is whole granules.
LEMMA SumAligned ==
  ASSUME NEW m \in Nat, NEW n \in Nat, Aligned(m), Aligned(n)
  PROVE  Aligned(m + n)
<1>1. PICK k \in Nat : m = (k * Granularity) + (m % Granularity)
  BY Granules
<1>2. PICK l \in Nat : n = (l * Granularity) + (n % Granularity)
  BY Granules
<1>3. m = k * Granularity /\ n = l * Granularity
  BY <1>1, <1>2, SizesAssumption DEF Aligned
<1>4. m + n = (k + l) * Granularity /\ k + l \in Nat
  BY <1>3, SizesAssumption
<1> QED
  BY <1>4, MultiplesAligned

\* The chunk size is some number of whole granules, whatever the buffer's size.
LEMMA ChunkSizeAligned == ChunkSize \in Nat \ {0} /\ Aligned(ChunkSize)
<1>1. CASE BufferSize < Granularity
  BY <1>1, SizesAssumption DEF ChunkSize, Aligned
<1>2. CASE ~(BufferSize < Granularity)
  <2>1. PICK k \in Nat : BufferSize = (k * Granularity) + (BufferSize % Granularity)
    BY Granules, SizesAssumption
  <2>2. ChunkSize = k * Granularity
    BY <1>2, <2>1, SizesAssumption DEF ChunkSize
  <2>3. ChunkSize \in Nat \ {0}
    BY <1>2, SizesAssumption DEF ChunkSize
  <2> QED
    BY <2>2, <2>3, MultiplesAligned
<1> QED
  BY <1>1, <1>2

\* An aligned offset is on the boundary that the header is rounded to.
LEMMA HeaderIsOffset ==
  ASSUME NEW n \in Nat, Aligned(n)
  PROVE  HeaderOffset(n) = n /\ Aligned(0)
  BY SizesAssumption DEF HeaderOffset, Aligned

(***************************************************************************)
(* What the fetcher sends                                                  *)
(***************************************************************************)
\* uploadNextChunk from an aligned offset sends a piece of the photo: it never runs
\* over the end, so that the error branch is not taken.
LEMMA NextChunk ==
  ASSUME UploadInv, NEW offset \in Nat, Aligned(offset), offset <= fullUploadLength,
         UploadNextChunk(offset), UNCHANGED fullUploadLength
  PROVE  /\ flight' \in Requests /\ flight'.command = "upload" /\ reply' = NoReply
         /\ currentOffset' = offset /\ completed' = completed
         /\ ChunkIsPiece'
<1> DEFINE rest == fullUploadLength - offset
           size == ThisChunkSize(rest)
           final == IsFinalChunk(rest)
<1>1. HeaderOffset(offset) = offset /\ fullUploadLength \in Nat /\ rest \in Nat
  BY HeaderIsOffset DEF UploadInv, UploadTypes
<1>2. /\ size \in Nat /\ size <= rest /\ final \in BOOLEAN
      /\ final => size = rest
      /\ ~final => size = ChunkSize
  BY <1>1, ChunkSizeAligned, SizesAssumption DEF ThisChunkSize, IsFinalChunk
<1>3. ~(offset + size > fullUploadLength)
  BY <1>1, <1>2
<1>4. /\ flight' = Request("upload", offset, Subdata(offset, size), final)
      /\ reply' = NoReply /\ currentOffset' = offset /\ completed' = completed
  BY <1>1, <1>3 DEF UploadNextChunk, Send
<1>5. /\ Subdata(offset, size) \in Seq(Nat) /\ Len(Subdata(offset, size)) = size
      /\ \A i \in 1..size : Subdata(offset, size)[i] = offset + i
  BY <1>2 DEF Subdata
<1>6. /\ flight'.command = "upload" /\ flight'.offset = offset
      /\ flight'.body = Subdata(offset, size) /\ flight'.finalize = final
  BY <1>4 DEF Request
<1> HIDE DEF size, final
<1>7. flight' \in Requests
  BY <1>2, <1>4, <1>5 DEF Request, Requests
<1>8. offset + size <= fullUploadLength /\ (final => offset + size = fullUploadLength)
  BY <1>1, <1>2
<1>9. ChunkIsPiece'
  BY <1>2, <1>4, <1>5, <1>6, <1>8, ChunkSizeAligned DEF ChunkIsPiece, Aligned
<1> QED
  BY <1>4, <1>6, <1>7, <1>9

\* A chunk that is sent keeps the invariant, whatever the server has by now.
LEMMA ChunkSent ==
  ASSUME UploadInv, NEW offset \in Nat, Aligned(offset), offset <= fullUploadLength,
         UploadNextChunk(offset), UNCHANGED <<fullUploadLength, server>>,
         shouldInitiateOffsetQuery' \in BOOLEAN
  PROVE  UploadInv'
<1>1. /\ flight' \in Requests /\ flight'.command = "upload" /\ reply' = NoReply
      /\ currentOffset' = offset /\ completed' = completed /\ ChunkIsPiece'
  BY NextChunk
<1>2. /\ NoReply \in Replies /\ NoReply.error = "none" /\ NoReply.status = "none"
      /\ Aligned(NoReply.size)
  BY HeaderIsOffset, SizesAssumption DEF NoReply, Reply, Replies, Statuses, Aligned
<1> QED
  BY <1>1, <1>2 DEF UploadInv, UploadTypes, server, ServerIsAligned, ReplyIsTrue,
     StartedFirst, StoredIsPrefix, SuccessMeansStored

\* A request without a body, or none: the initial one, a query, the end.
LEMMA BodilessSent ==
  ASSUME UploadInv, NEW r \in {StartRequest, QueryRequest, NoRequest},
         Send(r), UNCHANGED <<fullUploadLength, server>>,
         r = StartRequest => flight.command = "start" /\ completed' = completed,
         currentOffset' \in {currentOffset, 0},
         shouldInitiateOffsetQuery' \in BOOLEAN,
         completed' \in {"none", "success", "error"},
         completed' = "success" => status = "final"
  PROVE  UploadInv'
<1>1. /\ r \in Requests /\ r.command # "upload" /\ r.body = <<>>
      /\ r.command = "start" => r = StartRequest
  <2>1. CASE r = StartRequest
    BY <2>1 DEF StartRequest, Request, Requests
  <2>2. CASE r = QueryRequest
    BY <2>2 DEF QueryRequest, Request, Requests
  <2>3. CASE r = NoRequest
    BY <2>3 DEF NoRequest, Request, Requests
  <2> QED
    BY <2>1, <2>2, <2>3
<1>2. /\ NoReply \in Replies /\ NoReply.error = "none" /\ NoReply.status = "none"
      /\ Aligned(NoReply.size) /\ Aligned(0)
  BY SizesAssumption DEF NoReply, Reply, Replies, Statuses, Aligned
<1>3. flight' = r /\ reply' = NoReply /\ stored' = stored /\ status' = status
  BY DEF Send, server
<1>4. UploadTypes'
  BY <1>1, <1>2, <1>3 DEF UploadInv, UploadTypes
<1>5. ChunkIsPiece'
  BY <1>1, <1>2, <1>3 DEF UploadInv, UploadTypes, ChunkIsPiece
<1>6. ServerIsAligned' /\ ReplyIsTrue' /\ StoredIsPrefix'
  BY <1>1, <1>2, <1>3 DEF UploadInv, ServerIsAligned, ReplyIsTrue, StoredIsPrefix
<1>7. StartedFirst'
  BY <1>1, <1>3 DEF UploadInv, StartedFirst
<1>8. SuccessMeansStored'
  BY <1>3 DEF UploadInv, ServerIsAligned, SuccessMeansStored
<1> QED
  BY <1>4, <1>5, <1>6, <1>7, <1>8 DEF UploadInv

\* invokeFinalCallback, with a success only when the server has everything.
LEMMA FinalCallback ==
  ASSUME UploadInv, NEW outcome \in {"success", "error"}, InvokeFinalCallback(outcome),
         outcome = "success" => status = "final", UNCHANGED <<fullUploadLength, server>>,
         currentOffset' \in {currentOffset, 0}, shouldInitiateOffsetQuery' \in BOOLEAN
  PROVE  UploadInv'
<1>1. /\ Send(NoRequest)
      /\ completed' = IF completed = "none" THEN outcome ELSE completed
      /\ completed \in {"none", "success", "error"}
  BY DEF InvokeFinalCallback, UploadInv, UploadTypes
<1>2. /\ completed' \in {"none", "success", "error"}
      /\ completed' = "success" => status = "final"
  BY <1>1 DEF UploadInv, SuccessMeansStored
<1>3. NoRequest # StartRequest
  BY DEF NoRequest, StartRequest, Request
<1> QED
  BY <1>1, <1>2, <1>3, BodilessSent

(***************************************************************************)
(* The handlers                                                            *)
(***************************************************************************)
\* The end of the initial request.
LEMMA InvInitialRequestFinished ==
  ASSUME UploadInv, InitialRequestFinished
  PROVE  UploadInv'
<1>1. /\ UNCHANGED <<fullUploadLength, server>> /\ flight.command = "start"
      /\ shouldInitiateOffsetQuery' \in BOOLEAN /\ Aligned(0)
      /\ fullUploadLength \in Nat /\ completed \in {"none", "success", "error"}
  BY HeaderIsOffset, SizesAssumption
     DEF InitialRequestFinished, Finished, UploadInv, UploadTypes, Aligned
<1>2. CASE UploadNextChunk(0)
  BY <1>1, <1>2, ChunkSent
<1>3. CASE InvokeFinalCallback("error") /\ UNCHANGED currentOffset
  BY <1>1, <1>3, FinalCallback
<1>4. CASE Send(StartRequest) /\ UNCHANGED <<currentOffset, completed>>
  BY <1>1, <1>4, BodilessSent DEF UploadInv, StartedFirst
<1> QED
  BY <1>2, <1>3, <1>4 DEF InitialRequestFinished

\* The end of a chunk or of a query that found the upload over: only what the server
\* reports as final is a success, and the next chunk begins where this one ended.
LEMMA InvChunkFetcherFinished ==
  ASSUME UploadInv, NEW e, ChunkFetcherFinished(e),
         e = "none" => reply.error = "none", flight.command \in {"upload", "query"},
         UNCHANGED <<fullUploadLength, server>>
  PROVE  UploadInv'
<1>1. /\ RetryOffset \in {currentOffset, 0} /\ completed \in {"none", "success", "error"}
      /\ WillQuery \in BOOLEAN /\ shouldInitiateOffsetQuery \in BOOLEAN
  BY DEF RetryOffset, WillQuery, UploadInv, UploadTypes
<1>2. QueryRequest # StartRequest
  BY DEF QueryRequest, StartRequest, Request
<1>3. CASE /\ Send(QueryRequest) /\ currentOffset' = RetryOffset
           /\ shouldInitiateOffsetQuery' = FALSE /\ UNCHANGED completed
  BY <1>1, <1>2, <1>3, BodilessSent DEF UploadInv, SuccessMeansStored
<1>4. CASE /\ InvokeFinalCallback("error") /\ currentOffset' = RetryOffset
           /\ shouldInitiateOffsetQuery' = WillQuery
  BY <1>1, <1>4, FinalCallback
<1>5. CASE /\ InvokeFinalCallback(IF reply.status = "final" THEN "success" ELSE "error")
           /\ UNCHANGED <<currentOffset, shouldInitiateOffsetQuery>>
  BY <1>1, <1>5, FinalCallback DEF UploadInv, ReplyIsTrue
<1>6. CASE /\ e = "none" /\ reply.status = "active"
           /\ UploadNextChunk(currentOffset + Len(flight.body))
           /\ UNCHANGED shouldInitiateOffsetQuery
  <2>1. /\ currentOffset \in Nat /\ flight.body \in Seq(Nat)
        /\ Len(flight.body) \in Nat /\ Aligned(currentOffset)
    BY DEF UploadInv, UploadTypes, Requests, ChunkIsPiece
  <2>2. /\ Aligned(Len(flight.body))
        /\ currentOffset + Len(flight.body) <= fullUploadLength
    <3>1. CASE flight.command = "upload"
      BY <1>6, <3>1 DEF UploadInv, ChunkIsPiece, ReplyIsTrue
    <3>2. CASE flight.command = "query"
      BY <2>1, <3>2, SizesAssumption DEF UploadInv, ChunkIsPiece, Aligned
    <3> QED
      BY <3>1, <3>2
  <2>3. currentOffset + Len(flight.body) \in Nat
    BY <2>1
  <2> QED
    BY <1>1, <1>6, <2>1, <2>2, <2>3, SumAligned, ChunkSent
<1> QED
  BY <1>3, <1>4, <1>5, <1>6 DEF ChunkFetcherFinished

\* A chunk is answered: it is the last, the next one follows, or the server is asked.
LEMMA InvChunkFinished ==
  ASSUME UploadInv, ChunkFinished
  PROVE  UploadInv'
  BY InvChunkFetcherFinished DEF ChunkFinished, Finished

\* A query resumes where the server says, which is on a boundary.
LEMMA InvQueryFinished ==
  ASSUME UploadInv, QueryFinished
  PROVE  UploadInv'
<1>1. flight.command = "query" /\ UNCHANGED <<fullUploadLength, server>>
  BY DEF QueryFinished, Finished
<1>2. CASE \/ reply.error # "none" /\ ChunkFetcherFinished(reply.error)
           \/ ChunkFetcherFinished("premature")
           \/ reply.error = "none" /\ ChunkFetcherFinished("none")
  BY <1>1, <1>2, InvChunkFetcherFinished
<1>3. CASE /\ reply.error = "none" /\ reply.status # "final"
           /\ ~(reply.size >= fullUploadLength)
           /\ UploadNextChunk(ResumeOffset) /\ UNCHANGED shouldInitiateOffsetQuery
  <2>1. /\ reply.size \in Nat /\ Aligned(reply.size) /\ fullUploadLength \in Nat
        /\ shouldInitiateOffsetQuery \in BOOLEAN
    BY <1>3 DEF UploadInv, UploadTypes, Replies, ReplyIsTrue
  <2>2. reply.size <= fullUploadLength
    BY <1>3, <2>1
  <2> QED
    BY <1>1, <1>3, <2>1, <2>2, ChunkSent DEF ResumeOffset
<1> QED
  BY <1>2, <1>3 DEF QueryFinished

(***************************************************************************)
(* The server                                                              *)
(***************************************************************************)
\* The server begins an upload with nothing.
LEMMA InvServerStart ==
  ASSUME UploadInv, ServerStart
  PROVE  UploadInv'
<1>1. /\ flight.command = "start" /\ stored' = <<>> /\ status' = "active"
      /\ reply' = Reply("none", "active", 0)
      /\ UNCHANGED <<fullUploadLength, flight, currentOffset, shouldInitiateOffsetQuery,
                     completed>>
  BY DEF ServerStart, Serving, Answer, fetcher
<1>2. /\ reply' \in Replies /\ reply'.status = "active" /\ reply'.size = 0
      /\ Aligned(0) /\ stored' \in Seq(Nat) /\ Len(stored') = 0
  BY <1>1, SizesAssumption DEF Reply, Replies, Statuses, Aligned
<1> QED
  BY <1>1, <1>2 DEF UploadInv, UploadTypes, Statuses, ChunkIsPiece, ServerIsAligned,
     ReplyIsTrue, StartedFirst, StoredIsPrefix, SuccessMeansStored

\* A reply that leaves what the server has alone.
LEMMA InvReply ==
  ASSUME UploadInv, NEW e \in {"none", "badOffset"}, reply' = Reply(e, status, Len(stored)),
         e = "none" /\ flight.command = "upload" => status # "active",
         UNCHANGED <<fullUploadLength, server, flight, fetcher>>
  PROVE  UploadInv'
<1>1. /\ reply' \in Replies /\ reply'.error = e /\ reply'.status = status
      /\ reply'.size = Len(stored)
  BY DEF Reply, Replies, UploadInv, UploadTypes
<1> QED
  BY <1>1 DEF server, fetcher, UploadInv, UploadTypes, ChunkIsPiece, ServerIsAligned,
     ReplyIsTrue, StartedFirst, StoredIsPrefix, SuccessMeansStored

\* The server tells how much it has.
LEMMA InvServerQuery ==
  ASSUME UploadInv, ServerQuery
  PROVE  UploadInv'
<1>1. /\ reply' = Reply("none", status, Len(stored)) /\ flight.command = "query"
      /\ UNCHANGED <<fullUploadLength, server, flight, fetcher>>
  BY DEF ServerQuery, Serving, Answer, server
<1> QED
  BY <1>1, InvReply

\* A chunk that is not in its place is refused.
LEMMA InvServerRefuses ==
  ASSUME UploadInv, ServerRefuses
  PROVE  UploadInv'
<1>1. /\ reply' = Reply(IF status = "active" THEN "badOffset" ELSE "none", status,
                        Len(stored))
      /\ UNCHANGED <<fullUploadLength, server, flight, fetcher>>
  BY DEF ServerRefuses, Serving, Answer, server
<1> QED
  BY <1>1, InvReply

\* What is appended in place, the whole chunk or its first n bytes, is the next piece of
\* the photo.
LEMMA PieceInPlace ==
  ASSUME UploadInv, flight.command = "upload", InPlace, NEW n \in 0..Len(flight.body),
         stored' = stored \o SubSeq(flight.body, 1, n)
  PROVE  /\ stored' \in Seq(Nat) /\ Len(stored') = Len(stored) + n
         /\ StoredIsPrefix'
<1>1. /\ stored \in Seq(Nat) /\ flight.body \in Seq(Nat)
      /\ flight.offset = Len(stored)
      /\ \A i \in 1..Len(flight.body) : flight.body[i] = Len(stored) + i
      /\ \A i \in 1..Len(stored) : stored[i] = i
  BY DEF InPlace, UploadInv, UploadTypes, Requests, ChunkIsPiece, StoredIsPrefix
<1>2. /\ SubSeq(flight.body, 1, n) \in Seq(Nat) /\ Len(SubSeq(flight.body, 1, n)) = n
      /\ \A i \in 1..n : SubSeq(flight.body, 1, n)[i] = Len(stored) + i
  <2>1. /\ Len(flight.body) \in Nat /\ n \in Nat /\ n <= Len(flight.body)
        /\ \A i \in 1..n : i \in 1..Len(flight.body) /\ flight.body[i] \in Nat
    BY <1>1
  <2>2. /\ SubSeq(flight.body, 1, n) \in Seq(Nat)
        /\ Len(SubSeq(flight.body, 1, n)) = IF 1 <= n THEN n - 1 + 1 ELSE 0
        /\ \A i \in 1..(n - 1 + 1) : SubSeq(flight.body, 1, n)[i] = flight.body[1 + i - 1]
    BY <2>1, SubSeqProperties
  <2>3. \A i \in 1..n : i \in 1..(n - 1 + 1) /\ 1 + i - 1 = i
    BY <2>1
  <2> QED
    BY <1>1, <2>1, <2>2, <2>3
<1>3. /\ stored' \in Seq(Nat) /\ Len(stored') = Len(stored) + n
      /\ \A i \in 1..Len(stored) : stored'[i] = i
      /\ \A i \in 1..n : stored'[Len(stored) + i] = Len(stored) + i
  BY <1>1, <1>2
<1>4. \A j \in 1..Len(stored') : j \in 1..Len(stored) \/ j - Len(stored) \in 1..n
  BY <1>1, <1>3
<1>5. ASSUME NEW j \in 1..Len(stored') PROVE stored'[j] = j
  <2>1. CASE j \in 1..Len(stored)
    BY <1>3, <2>1
  <2>2. CASE j - Len(stored) \in 1..n
    <3>1. stored'[Len(stored) + (j - Len(stored))] = Len(stored) + (j - Len(stored))
      BY <1>3, <2>2
    <3>2. Len(stored) + (j - Len(stored)) = j
      BY <1>1, <1>3
    <3> QED
      BY <3>1, <3>2
  <2> QED
    BY <1>4, <2>1, <2>2
<1> QED
  BY <1>3, <1>5 DEF StoredIsPrefix

\* The server takes a chunk; the last one makes the photo complete.
LEMMA InvServerChunk ==
  ASSUME UploadInv, ServerChunk
  PROVE  UploadInv'
<1>1. /\ flight.command = "upload" /\ InPlace /\ stored' = stored \o flight.body
      /\ status' = IF flight.finalize THEN "final" ELSE "active"
      /\ reply' = Reply("none", status', Len(stored'))
      /\ UNCHANGED <<fullUploadLength, flight, currentOffset, shouldInitiateOffsetQuery,
                     completed>>
  BY DEF ServerChunk, Serving, Answer, fetcher
<1>2. flight.body \in Seq(Nat) /\ Len(flight.body) \in Nat /\ Len(stored) \in Nat
  BY DEF UploadInv, UploadTypes, Requests
<1>3. flight.body = SubSeq(flight.body, 1, Len(flight.body))
  BY <1>2
<1>4. /\ stored' \in Seq(Nat) /\ Len(stored') = Len(stored) + Len(flight.body)
      /\ StoredIsPrefix'
  <2>1. /\ Len(flight.body) \in 0..Len(flight.body)
        /\ stored' = stored \o SubSeq(flight.body, 1, Len(flight.body))
    BY <1>1, <1>2, <1>3
  <2> QED
    BY <1>1, <2>1, PieceInPlace
<1>5. status = "active" /\ flight.offset = Len(stored)
  BY <1>1 DEF InPlace
<1>6. IF flight.finalize THEN Len(stored') = fullUploadLength ELSE Aligned(Len(stored'))
  <2>1. CASE flight.finalize
    BY <1>1, <1>4, <1>5, <2>1 DEF UploadInv, ChunkIsPiece
  <2>2. CASE ~flight.finalize
    <3>1. Aligned(Len(flight.body)) /\ Aligned(Len(stored))
      BY <1>1, <1>5, <2>2 DEF UploadInv, ChunkIsPiece, ServerIsAligned
    <3> QED
      BY <1>2, <1>4, <2>2, <3>1, SumAligned
  <2> QED
    BY <2>1, <2>2
<1>7. /\ reply' \in Replies /\ reply'.error = "none" /\ reply'.status = status'
      /\ reply'.size = Len(stored') /\ status' \in {"active", "final"}
      /\ status' = "final" <=> flight.finalize
  BY <1>1, <1>4 DEF Reply, Replies, Statuses
<1>8. UploadTypes' /\ ChunkIsPiece' /\ ServerIsAligned' /\ ReplyIsTrue'
  BY <1>1, <1>4, <1>6, <1>7 DEF UploadInv, UploadTypes, Statuses, ChunkIsPiece,
     ServerIsAligned, ReplyIsTrue
<1>9. StartedFirst' /\ SuccessMeansStored'
  BY <1>1, <1>5 DEF UploadInv, StartedFirst, SuccessMeansStored
<1> QED
  BY <1>4, <1>8, <1>9 DEF UploadInv

(***************************************************************************)
(* Failures                                                                *)
(***************************************************************************)
\* A reply that says only that something went wrong.
LEMMA FailureReply ==
  ASSUME NEW e \in Failures
  PROVE  /\ Reply(e, "none", 0) \in Replies /\ Reply(e, "none", 0).error # "none"
         /\ Reply(e, "none", 0).status = "none"
  BY DEF Reply, Replies, Statuses, Failures

\* A request or its answer is lost.
LEMMA InvLost ==
  ASSUME UploadInv, NEW e \in Failures, Lost(e)
  PROVE  UploadInv'
  BY FailureReply DEF Lost, server, fetcher, UploadInv, UploadTypes, ChunkIsPiece,
     ServerIsAligned, ReplyIsTrue, StartedFirst, StoredIsPrefix, SuccessMeansStored

\* A chunk breaks off on a boundary.
LEMMA InvPartlyTaken ==
  ASSUME UploadInv, NEW e \in Failures, NEW n \in 0..fullUploadLength, PartlyTaken(e, n)
  PROVE  UploadInv'
<1>1. /\ flight.command = "upload" /\ InPlace /\ status = "active"
      /\ n <= Len(flight.body) /\ Aligned(Len(stored) + n)
      /\ stored' = stored \o SubSeq(flight.body, 1, n)
      /\ reply' = Reply(e, "none", 0)
      /\ UNCHANGED <<fullUploadLength, status, flight, currentOffset,
                     shouldInitiateOffsetQuery, completed>>
  BY DEF PartlyTaken, Serving, InPlace, Aligned, fetcher
<1>2. fullUploadLength \in Nat /\ Len(flight.body) \in Nat
  BY DEF UploadInv, UploadTypes, Requests
<1>3. n \in 0..Len(flight.body)
  BY <1>1, <1>2
<1>4. /\ stored' \in Seq(Nat) /\ Len(stored') = Len(stored) + n
      /\ StoredIsPrefix'
  BY <1>1, <1>3, PieceInPlace
<1> QED
  BY <1>1, <1>4, FailureReply DEF UploadInv, UploadTypes, ChunkIsPiece, ServerIsAligned,
     ReplyIsTrue, StartedFirst, SuccessMeansStored

\* The server gives up: what it has stays as it is.
LEMMA InvExpire ==
  ASSUME UploadInv, Expire
  PROVE  UploadInv'
  BY DEF Expire, fetcher, UploadInv, UploadTypes, Statuses, ChunkIsPiece, ServerIsAligned,
     ReplyIsTrue, StartedFirst, StoredIsPrefix, SuccessMeansStored

(***************************************************************************)
(* The theorems                                                            *)
(***************************************************************************)
\* The upload begins with nothing stored and the start request on its way.
LEMMA InvInit == Init => UploadInv
<1> SUFFICES ASSUME Init PROVE UploadInv
  OBVIOUS
<1> USE DEF Init
<1>1. /\ fullUploadLength \in Nat /\ Aligned(0) /\ stored \in Seq(Nat) /\ Len(stored) = 0
  BY LengthsAssumption, SizesAssumption DEF Aligned
<1>2. /\ flight \in Requests /\ flight.command = "start" /\ flight.body = <<>>
  BY DEF StartRequest, Request, Requests
<1>3. /\ reply \in Replies /\ reply.status = "none" /\ reply.size = 0
  BY DEF NoReply, Reply, Replies, Statuses
<1>4. UploadTypes
  BY <1>1, <1>2, <1>3 DEF UploadTypes, Statuses
<1>5. StoredIsPrefix
  BY <1>1 DEF StoredIsPrefix
<1>6. ChunkIsPiece /\ ServerIsAligned /\ StartedFirst
  BY <1>1, <1>2 DEF ChunkIsPiece, ServerIsAligned, StartedFirst
<1>7. ReplyIsTrue /\ SuccessMeansStored
  BY <1>1, <1>2, <1>3 DEF ReplyIsTrue, SuccessMeansStored
<1> QED
  BY <1>4, <1>5, <1>6, <1>7 DEF UploadInv

\* Every step of the fetcher, of the server and of the network keeps the invariant.
LEMMA InvNext == UploadInv /\ [Next]_vars => UploadInv'
<1> SUFFICES ASSUME UploadInv, [Next]_vars PROVE UploadInv'
  OBVIOUS
<1>1. CASE Client
  BY <1>1, InvInitialRequestFinished, InvChunkFinished, InvQueryFinished DEF Client
<1>2. CASE Server
  BY <1>2, InvServerStart, InvServerQuery, InvServerChunk, InvServerRefuses DEF Server
<1>3. CASE Expire
  BY <1>3, InvExpire
<1>4. CASE \E e \in Failures : \/ Lost(e)
                               \/ \E n \in 0..fullUploadLength : PartlyTaken(e, n)
  BY <1>4, InvLost, InvPartlyTaken
<1>5. CASE UNCHANGED vars
  BY <1>5 DEF vars, server, fetcher, UploadInv, UploadTypes, ChunkIsPiece,
     ServerIsAligned, ReplyIsTrue, StartedFirst, StoredIsPrefix, SuccessMeansStored
<1> QED
  BY <1>1, <1>2, <1>3, <1>4, <1>5 DEF Next

\* The invariant holds in every reachable state of an upload.
THEOREM UploadInvariant == Spec => []UploadInv
<1> QED
  BY InvInit, InvNext, PTL DEF Spec

\* Whatever chunks, replies and queries are lost or repeated, the server has the
\* beginning of the photo, for every length, buffer size and granularity.
THEOREM StoredPrefix == Spec => []StoredIsPrefix
<1>1. UploadInv => StoredIsPrefix
  BY DEF UploadInv
<1> QED
  BY <1>1, UploadInvariant, PTL

\* The completion handler reports a success only for a photo that is stored whole.
THEOREM SuccessIsTrue == Spec => []SuccessMeansStored
<1>1. UploadInv => SuccessMeansStored
  BY DEF UploadInv
<1> QED
  BY <1>1, UploadInvariant, PTL
=============================================================================
