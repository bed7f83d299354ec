--------------------------- MODULE ResponseWriter ---------------------------
(***************************************************************************)
(* A response from the handler to the wire: the setters of HttpResponse    *)
(* with its lazily computed length (HttpResponse.cpp, HttpResponse.h,      *)
(* ChunkedBody.cpp), the compression that replaces the body                *)
(* (GzipCompression.cpp), and the writers of an HTTP/1 session, which try  *)
(* a non-blocking write first and finish asynchronously                    *)
(* (HttpSessionImpl.cpp).                                                  *)
(*                                                                         *)
(* A unit of the wire is <<response, kind>>: the two parts of a head, of   *)
(* which the first carries the length it declares, a piece of body (or one *)
(* chunk), and the last chunk.                                             *)
(***************************************************************************)
EXTENDS Integers, Sequences, FiniteSetsExt, SequencesExt

CONSTANTS
    MaxResponses, MaxOps,  \* responses of a connection, calls on one response
    MaxBody,               \* bodies and files have 0..MaxBody pieces
    MaxBatch               \* kMaxResponseBatchBytes, in units

VARIABLE a

NoLength == -1
Chunked == -2
HeadEnd == -3
Data == -4
LastChunk == -5
None == -1

Pieces(n) == [i \in 1..n |-> Data]

-----------------------------------------------------------------------------
(* HttpResponse and NativeResponse.                                         *)

Response == [status |-> 200, cl |-> NoLength, te |-> FALSE, body |-> <<>>, file |-> None,
             chunks |-> None, finished |-> FALSE, prepared |-> FALSE]

Invalidate(r) == [r EXCEPT !.prepared = FALSE]

PreparePayload(r) ==
    IF r.prepared THEN r
    ELSE LET p == [r EXCEPT !.prepared = TRUE]
         IN IF r.chunks # None THEN [p EXCEPT !.te = TRUE, !.cl = NoLength]
            ELSE IF r.file # None THEN [p EXCEPT !.cl = r.file]
            ELSE IF r.te THEN [p EXCEPT !.cl = NoLength]
            ELSE IF r.body = <<>> /\ r.status \in {204, 304} THEN p
            ELSE [p EXCEPT !.cl = Len(r.body)]

SetStatus(r, s) == [Invalidate(r) EXCEPT !.status = s]

SetBody(r, n) == PreparePayload([Invalidate(r) EXCEPT !.body = Pieces(n)])

SetFileBody(r, n) == [Invalidate(r) EXCEPT !.file = n, !.body = <<>>]

\* The writer fills the body after jsonWriter() has returned.
JsonWriterStale(r, n) == [r EXCEPT !.body = Pieces(n)]
JsonWriter(r, n) == [Invalidate(r) EXCEPT !.body = Pieces(n)]

ChunkWrite(r) == IF r.finished THEN r ELSE [r EXCEPT !.chunks = @ + 1]
ChunkEnd(r) == [r EXCEPT !.finished = TRUE]
SerializeChunkedBody(r) == Append(Pieces(r.chunks), LastChunk)

\* compressionEligible() and applyCompressed(): a large body becomes chunk frames.
CompressionEligible(r) ==
    r.body # <<>> /\ r.chunks = None /\ r.file = None /\ ~r.te /\ r.status \notin {204, 304}

ApplyCompressed(r, n) ==
    LET large == Len(r.body) = MaxBody
    IN PreparePayload([Invalidate(r) EXCEPT
           !.body = IF large THEN Append(Pieces(n), LastChunk) ELSE Pieces(n),
           !.cl = NoLength, !.te = large])

-----------------------------------------------------------------------------
(* The writers.  What is left to do for a response is a list of writes, one *)
(* after the other: bytes, tried without blocking first unless "direct", or *)
(* the rest of a file.                                                      *)

HeadOf(n, r) == <<<<n, IF r.te THEN Chunked ELSE r.cl>>, <<n, HeadEnd>>>>
BodyOf(n, kinds) == [i \in DOMAIN kinds |-> <<n, kinds[i]>>]
Bytes(direct, data) == [op |-> "bytes", direct |-> direct, data |-> data, left |-> 0]
FileRest(n) == [op |-> "file", direct |-> TRUE, data |-> <<>>, left |-> n]

WriteResponse(n, r, isHead) ==
    IF r.chunks # None /\ ~isHead
    THEN <<Bytes(TRUE, HeadOf(n, r) \o BodyOf(n, SerializeChunkedBody(r)))>>
    ELSE <<Bytes(FALSE, HeadOf(n, r) \o (IF isHead THEN <<>> ELSE BodyOf(n, r.body)))>>

WriteFileResponse(n, r) == <<Bytes(TRUE, HeadOf(n, r)), FileRest(r.file)>>

AppendResponseToBatch(batch, n, r, isHead) ==
    batch \o HeadOf(n, r) \o (IF isHead THEN <<>> ELSE BodyOf(n, r.body))

FlushResponseBatch(s) ==
    IF s.batch = <<>> THEN s
    ELSE [s EXCEPT !.todo = Append(@, Bytes(FALSE, s.batch)), !.batch = <<>>]

Wire(n, r, isHead) ==
    HeadOf(n, r) \o (IF isHead THEN <<>>
                     ELSE IF r.chunks # None THEN BodyOf(n, SerializeChunkedBody(r))
                     ELSE IF r.file # None THEN BodyOf(n, Pieces(r.file)) ELSE BodyOf(n, r.body))

\* The session hands a response over: it joins the batch when it is small and the next
\* request is already there, and is written behind the batch otherwise.
Dispatch(s, isHead, keepAlive, more) ==
    LET r == PreparePayload(s.res)
        n == s.n
        t == [s EXCEPT !.n = @ + 1, !.ops = 0, !.res = Response, !.heads = IF isHead THEN @ \cup {n} ELSE @,
                       !.empty = IF r.status \in {204, 304} THEN @ \cup {n} ELSE @,
                       !.want = @ \o Wire(n, r, isHead), !.keepAlive = keepAlive]
        alone == FlushResponseBatch(t)
        out == IF r.file # None /\ ~isHead THEN WriteFileResponse(n, r) ELSE WriteResponse(n, r, isHead)
        joined == [t EXCEPT !.batch = AppendResponseToBatch(@, n, r, isHead)]
    IN IF \/ ~keepAlive \/ r.file # None \/ r.chunks # None
          \/ Len(r.body) >= MaxBatch \/ (s.batch = <<>> /\ ~more)
       THEN [alone EXCEPT !.todo = @ \o out]
       ELSE IF Len(joined.batch) >= MaxBatch THEN FlushResponseBatch(joined) ELSE joined

\* write_some() took k units, or none; writeRemaining() goes on behind them.
WriteRemaining(data, k) == SubSeq(data, k + 1, Len(data))

Sent(s, k) ==
    LET w == Head(s.todo)
        rest == WriteRemaining(w.data, k)
    IN [s EXCEPT !.wire = @ \o SubSeq(w.data, 1, k),
                 !.todo = IF rest = <<>> THEN Tail(@) ELSE <<Bytes(TRUE, rest)>> \o Tail(@)]

-----------------------------------------------------------------------------
\* Asynchronous file reads are a property of the build.
Init ==
    \E async, tls \in BOOLEAN :
        a = [async |-> async, tls |-> tls, n |-> 1, ops |-> 0, res |-> Response, batch |-> <<>>, todo |-> <<>>,
             wire |-> <<>>, want |-> <<>>, heads |-> {}, empty |-> {}, keepAlive |-> TRUE, open |-> TRUE,
             short |-> FALSE]

Building == a.open /\ a.todo = <<>> /\ a.keepAlive /\ a.n <= MaxResponses

Call(r) == a' = [a EXCEPT !.res = r, !.ops = @ + 1]

\* A handler or a middleware changes the response; HttpResponse::chunked() comes first, and
\* such a response is given no file.
Build ==
    /\ Building /\ a.ops < MaxOps
    /\ \/ \E s \in {200, 204} : Call(SetStatus(a.res, s))
       \/ \E n \in 0..MaxBody : \/ Call(SetBody(a.res, n))
                                \/ Call(JsonWriter(a.res, n))
                                \/ a.res.chunks = None /\ Call(SetFileBody(a.res, n))
       \/ Call(PreparePayload(a.res))
       \/ a.ops = 0 /\ Call([a.res EXCEPT !.chunks = 0])
       \/ a.res.chunks # None /\ (Call(ChunkWrite(a.res)) \/ Call(ChunkEnd(a.res)))

\* The compression runs behind the handler; a 204 or 304 has been given no body.
Finish ==
    /\ Building
    /\ a.res.status \in {204, 304} => a.res.body = <<>> /\ a.res.file \in {None, 0} /\ a.res.chunks = None
    /\ \E isHead, keepAlive, more \in BOOLEAN :
       \E r \in {a.res} \cup (IF CompressionEligible(a.res) THEN {ApplyCompressed(a.res, 1)} ELSE {}) :
          a' = Dispatch([a EXCEPT !.res = r], isHead, keepAlive, more)

\* The session comes to the end of its input and flushes the batch before it waits.
Idle == Building /\ a.batch # <<>> /\ a' = FlushResponseBatch(a)

\* tryOptimisticWrite() or a step of async_write.
Write ==
    /\ a.open /\ a.todo # <<>> /\ Head(a.todo).op = "bytes"
    /\ LET w == Head(a.todo)
       IN \E k \in 0..Len(w.data) :
             /\ IF w.direct THEN k > 0 ELSE ~a.tls \/ k = 0
             /\ a' = Sent(a, k)

\* One round of the file loop: the file may have lost its end, which is an exception of
\* an asynchronous file and the end of the loop otherwise.
WriteFile ==
    /\ a.open /\ a.todo # <<>> /\ Head(a.todo).op = "file"
    /\ LET left == Head(a.todo).left
       IN IF left = 0 THEN a' = [a EXCEPT !.todo = Tail(@)]
          ELSE \/ \E k \in 1..left : a' = [a EXCEPT !.wire = @ \o BodyOf(a.n - 1, Pieces(k)),
                                                    !.todo[1].left = @ - k]
               \/ a' = IF a.async THEN [a EXCEPT !.open = FALSE]
                       ELSE [a EXCEPT !.todo = Tail(@), !.short = TRUE]

\* The peer is gone: the write throws and the session ends.
Fail == a.open /\ a.todo # <<>> /\ a' = [a EXCEPT !.open = FALSE]

Next == Build \/ Finish \/ Idle \/ Write \/ WriteFile \/ Fail

-----------------------------------------------------------------------------
TypeOK ==
    /\ a.n \in 1..(MaxResponses + 1) /\ a.ops \in 0..MaxOps
    /\ \A i \in DOMAIN a.wire : a.wire[i][1] \in 1..MaxResponses

\* What has been written is the beginning of the responses one behind the other: no byte is
\* repeated after a partial write, lost, or overtaken, unless a file lost its end.
WireExact == ~a.short => IsPrefix(a.wire, a.want)

\* What a client makes of the wire from unit i on: the responses it reads, by the lengths
\* their heads declare, and 0 where it finds no head or waits for a body that never comes.
RECURSIVE ClientReads(_)
ClientReads(i) ==
    LET n == a.wire[i][1]
        length == a.wire[i][2]
        from == i + 2
        ends == IF n \in a.heads \cup a.empty THEN {from}
                ELSE IF length >= 0 THEN {from + length}
                ELSE {j + 1 : j \in {k \in from..Len(a.wire) : a.wire[k][2] = LastChunk}}
    IN IF i > Len(a.wire) THEN IF i = Len(a.wire) + 1 THEN <<>> ELSE <<0>>
       ELSE IF length \in {HeadEnd, Data, LastChunk} \/ ends = {} THEN <<0>>
       ELSE <<n>> \o ClientReads(Min(ends))

\* When everything has been written the client has read every response, each from its own
\* head, whatever calls made it: the declared length is the length of the final body.
Framed ==
    a.open /\ a.todo = <<>> /\ a.batch = <<>> /\ ~a.short =>
        ClientReads(1) = [i \in 1..(a.n - 1) |-> i]
=============================================================================
