------------------------------ MODULE HttpSession ------------------------------
(* One HTTP/1 connection: HttpServer::handleSession                          *)
(* (src/core/HttpSessionImpl.cpp).  The client's bytes are the positions of  *)
(* one stream; readBuf and pipelineSpill are slices of it.  A request is a   *)
(* header of HeaderLen bytes and a body of reqs[i].size bytes.  Requests are *)
(* handled one after the other; their responses gather in responseBatch and  *)
(* leave it in one write.                                                    *)
EXTENDS Integers, Sequences, FiniteSets

CONSTANTS
    Streams,   \* sequences of requests a client may send
    Chains,    \* middleware in use: "none", "global", "gate", "group"
    HeaderLen, \* bytes of a request header
    BatchMax,  \* kMaxResponseBatchBytes, in responses
    MaxOut     \* responses written before the model stops following a connection

ASSUME BoundsAssumption == {HeaderLen, BatchMax, MaxOut} \subseteq Nat \ {0}

VARIABLES
    reqs,      \* what the client sends
    chain,     \* the server's middleware
    sent,      \* bytes the client has sent
    peer,      \* "open"; "shut": the client sends no more; "gone": reset or closed as idle
    draining,  \* draining_
    rd,        \* bytes read from the socket
    spill,     \* pipelineSpill
    buf,       \* readBuf; its len is bufUsed
    src,       \* spillSrc
    rem,       \* remainingInBuf
    want,      \* body bytes not yet received
    cur,       \* the request being handled
    bodyRead,  \* bodyRead
    after,     \* where readRequestBody() returns to
    whole,     \* the body of cur has been read to its end
    res,       \* the response to cur
    batch,     \* responseBatch
    out,       \* what has been written to the socket
    pc,
    dirty      \* a response kept the connection open with its request's body unread

request == <<src, rem, want, cur, bodyRead, after, whole, res>>
client == <<reqs, chain, sent, peer, draining>>
vars == <<client, rd, spill, buf, request, batch, out, pc, dirty>>

Nothing == [at |-> 0, len |-> 0]
Total(i) == HeaderLen + reqs[i].size

\* Where request i starts in the stream.
Start(i) ==
    LET start[k \in 1..(Len(reqs) + 1)] ==
            IF k = 1 THEN 0 ELSE start[k - 1] + Total(k - 1)
    IN start[i]

Least(a, b) == IF a < b THEN a ELSE b

Init ==
    /\ reqs \in Streams /\ chain \in Chains
    /\ sent = 0 /\ peer = "open" /\ draining = FALSE
    /\ rd = 0 /\ spill = Nothing /\ buf = Nothing
    /\ src = 0 /\ rem = 0 /\ want = 0 /\ cur = 0
    /\ bodyRead = FALSE /\ after = "dispatch" /\ whole = FALSE /\ res = "plain"
    /\ batch = <<>> /\ out = <<>> /\ pc = "top" /\ dirty = FALSE

-----------------------------------------------------------------------------
(* The client, the idle scanner and the server's gracefulStop()              *)

Send ==
    /\ peer = "open" /\ sent < Start(Len(reqs) + 1)
    /\ sent' = sent + 1
    /\ UNCHANGED <<reqs, chain, peer, draining, rd, spill, buf, request, batch, out, pc, dirty>>

Shut ==
    /\ peer = "open" /\ peer' = "shut"
    /\ UNCHANGED <<reqs, chain, sent, draining, rd, spill, buf, request, batch, out, pc, dirty>>

Leave ==
    /\ peer # "gone" /\ peer' = "gone"
    /\ UNCHANGED <<reqs, chain, sent, draining, rd, spill, buf, request, batch, out, pc, dirty>>

Drain ==
    /\ ~draining /\ draining' = TRUE
    /\ UNCHANGED <<reqs, chain, sent, peer, rd, spill, buf, request, batch, out, pc, dirty>>

-----------------------------------------------------------------------------
(* Reading and writing.  An exception outside the dispatch ends the session; *)
(* inside it becomes a 500 response.                                         *)

Ended == peer = "gone" \/ (peer = "shut" /\ rd = sent)

\* async_read_some() with room for `room` bytes delivers n of them.
Reads(n, room) ==
    /\ peer # "gone" /\ n \in 1..Least(sent - rd, room)
    /\ rd' = rd + n

\* flushPendingResponses(), then a write of `more`, then on to `next`; a write
\* that fails raises an exception, which leads to `fail`.
Write(more, next, fail) ==
    IF batch \o more = <<>> \/ peer # "gone"
    THEN out' = out \o batch \o more /\ batch' = <<>> /\ pc' = next
    ELSE UNCHANGED <<out, batch>> /\ pc' = fail

Flush(next) == Write(<<>>, next, "done")

\* A response that announces the end of the connection.
Closing(i) == <<[req |-> i, what |-> "close"]>>
Reply(i) == <<[req |-> i, what |-> "reply"]>>
Continue(i) == <<[req |-> i, what |-> "continue"]>>

\* The error response of readRequestBody(), or the 500 for an exception.
Fails == res' = "plain" /\ pc' = "respond"

-----------------------------------------------------------------------------
(* The loop: a slice to parse, from the spill or from the socket             *)

Top ==
    /\ pc = "top" /\ (Len(out) < MaxOut \/ peer = "gone")
    /\ IF spill.len = 0
       THEN Flush("readFirst") /\ UNCHANGED <<spill, buf>>
       ELSE buf' = spill /\ spill' = Nothing /\ pc' = "parse" /\ UNCHANGED <<batch, out>>
    /\ UNCHANGED <<client, rd, request, dirty>>

ReadFirst ==
    /\ pc = "readFirst"
    /\ \E n \in 1..(sent - rd) :
          Reads(n, sent) /\ buf' = [at |-> rd, len |-> n]
    /\ pc' = "parse"
    /\ UNCHANGED <<client, spill, request, batch, out, dirty>>

ReadHead ==
    /\ pc = "readHead"
    /\ \E n \in 1..(sent - rd) :
          Reads(n, sent) /\ buf' = [buf EXCEPT !.len = @ + n]
    /\ pc' = "parse"
    /\ UNCHANGED <<client, spill, request, batch, out, dirty>>

\* Mutant: only the end of the stream is noticed.
ReadEndsOnEof ==
    /\ pc \in {"readFirst", "readHead"} /\ peer = "shut" /\ rd = sent
    /\ pc' = "done"
    /\ UNCHANGED <<client, rd, spill, buf, request, batch, out, dirty>>

\* End of stream or an error where no dispatch catches it.
ReadEnds ==
    /\ pc \in {"readFirst", "readHead"} /\ Ended
    /\ pc' = "done"
    /\ UNCHANGED <<client, rd, spill, buf, request, batch, out, dirty>>

\* The request that starts at the front of buf; 0 when no request does.
Parsed == CHOOSE i \in 0..Len(reqs) :
              IF i = 0 THEN \A j \in 1..Len(reqs) : Start(j) # buf.at
                       ELSE Start(i) = buf.at

\* sendRawResponse() and co_return: 400, 431, 501, 404, 405.
Reject(i) == Write(Closing(i), "done", "done")

Malformed(i) == i = 0 \/ (buf.len >= HeaderLen /\ reqs[i].head = "bad")

\* The head is whole: framing, routing, and what of buf follows the header.
Accept(i) ==
    IF reqs[i].route = "deep" \/ (reqs[i].route = "nowhere" /\ reqs[i].body # "none")
    THEN Reject(i) /\ UNCHANGED request
    ELSE /\ cur' = i /\ rem' = buf.len - HeaderLen /\ src' = 0 /\ bodyRead' = FALSE
         /\ whole' = FALSE /\ want' = 0
         /\ pc' = IF reqs[i].route = "upgrade" THEN "upgrade" ELSE "chain"
         /\ UNCHANGED <<after, res, batch, out>>

\* Mutant: the rest of a head is awaited with responses in the batch.
ParseNoFlush ==
    /\ pc = "parse"
    /\ \/ Malformed(Parsed) /\ Reject(Parsed) /\ UNCHANGED request
       \/ /\ ~Malformed(Parsed) /\ buf.len < HeaderLen /\ pc' = "readHead"
          /\ UNCHANGED <<request, batch, out>>
       \/ ~Malformed(Parsed) /\ buf.len >= HeaderLen /\ Accept(Parsed)
    /\ UNCHANGED <<client, rd, spill, buf, dirty>>

Parse ==
    /\ pc = "parse"
    /\ \/ Malformed(Parsed) /\ Reject(Parsed) /\ UNCHANGED request
       \/ ~Malformed(Parsed) /\ buf.len < HeaderLen /\ Flush("readHead") /\ UNCHANGED request
       \/ ~Malformed(Parsed) /\ buf.len >= HeaderLen /\ Accept(Parsed)
    /\ UNCHANGED <<client, rd, spill, buf, dirty>>

\* An upgrade request of a WebSocket or SSE route: its own middleware may
\* refuse it; otherwise the socket is moved into the new session.
Upgrade ==
    /\ pc = "upgrade"
    /\ Flush("handed") \/ Reject(cur)
    /\ UNCHANGED <<client, rd, spill, buf, request, dirty>>

-----------------------------------------------------------------------------
(* Middleware and dispatch                                                   *)

\* A middleware answers by itself, or throws, and does not call next.
ShortCircuit ==
    /\ pc \in {"chain", "gated"} /\ chain \in {"global", "gate"}
    /\ ~(pc = "chain" /\ chain = "gate")
    /\ res' = "plain" /\ pc' = "respond"
    /\ UNCHANGED <<client, rd, spill, buf, src, rem, want, cur, bodyRead, after, whole,
                   batch, out, dirty>>

\* The gate of a useBody() layer, or the tail of the chain, needs the body.
EnterChain ==
    /\ pc = "chain" /\ pc' = "body"
    /\ after' = IF chain = "gate" THEN "gated" ELSE "dispatch"
    /\ UNCHANGED <<client, rd, spill, buf, src, rem, want, cur, bodyRead, whole, res,
                   batch, out, dirty>>

\* The tail after a gate: the body is read only if nobody has.
RunTail ==
    /\ pc = "gated" /\ after' = "dispatch"
    /\ pc' = IF bodyRead THEN "dispatch" ELSE "body"
    /\ UNCHANGED <<client, rd, spill, buf, src, rem, want, cur, bodyRead, whole, res,
                   batch, out, dirty>>

\* dispatchResolved(): a group's useBody() layer calls readRequestBody() again.
Dispatch ==
    /\ pc = "dispatch"
    /\ pc' = IF chain = "group" THEN "body" ELSE "handler"
    /\ after' = "handler"
    /\ UNCHANGED <<client, rd, spill, buf, src, rem, want, cur, bodyRead, whole, res,
                   batch, out, dirty>>

\* "plain" may join the batch; "direct" has a file, chunked or large body.
Handler ==
    /\ pc = "handler" /\ pc' = "respond"
    /\ res' \in {"plain", "direct"}
    /\ UNCHANGED <<client, rd, spill, buf, src, rem, want, cur, bodyRead, after, whole,
                   batch, out, dirty>>

-----------------------------------------------------------------------------
(* readRequestBody()                                                         *)

Body == reqs[cur].body

\* The start: once only; a declared length over the limit is refused before
\* "100 Continue" is written.
ReadRequestBody ==
    /\ pc = "body" /\ bodyRead' = TRUE
    /\ \/ bodyRead /\ pc' = after /\ UNCHANGED <<res, batch, out>>
       \/ /\ ~bodyRead /\ Body = "length" /\ reqs[cur].flawed
          /\ Fails /\ UNCHANGED <<batch, out>>
       \/ /\ ~bodyRead /\ ~(Body = "length" /\ reqs[cur].flawed) /\ res' = "plain"
          /\ IF reqs[cur].expect /\ Body # "none"
             THEN Write(Continue(cur), "frame", "respond")
             ELSE pc' = "frame" /\ UNCHANGED <<batch, out>>
    /\ UNCHANGED <<client, rd, spill, buf, src, rem, want, cur, after, whole, dirty>>

\* No body, or Content-Length: 0: the next request follows the header.
FrameNone ==
    /\ pc = "frame" /\ Body # "chunked" /\ reqs[cur].size = 0
    /\ src' = HeaderLen /\ buf' = [buf EXCEPT !.len = rem]
    /\ whole' = TRUE /\ pc' = after
    /\ UNCHANGED <<client, rd, spill, rem, want, cur, bodyRead, after, res, batch, out, dirty>>

FrameLength ==
    /\ pc = "frame" /\ Body = "length" /\ reqs[cur].size > 0
    /\ LET copied == Least(rem, reqs[cur].size) IN
          /\ src' = IF rem > copied THEN HeaderLen + copied ELSE src
          /\ buf' = [buf EXCEPT !.len = rem - copied]
          /\ want' = reqs[cur].size - copied
          /\ whole' = (want' = 0)
          /\ IF want' > 0 THEN Write(<<>>, "readBody", "respond")
                          ELSE pc' = after /\ UNCHANGED <<batch, out>>
    /\ UNCHANGED <<client, rd, spill, rem, cur, bodyRead, after, res, dirty>>

ReadBody ==
    /\ pc = "readBody"
    /\ \E n \in 1..want :
          /\ Reads(n, want) /\ want' = want - n
          /\ whole' = (want' = 0)
          /\ pc' = IF want' = 0 THEN after ELSE "readBody"
    /\ UNCHANGED <<client, spill, buf, src, rem, cur, bodyRead, after, res, batch, out, dirty>>

\* Decoding n more bytes from position `from` when `left` make up the body: an
\* error or too many bytes end it, bytes past its end go to the spill.
Decode(from, n, left) ==
    \/ /\ reqs[cur].flawed /\ n > 0
       /\ Fails /\ UNCHANGED <<spill, want, whole, batch, out>>
    \/ /\ ~(reqs[cur].flawed /\ n > 0) /\ n >= left
       /\ spill' = IF n > left THEN [at |-> from + left, len |-> n - left] ELSE spill
       /\ whole' = TRUE /\ want' = 0 /\ pc' = after
       /\ UNCHANGED <<res, batch, out>>
    \/ /\ ~(reqs[cur].flawed /\ n > 0) /\ n < left
       /\ want' = left - n
       /\ Write(<<>>, "readChunk", "respond")
       /\ UNCHANGED <<spill, whole, res>>

FrameChunked ==
    /\ pc = "frame" /\ Body = "chunked"
    /\ buf' = [buf EXCEPT !.len = 0]
    /\ Decode(buf.at + HeaderLen, rem, reqs[cur].size)
    /\ UNCHANGED <<client, rd, src, rem, cur, bodyRead, after, dirty>>

ReadChunk ==
    /\ pc = "readChunk"
    /\ \E n \in 1..(sent - rd) : Reads(n, sent) /\ Decode(rd, n, want)
    /\ UNCHANGED <<client, buf, src, rem, cur, bodyRead, after, dirty>>

\* The stream ends inside a body: the exception becomes a 500 response.
BodyEnds ==
    /\ pc \in {"readBody", "readChunk"} /\ Ended
    /\ Fails
    /\ UNCHANGED <<client, rd, spill, buf, src, rem, want, cur, bodyRead, after, whole,
                   batch, out, dirty>>

-----------------------------------------------------------------------------
(* The response                                                              *)

KeepAlive == reqs[cur].keep /\ ~draining

\* Written at once, behind the batch, or appended to the batch, which is
\* written when it is full.
Respond ==
    /\ pc = "respond"
    /\ \/ ~KeepAlive /\ Write(Closing(cur), "done", "done")
       \/ /\ KeepAlive /\ (res = "direct" \/ (batch = <<>> /\ buf.len = 0))
          /\ Write(Reply(cur), "top", "done")
       \/ /\ KeepAlive /\ ~(res = "direct" \/ (batch = <<>> /\ buf.len = 0))
          /\ IF Len(batch) + 1 >= BatchMax
             THEN Write(Reply(cur), "top", "done")
             ELSE batch' = batch \o Reply(cur) /\ pc' = "top" /\ UNCHANGED out
    /\ spill' = IF buf.len > 0 THEN [at |-> buf.at + src, len |-> buf.len] ELSE spill
    /\ dirty' = (dirty \/ (KeepAlive /\ ~whole))
    /\ UNCHANGED <<client, rd, buf, request>>

-----------------------------------------------------------------------------
Session ==
    \/ Top \/ ReadFirst \/ ReadHead \/ ReadEnds \/ Parse \/ Upgrade
    \/ ShortCircuit \/ EnterChain \/ RunTail \/ Dispatch \/ Handler
    \/ ReadRequestBody \/ FrameNone \/ FrameLength \/ ReadBody \/ FrameChunked \/ ReadChunk
    \/ BodyEnds \/ Respond

Next == Send \/ Shut \/ Leave \/ Drain \/ Session

Spec == Init /\ [][Next]_vars /\ WF_vars(Session)

-----------------------------------------------------------------------------
(* Properties                                                                *)

IsFinal(r) == r.what # "continue"
Finals == SelectSeq(out \o batch, IsFinal)

Slices == [at : 0..Start(Len(reqs) + 1), len : 0..Start(Len(reqs) + 1)]

\* Every position, length and counter of the session stays inside the stream
\* the client has sent, and no buffer reaches past the bytes read.
TypeOK ==
    /\ rd \in 0..sent /\ sent \in 0..Start(Len(reqs) + 1)
    /\ {spill, buf} \subseteq Slices
    /\ spill.at + spill.len <= rd /\ (pc = "respond" => buf.at + src + buf.len <= rd)
    /\ cur \in 0..Len(reqs) /\ want \in 0..(IF cur = 0 THEN 0 ELSE reqs[cur].size)
    /\ Len(batch) < BatchMax

\* handleSession() batches responses and writes others directly, and "100
\* Continue" in between: on the wire and in the batch the final responses are
\* those of requests 1, 2, 3, ... without gap or repetition, and "100 Continue"
\* of a request stands between the responses to its predecessor and to itself.
WireOrder ==
    dirty \/ /\ \A k \in 1..Len(Finals) : Finals[k].req = k
             /\ \A k \in 1..Len(out) : out[k].what = "continue" =>
                   Len(SelectSeq(SubSeq(out, 1, k), IsFinal)) = out[k].req - 1

\* No response waits in responseBatch while the session waits for bytes, has
\* given the socket away, or has ended with the client still there
\* (flushPendingResponses() at every place that leaves the order of handling).
NothingHeld ==
    pc \in {"readFirst", "readHead", "readBody", "readChunk", "handed"}
       \/ (pc = "done" /\ peer = "open") => batch = <<>>

\* Between two requests the bytes read and not yet handled are exactly those
\* from the end of the last request answered: none is lost in readBuf, handled
\* twice, or taken from the body (spillSrc, bufUsed and pipelineSpill agree).
BytesAccounted ==
    pc = "top" /\ ~dirty =>
       LET next == Start(Len(Finals) + 1) IN
       IF spill.len = 0 THEN rd = next
                        ELSE spill.at = next /\ spill.at + spill.len = rd

\* A handler runs only with the whole body of its own request received, and
\* the bytes of the next one untouched (readRequestBody() before dispatch).
HandlerHasBody ==
    pc = "handler" => /\ whole /\ rd >= Start(cur + 1)
                      /\ (spill.len + buf.len = rd - Start(cur + 1))

\* A request is answered once: one final response, whatever the middleware
\* does with it.
AnsweredOnce ==
    \A j, k \in 1..Len(Finals) : Finals[j].req = Finals[k].req => j = k

\* One of the first two requests that has arrived whole is answered on the wire, or the connection
\* ends, even if the client sends nothing more until it has the answer.
Answered ==
    \A i \in 1..2 :
       (i <= Len(reqs) /\ sent >= Start(Least(i, Len(reqs)) + 1))
         ~> (dirty \/ pc \in {"done", "handed"}
             \/ \E k \in 1..Len(out) : IsFinal(out[k]) /\ out[k].req = i)

\* When the client is gone the session ends, also when it only answers what it
\* has already read into the batch.
GoneEnds == peer = "gone" ~> pc \in {"done", "handed"}

\* Over a pipeline of requests the session keeps its bytes and its answers in
\* order: what is read, handled, batched and written fits together at every
\* suspension (handleSession, readRequestBody, flushPendingResponses).
PipelineSound == TypeOK /\ WireOrder /\ NothingHeld /\ BytesAccounted /\ HandlerHasBody

\* Who stays is answered and who leaves ends the session (handleSession).
Served == Answered /\ GoneEnds

=============================================================================
