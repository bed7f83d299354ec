------------------------------- MODULE Http2Server -------------------------------
(* One HTTP/2 connection of the server (src/core/http2: Http2Connection,      *)
(* Http2ServerSession, Http2Receive, Http2Stream and the callbacks of         *)
(* Http2Codec).  Everything runs on the connection's loop, one handler at a   *)
(* time, but a handler calls through several classes: so the connection is    *)
(* one record h, a method is an operator from h to h, and an action is one    *)
(* handler.  nghttp2 is external: Frames and Generate say what it sends and   *)
(* which callbacks it makes.  Http2Output has the payload and its windows.    *)
EXTENDS Integers, FiniteSets, FiniteSetsExt

CONSTANTS
    Streams,     \* ids of the streams a peer may open
    MaxStreams,  \* maxConcurrentStreams
    MaxTasks,    \* maxApplicationTasks
    MaxBytes     \* maxBodyBytes and maxConnectionReceiveBytes

VARIABLE h

\* A stream: nghttp2's view, Http2Receive::Entry, Http2Stream and the Job.
NoStream ==
    [lib |-> "idle",       \* "open", "remote" (peer has ended), "local" (we have), "closed"
     rst |-> "none",       \* RST_STREAM submitted: "no" error or an error, then "sent"
     table |-> FALSE,      \* in Http2Receive::streams_
     pend |-> "none",      \* header block being read: "initial", "trailers", "discard"
     sealed |-> FALSE,     \* initialHeaders().sealed()
     tsealed |-> FALSE,    \* trailers().sealed()
     want |-> -1,          \* expectedLength, -1 without
     got |-> 0,            \* receivedBytes()
     proto |-> FALSE,      \* protocol_ lease
     task |-> FALSE,       \* application_ lease
     started |-> FALSE,    \* applicationStarted_
     body |-> "open",      \* "ok" or "failed" once bodyComplete_
     err |-> FALSE,        \* error_
     job |-> "none",       \* where runJob() is
     reset |-> FALSE,      \* Job::peerReset
     ended |-> FALSE,      \* Job::remoteEnded
     submitted |-> FALSE,  \* Job::responseSubmitted
     written |-> FALSE,    \* Job::responseWritten
     discard |-> FALSE,    \* Job::discardIncoming
     cancel |-> FALSE,     \* Job::completion was cancelled
     out |-> "none",       \* pendingEnds: "file" (payload to come), "ready", "sent" to a batch
     window |-> TRUE]      \* the peer lets us send

NoBatch == [kind |-> "none", s |-> 0, left |-> 0]

Init ==
    \E closed \in SUBSET Streams :
       h = [st |-> [s \in Streams |-> [NoStream EXCEPT !.window = s \notin closed]],
            phase |-> "run",       \* then "join" (jobs_) and "returned"
            reader |-> "reading", writer |-> "look", woken |-> FALSE,
            batch |-> NoBatch,
            stopped |-> FALSE, error |-> FALSE, protocolError |-> FALSE,
            finishing |-> FALSE, settings |-> FALSE,
            writeTimer |-> "off", writeLate |-> {},
            headerStream |-> 0,
            recvError |-> FALSE, draining |-> FALSE, last |-> 0,
            announced |-> 0,       \* last stream id of drain()'s GOAWAY
            goaway |-> "none",     \* drain()'s GOAWAY: "queued", "sent"
            term |-> "none",       \* GOAWAY of a terminated session, likewise
            away |-> FALSE,        \* the peer sent a GOAWAY
            stale |-> FALSE]       \* history: a deadline hit a batch it was not set for

\* The codec reads a header block of this stream, or of none (0).
Block == IF \E s \in Streams : h.st[s].pend # "none"
         THEN CHOOSE s \in Streams : h.st[s].pend # "none" ELSE 0

Jobs(g) == {s \in Streams : g.st[s].job \notin {"none", "gone"}}

-----------------------------------------------------------------------------
(* Http2Stream                                                                *)

\* fail(): first result only; the application keeps its slot while it runs.
FailStream(r) ==
    IF ~r.proto THEN r
    ELSE [r EXCEPT !.proto = FALSE, !.task = r.started /\ @, !.err = TRUE,
                   !.body = IF @ = "open" THEN "failed" ELSE @]

\* closeProtocol().
CloseStream(r) ==
    IF r.body = "open" THEN FailStream(r)
    ELSE [r EXCEPT !.proto = FALSE, !.task = r.started /\ @]

\* A stream exists while the table or its job holds it.
Lives(r) == r.table \/ r.job \notin {"none", "gone"}

\* The Job goes with its coroutine, the Http2Stream with the last who holds it.
Forget(r) ==
    LET q == IF r.job # "gone" THEN r
             ELSE [r EXCEPT !.reset = FALSE, !.ended = FALSE, !.submitted = FALSE,
                            !.written = FALSE, !.discard = FALSE, !.cancel = FALSE]
    IN IF Lives(r) THEN q
       ELSE [NoStream EXCEPT !.lib = r.lib, !.rst = r.rst, !.pend = r.pend, !.job = r.job,
                             !.out = r.out, !.window = r.window]

\* Http2Budget::usage(): a lease is counted while its holder has it.
Bytes(g) == MapThenSumSet(LAMBDA s : g.st[s].got, {s \in Streams : Lives(g.st[s])})
Protocols(g) == Cardinality({s \in Streams : g.st[s].proto})
Tasks(g) == Cardinality({s \in Streams : g.st[s].task})

-----------------------------------------------------------------------------
(* Http2Connection, Http2Output and Http2Receive: what handlers call          *)

\* A generation is over: an expiry still queued belongs to an earlier one.
Old(late) == IF late = {} THEN {} ELSE {"old"}

\* wakeWriter(): cancels the writer's wait, if it waits.
Wake(g) == [g EXCEPT !.woken = @ \/ (~g.stopped /\ g.writer = "parked")]

\* Http2Output::pendingEnds: responses whose END_STREAM is not yet written.
PendingEnds(g) == {s \in Streams : g.st[s].out # "none"}

\* Http2Codec::reset(): one RST_STREAM per stream, none on a closed one.
CodecReset(g, s, code) ==
    IF g.st[s].lib \in {"idle", "closed"} \/ g.st[s].rst # "none" THEN g
    ELSE [g EXCEPT !.st[s].rst = code]

\* Http2Output::cancelStream().
CancelStream(g, s) == Wake([g EXCEPT !.st[s].out = "none"])

\* Http2Receive::reject(): out of the table and failed.
Reject(g, s) ==
    IF ~g.st[s].table THEN g
    ELSE [g EXCEPT !.st[s] = Forget(FailStream([@ EXCEPT !.table = FALSE]))]

\* A callback's code that is not hNoError makes the codec reset the stream.
Refuse(g, s) == CodecReset(Reject(g, s), s, "error")

\* Http2ServerSession::resetStream(), with Http2Receive::cancel().
ResetStream(g, s, code) == Wake(CodecReset(Reject(CancelStream(g, s), s), s, code))

\* Http2Receive::fail(): every stream of the table.
ReceiveFail(g) ==
    IF g.recvError THEN g
    ELSE [g EXCEPT !.recvError = TRUE,
                   !.st = [s \in Streams |->
                      IF @[s].table THEN Forget(FailStream([@[s] EXCEPT !.table = FALSE])) ELSE @[s]]]

\* transportFailed(): the jobs are woken too.
TransportFailed(g) ==
    LET f == ReceiveFail(g)
    IN [f EXCEPT !.st = [s \in Streams |-> [@[s] EXCEPT !.cancel = @ \/ s \in Jobs(g)]]]

\* stopTransport(): a protocol error goes before the error given, and is told.
\* The codec is not used any more.
StopTransport(g, error) ==
    IF g.stopped THEN g
    ELSE LET e == error \/ g.protocolError
             f == [g EXCEPT !.stopped = TRUE, !.error = e, !.headerStream = 0,
                            !.writeTimer = "off", !.writeLate = Old(@),
                            !.woken = @ \/ g.writer = "parked",
                            !.st = [s \in Streams |->
                               [@[s] EXCEPT !.out = "none", !.lib = "closed", !.rst = "none",
                                            !.pend = "none", !.window = TRUE]]]
         IN IF e THEN TransportFailed(f) ELSE f

Close(g) == StopTransport(g, TRUE)

\* Mutant of Finish: the writer is not woken.
FinishQuiet(g) == [g EXCEPT !.finishing = TRUE]

Finish(g) == Wake([g EXCEPT !.finishing = TRUE])

\* onStreamClose() of Http2Output, of Http2Receive and of the session: an END
\* that is in a batch stays tracked until it is written.
OutputClosed(r, code) == IF code = "no" THEN r ELSE [r EXCEPT !.out = "none"]

ReceiveClosed(r, code) ==
    IF ~r.table THEN r
    ELSE LET q == [r EXCEPT !.table = FALSE]
         IN IF code = "no" THEN CloseStream(q) ELSE FailStream(q)

JobClosed(r, code) ==
    LET lost == r.job \notin {"none", "gone"} /\ (code # "no" \/ ~r.submitted)
    IN [r EXCEPT !.reset = @ \/ lost, !.cancel = @ \/ lost]

\* nghttp2 closes a stream: Http2Codec::streamClose().
StreamClosed(g, s, code) ==
    LET r == [g.st[s] EXCEPT !.lib = "closed", !.pend = "none"]
    IN Wake([g EXCEPT !.st[s] =
               Forget(JobClosed(ReceiveClosed(OutputClosed(r, code), code), code))])

\* Mutant of JobFinished: only drain() itself looks for the last job.
JobFinishedQuiet(g, s) ==
    [g EXCEPT !.st[s] = Forget([@ EXCEPT !.job = "gone", !.task = FALSE])]

\* jobFinished(): the last job of a draining session finishes the connection.
JobFinished(g, s) ==
    LET f == [g EXCEPT !.st[s] = Forget([@ EXCEPT !.job = "gone", !.task = FALSE])]
    IN IF f.draining /\ Jobs(f) = {} THEN Finish(f) ELSE f

\* responseWritten(): only now may the rest of the request be cut off.
ResponseWritten(g, s) ==
    IF s \notin Jobs(g) THEN g
    ELSE LET f == [g EXCEPT !.st[s].written = TRUE, !.st[s].cancel = TRUE]
         IN IF ~f.st[s].ended /\ f.st[s].table THEN ResetStream(f, s, "no") ELSE f

-----------------------------------------------------------------------------
(* readLoop(): one frame of the peer per step                                 *)

Reading == h.reader = "reading" /\ ~h.stopped /\ h.term = "none"

\* The frame after which the writer is woken (the end of a read).
Read(g) == h' = Wake(g)

\* SETTINGS come first.
PeerSettings ==
    /\ Reading /\ ~h.settings
    /\ Read([h EXCEPT !.settings = TRUE])

\* discardedRequest(): the handler has answered without the rest of the request.
Discarded(r) == r.discard /\ ~r.reset /\ ~r.ended /\ r.table /\ r.job # "gone"

\* onHeaderBlock(): the block's absolute deadline is set and lifted.
BlockBegins(g, s) == IF g.headerStream # 0 THEN g ELSE [g EXCEPT !.headerStream = s]

BlockEnds(g) == [g EXCEPT !.headerStream = 0]

\* Http2Stream::create(): a slot of the protocol and one of the application.
CreateStream(g, s) ==
    IF Protocols(g) < MaxStreams /\ Tasks(g) < MaxTasks
    THEN [g EXCEPT !.st[s].table = TRUE, !.st[s].proto = TRUE, !.st[s].task = TRUE]
    ELSE CodecReset(g, s, "error")

\* onBeginHeaders() of the session: draining, no new streams.
SessionBegins(g, s) ==
    IF g.draining \/ g.recvError THEN CodecReset(g, s, "error") ELSE CreateStream(g, s)

\* The first frame of a request.  nghttp2 ignores it once the GOAWAY is sent.
BeginRequest(s, want) ==
    /\ Reading /\ h.settings /\ Block = 0 /\ h.st[s].lib = "idle"
    /\ \A t \in Streams : t > s => h.st[t].lib = "idle"
    /\ LET g == BlockBegins(h, s)
       IN Read(IF h.goaway = "sent"
               THEN [g EXCEPT !.st[s].lib = "closed", !.st[s].pend = "ignored"]
               ELSE SessionBegins([g EXCEPT !.st[s].lib = "open", !.st[s].pend = "initial",
                                            !.st[s].want = want], s))

\* onBeginHeaders() of Http2Receive for a stream it has.
ReceiveBegins(g, s) ==
    LET r == g.st[s]
    IN IF ~r.table \/ ~r.proto \/ r.body # "open" \/ r.tsealed
       THEN Refuse([g EXCEPT !.st[s].pend = "ignored"], s)
       ELSE [g EXCEPT !.st[s].pend = "trailers"]

\* The first frame of a trailer.  nghttp2 ignores it on a stream being reset.
BeginTrailers(s) ==
    /\ Reading /\ Block = 0 /\ h.st[s].lib \in {"open", "local"}
    /\ LET r == h.st[s]
           g == BlockBegins(h, s)
           kind(k) == [g EXCEPT !.st[s].pend = k]
       IN Read(IF r.rst # "none" THEN kind("ignored")
               ELSE IF ~Discarded(r) THEN ReceiveBegins(g, s)
               ELSE IF r.tsealed THEN CodecReset(kind("ignored"), s, "error")
               ELSE kind("discard"))

\* Http2Stream::completeBody(): the first result stays.
BodyDone(r) == [r EXCEPT !.body = IF @ = "open" THEN "ok" ELSE @]

\* Http2Receive::onEndStream().
CompleteBody(g, s) ==
    LET r == g.st[s] IN
    IF ~r.table THEN g
    ELSE IF ~r.proto \/ ~r.sealed \/ (r.want >= 0 /\ r.got # r.want) THEN Refuse(g, s)
    ELSE [g EXCEPT !.st[s] = BodyDone(@)]

\* Http2ServerSession::onEndStream(), and nghttp2's own half-close.
EndStream(g, s) ==
    LET r == g.st[s]
        f == [g EXCEPT !.st[s].ended = @ \/ s \in Jobs(g)]
        e == IF r.rst # "none" THEN g
             ELSE IF s \in Jobs(g) /\ r.discard
                  THEN [f EXCEPT !.st[s] = BodyDone(@)]
                  ELSE CompleteBody(f, s)
    IN IF r.lib = "local" THEN StreamClosed(e, s, "no")
       ELSE [e EXCEPT !.st[s].lib = IF @ = "open" THEN "remote" ELSE @]

\* headersReady(): past the GOAWAY nothing is accepted; else a job is spawned.
HeadersReady(g, s) ==
    IF g.draining THEN ResetStream(g, s, "error")
    ELSE [g EXCEPT !.st[s].job = "posted", !.st[s].started = TRUE,
                   !.last = IF s > @ THEN s ELSE @]

\* onEndHeaders() of each kind of block.
EndInitial(g, s) ==
    IF g.st[s].rst # "none" THEN g
    ELSE IF g.st[s].want > MaxBytes THEN Refuse(g, s)
    ELSE HeadersReady([g EXCEPT !.st[s].sealed = TRUE], s)

EndTrailers(g, s, end) ==
    IF g.st[s].rst # "none" THEN g
    ELSE IF ~end THEN Refuse(g, s) ELSE [g EXCEPT !.st[s].tsealed = TRUE]

EndDiscarded(g, s, end) ==
    IF g.st[s].rst # "none" THEN g
    ELSE IF ~end THEN CodecReset(g, s, "error") ELSE [g EXCEPT !.st[s].tsealed = TRUE]

\* The last frame of a header block.
EndBlock(end) ==
    /\ Reading /\ Block # 0
    /\ LET s == Block
           k == h.st[s].pend
           g == [h EXCEPT !.st[s].pend = "none"]
           f == CASE k = "initial" -> EndInitial(g, s)
                  [] k = "trailers" -> EndTrailers(g, s, end)
                  [] k = "discard" -> EndDiscarded(g, s, end)
                  [] OTHER -> g
           e == IF end /\ h.st[s].lib # "closed" THEN EndStream(f, s) ELSE f
       IN Read(BlockEnds(e))

\* Http2Stream::appendBody() resizes its lease.
AppendBody(g, n) == Bytes(g) + n <= MaxBytes

\* onData() of Http2Receive takes n bytes of stream s.
DataFits(g, s, n) ==
    LET r == g.st[s] IN
    /\ r.table /\ r.proto /\ r.body = "open" /\ ~r.tsealed
    /\ r.want >= 0 => r.got + n <= r.want
    /\ AppendBody(g, n)

\* Mutant of ReceiveData: data the application will not read is judged too.
ReceiveDataAlways(g, s, n) ==
    IF g.st[s].rst # "none" THEN g
    ELSE IF DataFits(g, s, n) THEN [g EXCEPT !.st[s].got = @ + n] ELSE Refuse(g, s)

\* onData(): a discarded request only gives its window back.
ReceiveData(g, s, n) ==
    IF g.st[s].rst # "none" \/ Discarded(g.st[s]) THEN g
    ELSE IF DataFits(g, s, n) THEN [g EXCEPT !.st[s].got = @ + n] ELSE Refuse(g, s)

Data(s, n, end) ==
    /\ Reading /\ Block = 0 /\ h.st[s].lib \in {"open", "local"}
    /\ LET g == ReceiveData(h, s, n)
       IN Read(IF end THEN EndStream(g, s) ELSE g)

\* onFrameReceived() of RST_STREAM, then nghttp2 closes the stream.
PeerReset(s, code) ==
    /\ Reading /\ Block = 0 /\ h.st[s].lib # "idle"
    /\ h.st[s].lib # "closed" \/ s \in Jobs(h)
    /\ LET c == CancelStream(h, s)
           g == IF s \in Jobs(c)
                THEN [c EXCEPT !.st[s].reset = TRUE, !.st[s].cancel = TRUE] ELSE c
       IN Read(IF g.st[s].lib = "closed" THEN g ELSE StreamClosed(g, s, code))

PeerWindow(s) ==
    /\ Reading /\ Block = 0 /\ ~h.st[s].window
    /\ Read([h EXCEPT !.st[s].window = TRUE])

\* GOAWAY; one with an error is an error of the connection, see onError().
PeerGoaway(bad) ==
    /\ Reading /\ h.settings /\ Block = 0 /\ ~h.away
    /\ Read(IF bad THEN ReceiveFail([h EXCEPT !.away = TRUE, !.protocolError = TRUE])
            ELSE [h EXCEPT !.away = TRUE])

\* The peer breaks the protocol: the codec terminates the session.
Violation ==
    /\ Reading
    /\ Read([h EXCEPT !.term = "queued"])

ReadFails ==
    /\ h.reader = "reading" /\ ~h.stopped
    /\ h' = [Close(h) EXCEPT !.reader = "done"]

ReaderExits ==
    /\ h.reader = "reading" /\ h.stopped
    /\ h' = [h EXCEPT !.reader = "done"]

-----------------------------------------------------------------------------
(* writeLoop()                                                                *)

\* nghttp2 can send frame f now: nothing of a stream that is being reset but the
\* reset, no payload without window.
Sendable(g, f) ==
    /\ g.term # "sent"
    /\ CASE f.kind = "goaway" -> f.s = 0 /\ g.goaway = "queued"
         [] f.kind = "term" -> f.s = 0 /\ g.term = "queued"
         [] f.kind = "rst" -> f.s # 0 /\ g.st[f.s].rst \in {"no", "error"} /\ g.st[f.s].lib # "closed"
         [] f.kind = "end" -> f.s # 0 /\ g.st[f.s].out = "ready" /\ g.st[f.s].rst = "none"
                              /\ g.st[f.s].window

Frames(g) == {f \in [kind : {"goaway", "term", "rst", "end"}, s : Streams \cup {0}] : Sendable(g, f)}

WantRead(g) ==
    /\ g.term # "sent"
    /\ \/ \E s \in Streams : g.st[s].lib \notin {"idle", "closed"}
       \/ g.goaway # "sent" /\ ~g.away

\* What sending does: a GOAWAY closes the streams beyond it, one with an error is
\* the connection's error, a reset closes its stream, an end may.
Generate(g, f) ==
    CASE f.kind = "goaway" ->
           LET beyond == {s \in Streams : s > g.last /\ g.st[s].lib \notin {"idle", "closed"}}
           IN FoldSet(LAMBDA s, a : StreamClosed(a, s, "error"),
                      [g EXCEPT !.goaway = "sent"], beyond)
      [] f.kind = "term" -> ReceiveFail([g EXCEPT !.term = "sent", !.protocolError = TRUE])
      [] f.kind = "rst" -> StreamClosed([g EXCEPT !.st[f.s].rst = "sent"], f.s, g.st[f.s].rst)
      [] f.kind = "end" ->
           LET o == [g EXCEPT !.st[f.s].out = "sent"]
           IN IF g.st[f.s].lib = "remote" THEN StreamClosed(o, f.s, "no")
              ELSE [o EXCEPT !.st[f.s].lib = "local"]

\* hasPendingOutput().
Pending(g) == PendingEnds(g) # {} \/ Frames(g) # {} \/ g.batch.kind # "none"

\* nextBatch() finds nothing: finish or wait.
WriterLooks ==
    /\ h.writer = "look" \/ (h.writer = "parked" /\ h.woken)
    /\ LET g == [h EXCEPT !.writer = "look", !.woken = FALSE] IN
       IF h.stopped THEN h' = [g EXCEPT !.writer = "done"]
       ELSE IF Frames(h) = {}
       THEN h' = IF (h.finishing /\ ~Pending(h)) \/ ~WantRead(h)
                 THEN [StopTransport(g, FALSE) EXCEPT !.writer = "done"]
                 ELSE [g EXCEPT !.writer = "parked"]
       ELSE \E f \in Frames(h) :
              h' = [Generate(g, f) EXCEPT !.writer = "writing",
                        !.batch = [kind |-> f.kind, s |-> f.s, left |-> 2],
                        !.writeTimer = "armed", !.writeLate = Old(@)]

\* Http2Output::acknowledge(): the END of a response is acknowledged with the last
\* byte of its frame, once, if the stream was not cancelled since.
Acknowledge(g, n) ==
    LET b == g.batch
        f == [g EXCEPT !.batch = IF n = b.left THEN NoBatch ELSE [@ EXCEPT !.left = @ - n]]
    IN IF n = b.left /\ b.kind = "end" /\ f.st[b.s].out = "sent"
       THEN ResponseWritten([f EXCEPT !.st[b.s].out = "none"], b.s) ELSE f

\* writeBatch(): a write may take part of the batch.
Written(n) ==
    /\ h.writer = "writing" /\ n <= h.batch.left
    /\ h' = IF h.stopped THEN [h EXCEPT !.writer = "look", !.batch = NoBatch]
            ELSE IF n < h.batch.left THEN Acknowledge(h, n)
            ELSE [Acknowledge(h, n) EXCEPT !.writer = "look", !.writeTimer = "off",
                                           !.writeLate = Old(@)]

WriteFails ==
    /\ h.writer = "writing"
    /\ h' = [Close(h) EXCEPT !.writer = "look", !.batch = NoBatch]

-----------------------------------------------------------------------------
(* Deadlines of the connection.  The handler of one that has expired is       *)
(* queued and no longer cancelled: it acts on its own generation only.  One   *)
(* that finds its own over does nothing; this is spelled out for the write.   *)

NegotiationTimeout == ~h.settings /\ ~h.stopped /\ h' = Close(h)

HeaderTimeout == h.headerStream # 0 /\ ~h.stopped /\ h' = Close(h)

WriteExpires ==
    /\ h.writeTimer = "armed"
    /\ h' = [h EXCEPT !.writeTimer = "off", !.writeLate = @ \cup {"now"}]

WriteTimeout(x) ==
    /\ x \in h.writeLate
    /\ LET g == [h EXCEPT !.writeLate = @ \ {x}]
       IN h' = IF x = "old" THEN g
               ELSE [Close(g) EXCEPT !.stale = @ \/ (~h.stopped /\ h.writer # "writing")]

-----------------------------------------------------------------------------
(* runJob(), with dispatchOwned() and waitBody()                              *)

\* Posted out of the codec's callback; a stream that failed since (it is no longer
\* in the table) is not dispatched.
JobStarts(s) ==
    /\ h.st[s].job = "posted"
    /\ h' = IF h.st[s].reset \/ h.stopped \/ ~h.st[s].table THEN JobFinished(h, s)
            ELSE [h EXCEPT !.st[s].job = "app"]

\* readBody(): the gate, once.
AppReadsBody(s) ==
    /\ h.st[s].job = "app" /\ h' = [h EXCEPT !.st[s].job = "gate"]

\* The body is there: it is published and the handler runs.
GateOpens(s) ==
    /\ h.st[s].job = "gate" /\ h.st[s].body = "ok" /\ ~h.st[s].err
    /\ h' = [h EXCEPT !.st[s].job = "handler"]

\* The body failed: the gate answers in the handler's place.
GateFails(s) ==
    /\ h.st[s].job = "gate" /\ h.st[s].err
    /\ h' = [h EXCEPT !.st[s].job = "after"]

\* The body deadline passed, also when the end came in after it (bodyResult()).
GateTimeout(s) ==
    /\ h.st[s].job = "gate" /\ h.st[s].body # "failed"
    /\ h' = [h EXCEPT !.st[s] = [IF @.proto THEN [FailStream(@) EXCEPT !.body = "failed"] ELSE @
                                 EXCEPT !.job = "after"]]

Running == {"app", "gate", "handler", "after"}

\* The application is done and its slot free.  What it did not read is discarded;
\* the response is submitted, refused by a budget ("unsent"), or has a file.
AppReturns(s, kind) ==
    /\ h.st[s].job \in Running \ {"gate"}
    /\ LET f == [h EXCEPT !.st[s].task = FALSE, !.st[s].discard = ~h.st[s].ended]
           r == f.st[s]
       IN h' = IF r.reset \/ f.stopped \/ ~r.table THEN JobFinished(f, s)
               ELSE IF kind = "unsent" THEN JobFinished(ResetStream(f, s, "error"), s)
               ELSE Wake([f EXCEPT !.st[s].job = "await", !.st[s].submitted = TRUE,
                                   !.st[s].out = kind])

\* Http2FileBody::run() has handed over the last chunk.
FileSent(s) ==
    /\ h.st[s].job = "await" /\ h.st[s].out = "file"
    /\ h' = Wake([h EXCEPT !.st[s].out = "ready"])

\* Its producer was cancelled, or a read, the budget or the deadline failed.
FileFails(s) ==
    /\ h.st[s].job = "await" /\ h.st[s].out = "file"
    /\ h' = JobFinished(ResetStream([h EXCEPT !.st[s] = FailStream(@)], s, "error"), s)

JobWoken(s) ==
    /\ h.st[s].job = "await" /\ h.st[s].cancel
    /\ h' = IF h.st[s].written \/ h.st[s].reset \/ h.stopped THEN JobFinished(h, s)
            ELSE [h EXCEPT !.st[s].cancel = FALSE]

\* The response's deadline: this stream only is given up.
ResponseTimeout(s) ==
    /\ h.st[s].job = "await" /\ h.st[s].out # "file"
    /\ ~h.st[s].written /\ ~h.st[s].reset /\ ~h.stopped
    /\ h' = JobFinished(ResetStream([h EXCEPT !.st[s] = FailStream(@)], s, "error"), s)

-----------------------------------------------------------------------------
(* drain() and run()                                                          *)

Drain ==
    /\ ~h.draining /\ h.phase = "run" /\ ~h.stopped
    /\ LET g == Wake([h EXCEPT !.draining = TRUE, !.announced = h.last, !.goaway = "queued"])
       IN h' = IF Jobs(g) = {} THEN Finish(g) ELSE g

RunReturns ==
    /\ h.phase = "run" /\ h.reader = "done" /\ h.writer = "done"
    /\ h' = [TransportFailed(h) EXCEPT !.phase = "join"]

SessionReturns ==
    /\ h.phase = "join" /\ Jobs(h) = {}
    /\ h' = [h EXCEPT !.phase = "returned"]

Done == h.phase = "returned" /\ UNCHANGED h

-----------------------------------------------------------------------------

Peer ==
    \/ PeerSettings \/ Violation \/ ReadFails
    \/ \E bad \in BOOLEAN : PeerGoaway(bad)
    \/ \E end \in BOOLEAN : EndBlock(end)
    \/ \E s \in Streams :
          \/ \E want \in {-1} \cup (1 .. MaxBytes + 1) : BeginRequest(s, want)
          \/ BeginTrailers(s)
          \/ \E n \in {0, 1}, end \in BOOLEAN : Data(s, n, end)
          \/ \E code \in {"no", "error"} : PeerReset(s, code)
          \/ PeerWindow(s)

Timers ==
    \/ NegotiationTimeout \/ HeaderTimeout \/ WriteExpires
    \/ \E x \in {"now", "old"} : WriteTimeout(x)

Writer == WriterLooks \/ (\E n \in 1 .. 2 : Written(n)) \/ WriteFails

\* An application that runs: it reads the body or returns.
App(s) == AppReadsBody(s) \/ \E kind \in {"ready", "file", "unsent"} : AppReturns(s, kind)

\* A job that waits on the connection: everything it awaits has a deadline.
Job(s) == JobStarts(s) \/ GateOpens(s) \/ GateFails(s) \/ GateTimeout(s)
          \/ FileSent(s) \/ FileFails(s) \/ JobWoken(s) \/ ResponseTimeout(s)

Next == \/ Peer \/ Timers \/ Writer \/ ReaderExits \/ Drain \/ RunReturns \/ SessionReturns \/ Done
        \/ \E s \in Streams : App(s) \/ Job(s)

\* Handlers that are ready run and deadlines expire; applications return.  The
\* peer owes nothing; a write may hang until its deadline closes the socket.
HandlersRun ==
    /\ WF_h(WriterLooks) /\ WF_h(ReaderExits) /\ WF_h(h.stopped /\ WriteFails)
    /\ WF_h(RunReturns) /\ WF_h(SessionReturns)
    /\ \A s \in Streams : WF_h(App(s)) /\ WF_h(Job(s))

Fairness == WF_h(Timers) /\ HandlersRun

Spec == Init /\ [][Next]_h /\ Fairness

-----------------------------------------------------------------------------
(* Properties                                                                 *)

TypeOK ==
    /\ h.phase \in {"run", "join", "returned"} /\ h.reader \in {"reading", "done"}
    /\ h.writer \in {"look", "parked", "writing", "done"}
    /\ h.writeLate \subseteq {"now", "old"} /\ h.batch.left \in 0 .. 2
    /\ \A s \in Streams :
          /\ h.st[s].job \in Running \cup {"none", "posted", "await", "gone"}
          /\ h.st[s].got \in 0 .. MaxBytes /\ h.st[s].want \in -1 .. MaxBytes + 1

\* The slots of maxApplicationTasks bound the application coroutines that run,
\* also when their streams are reset under them: Http2Stream::fail() leaves the
\* slot with the ApplicationGuard, or a peer that opens and resets streams would
\* start handlers without bound.
TasksBounded ==
    Cardinality({s \in Streams : h.st[s].job \in Running \cup {"posted"}}) <= MaxTasks

\* No request beyond the last stream id of drain()'s GOAWAY is executed, also one
\* whose header block was being read when the drain began (headersReady()): the
\* client may send it again elsewhere.
NothingBeyondGoaway ==
    h.draining => \A s \in Streams : h.st[s].job # "none" => s <= h.announced

\* A parked writer that nobody has woken has nothing it could do: no frame to
\* send, no finish() to act on, and the session still reads.  wakeWriter() has no
\* memory, so every change that gives the writer work must call it after.
NoLostWakeup ==
    h.writer = "parked" /\ ~h.woken =>
        /\ ~h.stopped /\ Frames(h) = {}
        /\ WantRead(h) /\ ~(h.finishing /\ ~Pending(h))

\* The deadline of a batch that has been written never closes the connection,
\* although its handler may be queued already when the write completes.
NoStaleTimeout == ~h.stale

\* A handler that has passed the body gate sees the body whole: as long as its
\* Content-Length says, whatever deadline, reset or end came together.
WholeBody ==
    \A s \in Streams : h.st[s].job = "handler" =>
        h.st[s].want = -1 \/ h.st[s].got = h.st[s].want

\* The connection ends in good order only when nothing is left to write: each
\* response END is on the wire and no batch is partly written.
CleanStopSendsAll ==
    ~h.stopped /\ h'.stopped /\ ~h'.error => PendingEnds(h) = {} /\ h.batch = NoBatch

\* A request whose application answers before it has read the body keeps its
\* response: what the peer still sends of that request, were it more than it may,
\* does not reset the stream before the response END is written.
EarlyAnswerSurvives ==
    \A s \in Streams :
         /\ h.st[s].out # "none" /\ h.st[s].rst = "none" /\ h.st[s].job = "await"
         /\ h'.st[s].rst # "none" /\ h'.st[s].job = "await" /\ Block = 0 /\ ~h.recvError
         => h'.st[s].written

\* drain() comes to an end without help of the peer: every wait has a deadline,
\* the last job finishes the connection and run() joins what is left.
DrainEnds == h.draining ~> h.phase = "returned"

\* At every suspension of reader, writer and applications: slots bounded, nothing
\* executed beyond the GOAWAY, no wake-up lost, no stale deadline obeyed, no body
\* handed over short (Http2Connection.cpp, Http2ServerSession.cpp).
SessionSound ==
    TypeOK /\ TasksBounded /\ NothingBeyondGoaway /\ NoLostWakeup /\ NoStaleTimeout /\ WholeBody

\* No step of the session drops a response that it could still send
\* (outputClosed, receiveData).
AnswersSent == [][CleanStopSendsAll /\ EarlyAnswerSurvives]_h

=============================================================================
