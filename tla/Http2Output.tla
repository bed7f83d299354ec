------------------------------- MODULE Http2Output -------------------------------
(* The sending half of an HTTP/2 server connection: Http2Output with its      *)
(* producers, the send bytes of Http2Budget, the file reader Http2FileBody    *)
(* and the choice of body of Http2Response.  Every function of the source is  *)
(* an operator from the connection's state to the next one; it all runs on    *)
(* the connection's loop, one callback at a time.  nghttp2 is the library's   *)
(* part of a stream: the frames it has queued and whether its DATA item is    *)
(* active or deferred.                                                        *)
EXTENDS Integers, Sequences, FiniteSets, FiniteSetsExt, SequencesExt

CONSTANTS Streams,     \* the stream identifiers of the instance
          MaxSend,     \* maxConnectionSendBytes without the wire reservation
          MaxBody,     \* longest body an application gives at once
          MaxFile,     \* length of a file body
          Prefetch,    \* maxFilePrefetchBytes
          MaxWindow    \* the windows the peer opens

ASSUME Http2OutputAssumption ==
    /\ Streams \subseteq Nat \ {0} /\ IsFiniteSet(Streams)
    /\ {MaxSend, MaxBody, MaxFile, Prefetch, MaxWindow} \subseteq Nat \ {0}

VARIABLE o

NoStream ==
    [lib |-> "none", head |-> "no", headEnd |-> FALSE, tail |-> "no", data |-> "no",
     lease |-> 0, chunks |-> <<>>, front |-> 0, trl |-> 0,
     fin |-> FALSE, can |-> FALSE, def |-> FALSE, eof |-> FALSE, win |-> 0,
     file |-> "no", left |-> 0, permit |-> 0, err |-> FALSE, sig |-> FALSE, after |-> 0,
     owed |-> 0, ended |-> FALSE, acked |-> FALSE, passed |-> 0]

NoBatch == [s |-> 0, end |-> FALSE, left |-> 0]

Init == o = [used |-> 0, queued |-> 0, closed |-> FALSE, credit |-> FALSE, sel |-> 0,
             last |-> 0, prods |-> {}, ends |-> {}, cwin |-> 0, awake |-> FALSE,
             batch |-> NoBatch, st |-> [s \in Streams |-> NoStream]]

Upd(c, s, r) == [c EXCEPT !.st[s] = r @@ @]
Wake(c) == [c EXCEPT !.awake = TRUE]

FileBusy(c, s) == c.st[s].file \in {"start", "reserve", "wait", "read"}

\* The objects of a stream that is over are destroyed with the file's job.
Forget(c, s) ==
    LET r == c.st[s]
    IN  IF r.lib \in {"gone", "reset"} /\ ~FileBusy(c, s) /\ r.lease = 0
        THEN [c EXCEPT !.st[s] = [NoStream EXCEPT !.lib = r.lib, !.can = TRUE, !.ended = r.ended, !.acked = r.acked]]
        ELSE Upd(c, s, IF r.lib \in {"gone", "reset"} THEN [win |-> 0, passed |-> 0] ELSE <<>>)

--------------------------------------------------------------------------------
(* Budget and producer. *)

\* Lease::tryResize and Producer::Impl::resize: the new total, if it fits.
Fits(c, s, n) == n <= c.st[s].lease \/ n - c.st[s].lease <= MaxSend - c.used
Resize(c, s, n) ==
    [Upd(c, s, [lease |-> n]) EXCEPT !.used = @ + n - c.st[s].lease, !.queued = @ + n - c.st[s].lease]

NotifyReaders(c) ==
    [c EXCEPT !.st = [s \in Streams |-> [@[s] EXCEPT !.file = IF @ = "wait" THEN "reserve" ELSE @]]]

CanProduce(c, s) == ~c.closed /\ ~c.st[s].can /\ ~c.st[s].fin

\* Producer::Impl::ready: resume() makes the library read the stream again.
Ready(c, s) ==
    Wake(IF c.st[s].def /\ ~c.closed THEN Upd(c, s, [def |-> FALSE, data |-> "active"]) ELSE c)

AppendFits(c, s, n) == CanProduce(c, s) /\ Fits(c, s, c.st[s].lease + n)
AppendOwned(c, s, n) ==
    LET r == c.st[s]
    IN  Ready(Upd(Resize(c, s, r.lease + n), s,
                  [chunks |-> Append(r.chunks, n), owed |-> r.owed + n]), s)

FinishFits(c, s, t) == CanProduce(c, s) /\ Fits(c, s, c.st[s].lease + t)
Finish(c, s, t) ==
    Ready(Upd(Resize(c, s, c.st[s].lease + t), s, [fin |-> TRUE, trl |-> t]), s)

\* The cancel handler of a file's producer posts the signal that stops the file.
StopProducer(c, s, cancelPending) ==
    LET a == IF cancelPending THEN [c EXCEPT !.ends = @ \ {s}] ELSE c
        b == IF a.sel = s THEN [a EXCEPT !.sel = 0, !.credit = FALSE] ELSE a
        d == Upd(Resize(b, s, 0), s,
                 [can |-> TRUE, chunks |-> <<>>, front |-> 0, trl |-> 0,
                  sig |-> FileBusy(b, s)])
    IN  IF c.st[s].can THEN a ELSE Wake(NotifyReaders(d))

CancelProducer(c, s) == StopProducer(c, s, TRUE)

--------------------------------------------------------------------------------
(* Submitting a response: Http2Output and Http2Response. *)

SubmitHeaders(c, s) ==
    Wake([Upd(c, s, [lib |-> "open", head |-> "queued", headEnd |-> TRUE]) EXCEPT !.ends = @ \cup {s}])

SubmitResponse(c, s) ==
    Wake([Upd(c, s, [lib |-> "open", head |-> "queued", data |-> "active"])
          EXCEPT !.prods = @ \cup {s}, !.ends = @ \cup {s}])

\* queueBody: a body or trailers over the budget cancel the response.
QueueBody(c, s, n, t) ==
    LET b == IF n = 0 THEN c ELSE AppendOwned(c, s, n)
    IN  IF (n = 0 \/ AppendFits(c, s, n)) /\ FinishFits(b, s, t)
        THEN Finish(b, s, t)
        ELSE CancelProducer(IF n = 0 \/ AppendFits(c, s, n) THEN b ELSE c, s)

\* Http2Response::submit; a file needs a task of its own, which may be refused.
Respond(s, kind, n, t) ==
    /\ ~o.closed /\ o.st[s].lib = "none"
    /\ o' = CASE kind = "head" -> SubmitHeaders(o, s)
              [] kind = "body" -> QueueBody(SubmitResponse(o, s), s, n, t)
              [] kind = "file" -> Upd(SubmitResponse(o, s), s, [file |-> "start", left |-> MaxFile, after |-> t])
              [] kind = "none" -> CancelProducer(SubmitResponse(o, s), s)

--------------------------------------------------------------------------------
(* The file reader. *)

\* The permit goes back, and an error cancels the producer.
FileReturns(c, s, err) ==
    LET r == c.st[s]
        a == [Upd(c, s, [file |-> "done", permit |-> 0, err |-> err, sig |-> FALSE])
              EXCEPT !.used = @ - r.permit]
        b == IF r.permit > 0 THEN NotifyReaders(a) ELSE a
    IN  Forget(IF err THEN CancelProducer(b, s) ELSE b, s)

FileStop(c, s) == IF c.st[s].err THEN c ELSE CancelProducer(Upd(c, s, [err |-> TRUE]), s)

\* The tail of runOwned that starts the work, a cancel before the start included.
FileStarts(s) ==
    /\ o.st[s].file = "start"
    /\ o' = IF o.st[s].sig THEN FileReturns(o, s, TRUE) ELSE Upd(o, s, [file |-> "reserve"])

\* One turn of reserveOwned's loop.
FileReserves(s) ==
    LET r == o.st[s]
        n == Min({Prefetch, r.left, MaxSend - o.used, o.cwin, r.win})
    IN  /\ r.file = "reserve"
        /\ o' = IF ~CanProduce(o, s) THEN FileReturns(o, s, TRUE)
                ELSE IF r.chunks = <<>> /\ n > 0
                THEN [Upd(o, s, [file |-> "read", permit |-> n]) EXCEPT !.used = @ + n]
                ELSE Upd(o, s, [file |-> "wait"])

\* appendReserved: the permit becomes the chunk's bytes.
AppendReserved(c, s, n) ==
    AppendOwned(NotifyReaders([Upd(c, s, [permit |-> 0]) EXCEPT !.used = @ - c.st[s].permit]), s, n)

\* The read returned n bytes, or 0 for an error.
FileRead(s, n) ==
    LET r == o.st[s]
        released == [Upd(o, s, [permit |-> 0]) EXCEPT !.used = @ - r.permit]
        appended == Upd(AppendReserved(o, s, n), s, [left |-> r.left - n])
    IN  /\ r.file = "read" /\ n <= r.permit
        /\ o' = IF r.err \/ n = 0 \/ ~AppendFits(released, s, n) THEN FileReturns(o, s, TRUE)
                ELSE IF n < r.left THEN Upd(appended, s, [file |-> "reserve"])
                ELSE IF FinishFits(appended, s, r.after)
                THEN FileReturns(Finish(appended, s, r.after), s, FALSE)
                ELSE FileReturns(appended, s, TRUE)

FileTimeout(s) == o.st[s].file \in {"reserve", "wait", "read"} /\ ~o.st[s].err /\ o' = FileStop(o, s)
FileSignal(s) ==
    /\ o.st[s].file \in {"reserve", "wait", "read"} /\ o.st[s].sig
    /\ o' = FileStop(Upd(o, s, [sig |-> FALSE]), s)

--------------------------------------------------------------------------------
(* One batch: Http2Output::nextBatch. *)

\* Impl::ready: this producer has something to send, and the windows allow it.
Sendable(c, s) ==
    LET r == c.st[s]
    IN  /\ ~r.can /\ ~r.eof /\ (r.chunks # <<>> \/ r.fin)
        /\ r.chunks = <<>> \/ (c.cwin > 0 /\ r.win > 0)

\* A drained and finished message ends with HEADERS, whatever the windows are.
Drained(c) == {s \in c.prods : LET r == c.st[s] IN ~r.can /\ r.fin /\ r.chunks = <<>> /\ ~r.eof}
PrepareFinalHeaders(c) ==
    LET d == Drained(c)
        b == [c EXCEPT !.st = [s \in Streams |->
                 IF s \in d THEN [@[s] EXCEPT !.tail = "queued", !.eof = TRUE] ELSE @[s]]]
    IN  IF c.sel \in d THEN [b EXCEPT !.sel = 0, !.credit = FALSE] ELSE b

\* The next stream after the one read last, round and round.
SelectProducer(c) ==
    LET can  == {s \in c.prods : Sendable(c, s)}
        next == {s \in can : s > c.last}
        s    == Min(IF next # {} THEN next ELSE can)
    IN  IF c.credit /\ c.sel \in can THEN c
        ELSE IF can = {} THEN [c EXCEPT !.credit = FALSE, !.sel = 0]
        ELSE [Upd(c, s, IF c.st[s].def THEN [def |-> FALSE, data |-> "active"] ELSE <<>>)
              EXCEPT !.credit = TRUE, !.sel = s]

PreparedQuietly(c) == SelectProducer(PrepareFinalHeaders(c)) \* slip: readers are not told
Prepared(c) == SelectProducer(PrepareFinalHeaders(NotifyReaders(c)))

\* The library first sends HEADERS it has queued, then reads active streams.
Queued(c) == {s \in Streams : c.st[s].head = "queued" \/ (c.st[s].head = "sent" /\ c.st[s].tail = "queued")}
Active(c) == {s \in Streams : LET r == c.st[s] IN
                  r.lib = "open" /\ r.data = "active" /\ r.head = "sent" /\ r.tail = "no" /\ r.win > 0 /\ c.cwin > 0}

SendHeaders(c, s) ==
    LET r == c.st[s]
        end == IF r.head = "queued" THEN r.headEnd ELSE TRUE
    IN  [Upd(c, s, IF r.head = "queued" THEN [head |-> "sent", ended |-> end]
                   ELSE [tail |-> "sent", ended |-> end])
         EXCEPT !.batch = [s |-> s, end |-> end, left |-> 2]]

\* The stream is closed with an error: the library's onClose, then onStreamClose.
CancelStream(c, s) == Wake([CancelProducer(c, s) EXCEPT !.prods = @ \ {s}, !.ends = @ \ {s}])
Reset(c, s) ==
    Forget(CancelStream(Upd(c, s, [lib |-> "reset", head |-> "no", tail |-> "no", data |-> "no"]), s), s)

\* Producer::read of a stream that may not send now: deferred, or reset when cancelled.
Defer(c, s) == IF c.st[s].can THEN Reset(c, s) ELSE Upd(c, s, [def |-> TRUE, data |-> "deferred"])
DeferAll(c, S) == FoldSet(LAMBDA s, acc : Defer(acc, s), c, S)

\* Producer::read of the selected stream: one unit of the front chunk.
ReadChunk(c, s) ==
    LET r    == c.st[s]
        whole == r.front + 1 = Head(r.chunks)
        a    == Upd(c, s, [win |-> r.win - 1, owed |-> r.owed - 1, passed |-> 0,
                           front |-> IF whole THEN 0 ELSE r.front + 1,
                           chunks |-> IF whole THEN Tail(r.chunks) ELSE r.chunks])
        b    == IF whole THEN NotifyReaders(Resize(a, s, r.lease - Head(r.chunks))) ELSE a
        eof  == r.fin /\ b.st[s].chunks = <<>>
        end  == eof /\ r.trl = 0
        d    == Upd(b, s, [eof |-> eof, ended |-> end, data |-> IF eof THEN "done" ELSE "active",
                           tail |-> IF eof /\ ~end THEN "queued" ELSE "no"])
    IN  [d EXCEPT !.credit = FALSE, !.last = s, !.cwin = @ - 1,
                  !.batch = [s |-> s, end |-> end, left |-> 2],
                  !.st = [t \in Streams |->
                      IF t # s /\ t \in c.prods /\ Sendable(c, t)
                      THEN [@[t] EXCEPT !.passed = Min({@ + 1, Cardinality(Streams) + 1})] ELSE @[t]]]

CanRead(c) == c.credit /\ c.sel \in Active(c) /\ c.st[c.sel].chunks # <<>>

NextBatch ==
    LET c == Prepared(o)
    IN  /\ ~o.closed /\ o.awake /\ o.batch = NoBatch
        /\ \/ \E s \in Queued(c) : o' = SendHeaders(c, s)
           \/ /\ Queued(c) = {} /\ CanRead(c)
              /\ \E S \in SUBSET (Active(c) \ {c.sel}) : o' = ReadChunk(DeferAll(c, S), c.sel)
           \/ /\ Queued(c) = {} /\ ~CanRead(c)
              /\ o' = [DeferAll(c, Active(c)) EXCEPT !.awake = FALSE]

\* acknowledge(): the END of a stream counts when its frame is wholly written.
Acknowledge(n) ==
    LET b    == o.batch
        done == n = b.left
        c    == NotifyReaders([o EXCEPT !.batch = IF done THEN NoBatch ELSE [b EXCEPT !.left = @ - n]])
    IN  /\ ~o.closed /\ b # NoBatch /\ n <= b.left
        /\ o' = IF done /\ b.end /\ b.s \in c.ends
                THEN [Upd(c, b.s, [acked |-> TRUE]) EXCEPT !.ends = @ \ {b.s}] ELSE c

--------------------------------------------------------------------------------
(* What the peer and the session do. *)

\* The session resets a stream whose response failed; the peer resets any.
ResetStream(s) == ~o.closed /\ o.st[s].lib = "open" /\ o' = Reset(o, s)

\* Both sides have ended: the library closes the stream, maybe before the END is written.
CloseStreamCancels(s) == \* slip: a clean close drops the pending end
    /\ ~o.closed /\ o.st[s].lib = "open" /\ o.st[s].ended
    /\ o' = Forget([StopProducer(Upd(o, s, [lib |-> "gone", data |-> "no"]), s, TRUE)
                    EXCEPT !.prods = @ \ {s}], s)
CloseStream(s) ==
    /\ ~o.closed /\ o.st[s].lib = "open" /\ o.st[s].ended
    /\ o' = Forget([StopProducer(Upd(o, s, [lib |-> "gone", data |-> "no"]), s, FALSE)
                    EXCEPT !.prods = @ \ {s}], s)

StreamWindow(s) ==
    ~o.closed /\ o.st[s].lib = "open" /\ o.st[s].win < MaxWindow
    /\ o' = Wake(Upd(o, s, [win |-> MaxWindow]))
ConnectionWindow == ~o.closed /\ o.cwin < MaxWindow /\ o' = Wake([o EXCEPT !.cwin = MaxWindow])

\* close(): every producer is cancelled, nothing is written or acknowledged any more.
CloseOutput ==
    /\ ~o.closed
    /\ LET c == FoldSet(LAMBDA s, acc : CancelProducer(acc, s), o, o.prods)
           d == [c EXCEPT !.closed = TRUE, !.ends = {}, !.prods = {}, !.batch = NoBatch,
                          !.cwin = 0, !.last = 0, !.sel = 0]
       IN  o' = FoldSet(LAMBDA s, acc : Forget(Upd(acc, s, [lib |-> "gone"]), s), d, Streams)

Closed == o.closed /\ (\A s \in Streams : ~FileBusy(o, s)) /\ UNCHANGED o

FileSteps(s) ==
    \/ FileStarts(s) \/ FileReserves(s) \/ FileSignal(s)
    \/ \E n \in 0 .. Prefetch : FileRead(s, n)

Peer == ConnectionWindow \/ (\E s \in Streams : StreamWindow(s) \/ ResetStream(s) \/ CloseStream(s))

Next ==
    \/ \E s \in Streams :
          \/ \E kind \in {"head", "file", "none"}, t \in {0, 1} : Respond(s, kind, 0, t)
          \/ \E n \in 0 .. MaxBody, t \in {0, 1} : n + t > 0 /\ Respond(s, "body", n, t)
          \/ FileSteps(s) \/ FileTimeout(s)
    \/ NextBatch \/ (\E n \in 1 .. 2 : Acknowledge(n))
    \/ Peer \/ CloseOutput \/ Closed

Spec == Init /\ [][Next]_o

--------------------------------------------------------------------------------
(* Properties. *)

SumOver(f(_)) == FoldSet(LAMBDA s, acc : acc + f(s), 0, Streams)

TypeOK ==
    /\ o.used \in 0 .. MaxSend /\ o.queued \in 0 .. MaxSend
    /\ o.sel \in Streams \cup {0} /\ o.last \in Streams \cup {0}
    /\ o.prods \subseteq Streams /\ o.ends \subseteq Streams /\ o.cwin \in 0 .. MaxWindow
    /\ o.batch.s \in Streams \cup {0} /\ o.batch.left \in 0 .. 2
    /\ \A s \in Streams :
          LET r == o.st[s]
          IN  /\ r.lib \in {"none", "open", "gone", "reset"} /\ r.data \in {"no", "active", "deferred", "done"}
              /\ r.file \in {"no", "start", "reserve", "wait", "read", "done"}
              /\ r.lease \in 0 .. MaxSend /\ r.permit \in 0 .. Prefetch /\ r.win \in 0 .. MaxWindow

(* The send budget is exactly the bytes that are stored: what the producers'  *)
(* chunks and trailers hold and what file reads have reserved, through every  *)
(* append, partial read, cancellation and error (Lease, resize, ReadPermit).  *)
BudgetExact ==
    /\ o.queued = SumOver(LAMBDA s : o.st[s].lease)
    /\ o.used = o.queued + SumOver(LAMBDA s : o.st[s].permit)
    /\ \A s \in Streams :
          o.st[s].lease = FoldLeft(LAMBDA acc, n : acc + n, 0, o.st[s].chunks) + o.st[s].trl

(* END_STREAM never overtakes payload: when a frame that ends a stream has    *)
(* been produced, by the last DATA or by the final HEADERS submitted at a     *)
(* closed window, every byte the response was given has been sent before it.  *)
EndIsLast == \A s \in Streams : o.st[s].ended => o.st[s].owed = 0

(* acknowledge() reports a stream as ended exactly when the frame with its    *)
(* END_STREAM is wholly written, also if the library closed the stream        *)
(* before that (stop(false) keeps the pending end), and never after a reset.  *)
ReportedWhenWritten ==
    ~o.closed => \A s \in Streams :
        LET r == o.st[s]
            writing == o.batch.s = s /\ o.batch.end
        IN  /\ r.acked => r.ended /\ ~writing
            /\ r.ended /\ ~writing /\ r.lib # "reset" => r.acked

(* A read credit is never stuck: the stream that holds it is registered, not  *)
(* cancelled, and the library will read it (selectProducer resumes it, stop   *)
(* and prepareFinalHeaders take the credit back).                             *)
CreditUsable ==
    o.credit /\ ~o.closed =>
        /\ o.sel \in o.prods /\ ~o.st[o.sel].can /\ ~o.st[o.sel].eof
        /\ o.st[o.sel].data = "active"

(* No response monopolises the connection: while a stream could send, each    *)
(* other stream is read at most once before it (one read per credit, then     *)
(* the next identifier, round and round).                                     *)
NobodyOvertakenTwice == \A s \in Streams : o.st[s].passed < Cardinality(Streams)

(* Nothing is forgotten: when the writer sleeps with nothing to write and no  *)
(* file is at work, a response that has not ended waits for the peer alone.   *)
(* Its window or the connection's is closed, or its file waits for send bytes *)
(* that other responses hold (wake-ups of ready, stop and notifyReaders).     *)
WaitsOnlyForPeer ==
    ~o.closed /\ ~o.awake /\ o.batch = NoBatch
    /\ (\A s \in Streams : ~(FileBusy(o, s) /\ o.st[s].file # "wait"))
        => \A s \in Streams :
              LET r == o.st[s]
              IN  r.lib = "open" /\ ~r.can /\ ~r.ended =>
                     o.cwin = 0 \/ r.win = 0 \/ (r.file = "wait" /\ o.used = MaxSend)

(* Budget, order, reports, credits and turns are right whatever is appended,  *)
(* read, cancelled or reset between two writes (Http2Output.cpp).             *)
OutputSound ==
    TypeOK /\ BudgetExact /\ EndIsLast /\ ReportedWhenWritten /\ CreditUsable /\ NobodyOvertakenTwice

================================================================================
