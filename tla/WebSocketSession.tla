-------------------------- MODULE WebSocketSession --------------------------
(***************************************************************************)
(* One WebSocket connection (WebSocket.cpp) and the coroutine that serves  *)
(* it (HttpServer::handleWebSocket in HttpSessionImpl.cpp).  Everything    *)
(* runs on the connection's loop, so an action is what one coroutine does  *)
(* between two suspensions.  The coroutines are the reader (decode a batch *)
(* of frames, run the callbacks, end the batch), the heartbeat, broadcasts *)
(* of the hub and somebody who calls closeAsync() from outside.            *)
(*                                                                         *)
(* writeReady_ is a timer that has always expired, so a coroutine waiting  *)
(* for the write lock looks again at its next turn: waiters poll, in no    *)
(* particular order.                                                       *)
(***************************************************************************)
EXTENDS Naturals, Sequences, FiniteSets, SequencesExt

CONSTANTS
    Casts,          \* the hub's broadcast coroutines
    MaxReplies,     \* frames the callbacks send in all
    MaxPings,       \* pings the heartbeat sends
    FramesPerBatch, \* kMaxFramesPerBatch
    WriteBatch,     \* kWriteBatchBytes, in frames
    MaxMessage,     \* maxMessageSize_, in fragments
    Kinds,          \* the kinds of frame the peer may send
    Situations      \* who is there beside the reader, and how many frames the peer sends

VARIABLE w

Actors == Casts \cup {"reader", "ping", "closer"}

None == "none"

\* What a coroutine does with the write lock once it has it.
Modes == {"send", "queue", "flush"}

Frames == [k : {"data", "ping", "pong", "close"}, by : Actors, n : Nat]

Frame(k, x, n) == [k |-> k, by |-> x, n |-> n]

\* A coroutine: where it is in the code (at) and, while it is inside
\* sendFrame, queueFrame or flushBatch, whether it polls for the lock or
\* writes (io), what it does with the lock (mode) and its frame.
Idle(at) == [at |-> at, io |-> "no", mode |-> "send", f |-> Frame("data", "reader", 0)]

Init ==
    \E t \in Situations :
      LET on == t[1] IN
      w = [max |-> t[2], open |-> TRUE, sock |-> TRUE, lock |-> None, batching |-> FALSE,
           batch |-> <<>>, wire |-> <<>>, reply |-> FALSE, comp |-> 0,
           a |-> [x \in Actors |-> Idle(CASE x = "reader" -> "connect"
                                         [] x \notin on -> "gone"
                                         [] x = "ping" -> "timer"
                                         [] OTHER -> "start")],
           in |-> <<>>, half |-> FALSE, arrived |-> 0, decoded |-> 0, seen |-> <<>>,
           frag |-> <<>>, out |-> <<>>, msgs |-> <<>>, alive |-> TRUE, err |-> FALSE,
           deadline |-> IF "deadline" \in on THEN "off" ELSE "none", replies |-> 0, pings |-> 0, over |-> FALSE, left |-> 0, waited |-> FALSE]

isOpen(c) == c.open /\ c.sock

At(c, x, at) == [c EXCEPT !.a[x] = Idle(at)]

\* close(), or the socket closed by a timer: a suspended read or write ends with an error.
close(c) == [c EXCEPT !.open = FALSE, !.sock = FALSE]

-----------------------------------------------------------------------------
(* The write lock and the frames.                                          *)

releaseWrite(c) == [c EXCEPT !.lock = None]

\* The coroutine leaves sendFrame, queueFrame or flushBatch: it goes on at
\* a[x].at, which the actions below test; ok is FALSE when the write threw.
Leave(c, x, ok) ==
    releaseWrite([c EXCEPT !.a[x].io = IF ok THEN "no" ELSE "threw"])

Writing(c, x, what) == [c EXCEPT !.a[x].io = what]

writeBatchLocked(c, x) ==
    IF c.batch = <<>> THEN Leave(c, x, TRUE) ELSE Writing(c, x, "batch")

queueFrameLocked(c, x) ==
    LET d == [c EXCEPT !.batch = Append(@, c.a[x].f)]
    IN IF Len(d.batch) >= WriteBatch THEN writeBatchLocked(d, x) ELSE Leave(d, x, TRUE)

acquireWriteForeign(c, x) ==
    IF c.lock # None THEN [c EXCEPT !.a[x].io = "poll", !.waited = @ \/ (c.a[x].mode = "send" /\ c.a[x].f.k = "data")]
    ELSE LET d == [c EXCEPT !.lock = x]
         IN CASE d.a[x].mode = "flush" -> writeBatchLocked(d, x)
              [] d.a[x].mode = "queue" \/ (d.batching /\ x = "reader") -> queueFrameLocked(d, x)
              [] OTHER -> Writing(d, x, "frame")
\* acquireWrite() and what follows it under the WriteLock.
acquireWrite(c, x) ==
    IF c.lock # None THEN [c EXCEPT !.a[x].io = "poll", !.waited = @ \/ (c.a[x].mode = "send" /\ c.a[x].f.k = "data")]
    ELSE LET d == [c EXCEPT !.lock = x]
         IN CASE d.a[x].mode = "flush" -> writeBatchLocked(d, x)
              [] d.a[x].mode = "queue" \/ d.batching -> queueFrameLocked(d, x)
              [] OTHER -> Writing(d, x, "frame")

sendFrame(c, x, at, f) ==
    acquireWrite([c EXCEPT !.a[x] = [at |-> at, io |-> "poll", mode |-> "send", f |-> f]], x)

queueFrame(c, x, at, f) ==
    acquireWrite([c EXCEPT !.a[x] = [at |-> at, io |-> "poll", mode |-> "queue", f |-> f]], x)

flushBatch(c, x, at) ==
    IF c.batch = <<>> THEN At(c, x, at)
    ELSE acquireWrite([c EXCEPT !.a[x] = [Idle(at) EXCEPT !.mode = "flush"]], x)

\* send() and sendBinary(): the message is compressed, in the order of the
\* calls, before the write lock is asked for.
send(c, x, at) ==
    sendFrame([c EXCEPT !.comp = @ + 1], x, at, Frame("data", x, c.comp + 1))

sendPing(c, x, at) == sendFrame(c, x, at, Frame("ping", x, 0))

sendCloseFrame(c, x, at) == sendFrame(c, x, at, Frame("close", x, 0))

-----------------------------------------------------------------------------
(* The reader: receiveBatch() and the loop of handleWebSocket.             *)

\* A read that ends the connection, or a frame that must not be: the answer
\* is recorded, the batch decoded so far is still handed to the callbacks.
replyClose(c) == [c EXCEPT !.reply = TRUE, !.open = FALSE, !.alive = FALSE]

\* receiveBatch() returns: the deadline is cancelled (a handler already
\* queued still runs) and the batch window opens.
beginBatch(c) ==
    At([c EXCEPT !.deadline = IF @ = "armed" THEN "off" ELSE @, !.batching = TRUE], "reader", "callback")

Consume(c) ==
    [c EXCEPT !.in = Tail(@), !.decoded = @ + 1, !.seen = Append(@, Head(c.in))]

\* A text, binary or continuation frame; f.fin ends the message.
DataFrame(c, f) ==
    [c EXCEPT !.frag = IF f.k = "text" THEN <<f>> ELSE Append(@, f)]

EndMessage(c) == [c EXCEPT !.out = Append(@, c.frag), !.frag = <<>>]

ensureBytes(c) == flushBatch(c, "reader", "read")

\* receiveBatch() from the top of its loop to the next suspension.
RECURSIVE receiveBatch(_)
receiveBatch(c) ==
    LET f == Head(c.in)
        d == IF f.k \in {"text", "cont"} THEN DataFrame(c, f) ELSE c
    IN CASE c.decoded >= FramesPerBatch -> beginBatch(c)
         [] c.decoded < FramesPerBatch /\ c.in = <<>> ->
              IF c.out # <<>> THEN beginBatch(c) ELSE ensureBytes(c)
         [] OTHER ->
              CASE f.k = "bad" -> beginBatch(replyClose(c))
                [] f.k = "close" -> beginBatch(replyClose(Consume(c)))
                [] f.k = "ping" -> queueFrame(c, "reader", "ponged", Frame("pong", "reader", 0))
                [] f.k = "pong" -> receiveBatch(Consume(c))
                [] f.k \in {"text", "cont"} ->
                     IF Len(d.frag) > MaxMessage THEN beginBatch(replyClose(d))
                     ELSE receiveBatch(IF f.fin THEN EndMessage(Consume(d)) ELSE Consume(d))

Catch(c) == At([c EXCEPT !.err = TRUE], "reader", "endBatch")

\* The loop of handleWebSocket: arm the deadline and receive a batch.
NextBatch(c) ==
    receiveBatch([c EXCEPT !.out = <<>>, !.decoded = 0, !.alive = TRUE,
                           !.deadline = IF @ = "none" THEN @ ELSE "armed"])

\* endBatch(): first the batch, then the answer to a close frame.
endBatch(c) == flushBatch([c EXCEPT !.batching = FALSE], "reader", "flushed")

ReplyToClose(c) ==
    IF c.reply THEN sendCloseFrame([c EXCEPT !.reply = FALSE], "reader", "ended")
               ELSE At(c, "reader", "ended")

\* The end of handleWebSocket: WsAliveGuard stops the heartbeat.  left: the
\* last message compressed before onDisconnect.
Leaves(c) ==
    LET d == At([c EXCEPT !.over = TRUE, !.left = c.comp], "reader", "disconnect")
    IN IF d.a["ping"].at = "timer" THEN At(d, "ping", "cancelled") ELSE d

-----------------------------------------------------------------------------
(* The idle deadline, the heartbeat, the hub and closeAsync().             *)

\* The heartbeat after its ping: wait again, or the loop ends.
Pinged(c, ok) == At(c, "ping", IF ok /\ ~c.over /\ isOpen(c) THEN "timer" ELSE "gone")

\* closeAsync() after flushBatch(), and after the close frame or its error.
CloseFlushed(c, x) == sendCloseFrame([c EXCEPT !.batching = FALSE], x, "closed")

CloseSent(c, x) == At(close(c), x, IF x = "reader" THEN "callback" ELSE "gone")

\* Where a coroutine stops to wait for something other than the write lock:
\* the socket, a timer, or the application's own code.
Waits(c, x) ==
    \/ c.a[x].at \in {"read", "timer", "start", "cancelled", "gone"}
    \/ c.a[x].at = "disconnect" /\ c.a[x].io = "no"
    \/ c.a[x].at = "callback" /\ c.a[x].io = "no" /\ c.out # <<>>

Step(c, x) ==
    LET at == c.a[x].at
        ok == c.a[x].io = "no"
    IN CASE at = "ponged" -> receiveBatch(Consume(c))
         [] at = "callback" -> IF ok THEN At(c, x, "endBatch") ELSE Catch(c)
         [] at = "endBatch" -> endBatch(c)
         [] at = "flushed" -> ReplyToClose(c)
         [] at = "ended" -> At(c, x, IF c.err \/ ~c.alive THEN "leave" ELSE "loop")
         [] at = "loop" -> IF isOpen(c) THEN NextBatch(c) ELSE At(c, x, "leave")
         [] at = "leave" -> Leaves(c)
         [] at = "disconnect" -> At(c, x, "gone")
         [] at = "pinged" -> Pinged(c, ok)
         [] at = "closing" -> CloseFlushed(c, x)
         [] at = "closed" -> CloseSent(c, x)

\* Coroutine x runs on to its next suspension.
RECURSIVE Run(_, _)
Run(c, x) ==
    IF c.a[x].io \in {"poll", "frame", "batch"} \/ Waits(c, x) THEN c ELSE Run(Step(c, x), x)

-----------------------------------------------------------------------------
(* What may happen on the loop.                                            *)

Stands(x, at) == w.a[x].io = "no" /\ w.a[x].at = at

Poll(x) == w.a[x].io = "poll" /\ w.lock = None /\ w' = Run(acquireWrite(w, x), x)

\* The async_write in flight ends; once the socket is closed it can only fail.
WriteEnds(x) ==
    \E ok \in IF w.sock THEN {TRUE, FALSE} ELSE {FALSE} :
        \/ /\ w.a[x].io = "batch"
           /\ w' = Run(Leave(IF ok THEN [w EXCEPT !.wire = @ \o w.batch, !.batch = <<>>]
                                   ELSE [w EXCEPT !.batch = <<>>, !.open = FALSE], x, TRUE), x)
        \/ /\ w.a[x].io = "frame"
           /\ w' = Run(Leave(IF ok THEN [w EXCEPT !.wire = Append(@, w.a[x].f)] ELSE w, x, ok), x)

Connects == Stands("reader", "connect") /\ w' = Run(At(w, "reader", "loop"), "reader")

\* async_read_some() brings the rest of a frame, whole frames, or half of one.
ReadSome ==
    /\ Stands("reader", "read") /\ w.sock
    /\ \E n \in 0..2, half \in BOOLEAN :
         /\ n > 0 \/ (half /\ ~w.half)
         /\ w.arrived + n + (IF half THEN 1 ELSE 0) <= w.max
         /\ \E fs \in [1..n -> Kinds] :
              w' = Run(receiveBatch([w EXCEPT
                     !.in = @ \o [i \in 1..n |-> [k |-> fs[i][1], fin |-> fs[i][2], n |-> w.arrived + i]],
                     !.half = half, !.arrived = @ + n]), "reader")

\* eof, a reset, or the socket was closed under the read.
ReadFails ==
    /\ Stands("reader", "read")
    /\ w' = Run(beginBatch([w EXCEPT !.open = FALSE, !.alive = FALSE]), "reader")

\* A callback of the batch sends, returns or throws; onDisconnect may send too.
CallbackSends ==
    \E at \in {"callback", "disconnect"} :
        /\ Stands("reader", at) /\ w.replies < MaxReplies
        /\ w' = Run(send([w EXCEPT !.replies = @ + 1], "reader", at), "reader")

CallbackReturns ==
    \/ /\ Stands("reader", "callback")
       /\ w' = Run([w EXCEPT !.out = Tail(@), !.msgs = Append(@, Head(w.out))], "reader")
    \/ Stands("reader", "disconnect") /\ w' = At(w, "reader", "gone")

CallbackThrows == Stands("reader", "callback") /\ w' = Run(Catch(w), "reader")

DeadlineExpires == w.deadline = "armed" /\ w' = [w EXCEPT !.deadline = "queued"]

DeadlineRuns ==
    /\ w.deadline = "queued"
    /\ w' = [w EXCEPT !.deadline = "off", !.sock = @ /\ (w.over \/ ~w.open)]

\* The heartbeat's timer fired: give a dead connection up, or ping; or it was cancelled.
PingTimer ==
    \/ /\ Stands("ping", "timer") /\ w.pings < MaxPings
       /\ w' = Run(sendPing([w EXCEPT !.pings = @ + 1], "ping", "pinged"), "ping")
    \/ Stands("ping", "timer") /\ w' = At([w EXCEPT !.sock = FALSE], "ping", "gone")
    \/ Stands("ping", "cancelled") /\ w' = At(w, "ping", "gone")

\* A coroutine the hub spawned: isOpen() again, then send().
Casting(x) ==
    /\ Stands(x, "start")
    /\ w' = IF isOpen(w) THEN send(w, x, "gone") ELSE At(w, x, "gone")

\* closeAsync(), called from a callback or from outside.
closeAsync(x) ==
    /\ w.open
    /\ \/ x = "closer" /\ Stands(x, "start")
       \/ x = "reader" /\ Stands(x, "callback")
    /\ w' = Run(flushBatch([w EXCEPT !.open = FALSE], x, "closing"), x)

-----------------------------------------------------------------------------
Next ==
    \/ Connects \/ ReadSome \/ ReadFails \/ CallbackSends \/ CallbackReturns \/ CallbackThrows
    \/ DeadlineExpires \/ DeadlineRuns \/ PingTimer
    \/ \E x \in Casts : Casting(x)
    \/ \E x \in {"reader", "closer"} : closeAsync(x)
    \/ \E x \in Actors : Poll(x) \/ WriteEnds(x)

-----------------------------------------------------------------------------
(* Properties.                                                             *)

TypeOK ==
    /\ w.open \in BOOLEAN /\ w.sock \in BOOLEAN /\ w.batching \in BOOLEAN /\ w.reply \in BOOLEAN
    /\ w.lock \in Actors \cup {None} /\ w.deadline \in {"none", "off", "armed", "queued"}
    /\ ToSet(w.wire) \cup ToSet(w.batch) \subseteq Frames
    /\ \A x \in Actors : w.a[x].io \in {"no", "poll", "frame", "batch", "threw"} /\ w.a[x].mode \in Modes

\* The write lock is held exactly by the coroutine whose async_write is in
\* flight: there is never a second write on the socket, frameBuf_ and
\* writeBatch_ are not touched under a write, and the lock is never left
\* taken by a coroutine that has gone on (acquireWrite, WriteLock).
WriterHoldsLock == \A x \in Actors : w.a[x].io \in {"frame", "batch"} <=> w.lock = x

\* While the reader waits for the peer nothing is held back: no decoded
\* message, no pong or reply in writeBatch_, no answer to a close, and a
\* send() of the heartbeat or the hub goes out at once (ensureBytes,
\* receiveBatch, endBatch).
NothingHeldBack ==
    Stands("reader", "read") => w.out = <<>> /\ w.batch = <<>> /\ ~w.reply /\ ~w.batching

\* The messages handed to the callbacks are the peer's messages, whole, in
\* order and once each, however the frames were split over reads and
\* batches and whatever control frames came between the fragments.
MessagesWhole ==
    LET data == SelectSeq(w.seen, LAMBDA f : f.k \in {"text", "cont"})
        ends == {i \in DOMAIN data : data[i].fin}
        from(i) == CHOOSE j \in 1..i :
                     /\ data[j].k = "text" \/ j = 1 \/ (j - 1) \in ends
                     /\ \A m \in j + 1 .. i : data[m].k # "text" /\ (m - 1) \notin ends
        order == SetToSortSeq(ends, <)
    IN w.msgs \o w.out = [m \in DOMAIN order |-> SubSeq(data, from(order[m]), order[m])]

\* What the callbacks send reaches the wire in the order they sent it, and
\* nothing a callback of the batch sent follows the close frame: replies
\* first, then the answer to the close (endBatch, closeAsync).
RepliesInOrder ==
    LET mine == SelectSeq(w.wire, LAMBDA f : f.by = "reader" /\ f.k = "data")
    IN /\ \A i, j \in DOMAIN mine : i < j => mine[i].n < mine[j].n
       /\ \A i, j \in DOMAIN w.wire :
             i < j /\ w.wire[i].k = "close" /\ w.wire[j].by = "reader" /\ w.wire[j].k = "data" =>
                 w.over /\ w.wire[j].n > w.left

\* When handleWebSocket has left its loop the heartbeat is not waiting on
\* its timer any more, and no close answer or batch is left behind on a
\* connection whose socket is open (WsAliveGuard, endBatch).
NothingLeftBehind ==
    w.over /\ w.a["reader"].at = "gone" =>
        /\ ~Stands("ping", "timer")
        /\ w.sock /\ w.lock = None => ~w.reply /\ w.batch = <<>>

\* Compressed messages reach the peer's inflater in the order in which the context
\* compressed them, through batching, pongs and the close frame, unless one that was
\* already compressed had to wait for the write lock: waiters poll, in no order
\* (sendText, acquireWrite).
CompressedInOrder ==
    LET data == SelectSeq(w.wire, LAMBDA f : f.k = "data")
    IN w.waited \/ \A i, j \in DOMAIN data : i < j => data[i].n < data[j].n
=============================================================================
