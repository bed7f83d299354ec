----------------------------- MODULE SseSession -----------------------------
(***************************************************************************)
(* A server-sent-event stream (SseSession.cpp) and HttpServer's            *)
(* handleSseSession, which runs the application's onConnect and, beside it *)
(* on the same loop, a heartbeat that sends comments.  sendEvent and       *)
(* sendComment build their text in sendBuf_ and give async_write a view of *)
(* it; the chunk's size is computed before the write and kept on the stack.*)
(* A write takes two steps: the size goes out, then the text, read from    *)
(* sendBuf_ as it then is.                                                 *)
(***************************************************************************)
EXTENDS Naturals, Sequences, FiniteSets, SequencesExt

CONSTANTS
    MaxEvents, \* events onConnect sends
    MaxBeats   \* comments the heartbeat sends

VARIABLE e

Senders == {"app", "beat"}

\* The text in sendBuf_: who built it and its number.
Text(x, n) == <<x, n>>

\* io: what each sender is doing with the socket; mine: the text whose size
\* it has sent; wire: the pieces written, in order.  broken: a write failed,
\* and so does every later one; met, a ghost: a write began while the other
\* sender was writing.
Init ==
    e = [alive |-> TRUE, sock |-> TRUE, head |-> FALSE, buf |-> <<>>, wire |-> <<>>,
         at |-> [x \in Senders |-> IF x = "app" THEN "head" ELSE "none"],
         mine |-> [x \in Senders |-> <<>>], events |-> 0, beats |-> 0, beatAlive |-> TRUE,
         broken |-> FALSE, met |-> FALSE]

Put(c, x, kind) == [c EXCEPT !.wire = Append(@, [k |-> kind, by |-> x, t |-> IF kind = "size" THEN c.mine[x] ELSE c.buf])]

At(c, x, at) == [c EXCEPT !.at[x] = at]

\* sendResponseHead(); then the heartbeat is spawned and onConnect runs.
HeadSent ==
    /\ e.at["app"] = "head"
    /\ e' = IF e.sock THEN At(At([e EXCEPT !.head = TRUE], "app", "run"), "beat", "timer")
                      ELSE At(e, "app", "unwind")

\* sendEvent and sendComment up to the async_write.
Busy(c) == \E x \in Senders : c.at[x] \in {"size", "text"}
Build(c, x, t) == At([c EXCEPT !.buf = t, !.mine[x] = t, !.met = @ \/ Busy(c)], x, "size")

sendEvent ==
    /\ e.at["app"] = "run" /\ e.events < MaxEvents
    /\ e' = IF e.alive THEN Build([e EXCEPT !.events = @ + 1], "app", Text("app", e.events + 1))
                       ELSE [e EXCEPT !.events = @ + 1]

sendComment ==
    /\ e.at["beat"] = "woken" /\ e.beats < MaxBeats
    /\ e' = IF ~e.beatAlive THEN At(e, "beat", "gone")
            ELSE IF e.alive /\ e.sock THEN Build([e EXCEPT !.beats = @ + 1], "beat", Text("beat", e.beats + 1))
            ELSE At(e, "beat", "timer")

\* async_write: the size, the text, then the coroutine goes on; an error is thrown.
AfterWrite(x) == IF x = "app" THEN "run" ELSE IF e.beatAlive THEN "timer" ELSE "gone"
WriteSize(x) == e.at[x] = "size" /\ e.sock /\ ~e.broken /\ e' = At(Put(e, x, "size"), x, "text")
WriteText(x) == e.at[x] = "text" /\ e.sock /\ ~e.broken /\ e' = At(Put(e, x, "text"), x, AfterWrite(x))
WriteFails(x) ==
    /\ e.at[x] \in {"size", "text"}
    /\ e' = At([e EXCEPT !.broken = TRUE], x, IF x = "app" THEN "unwind" ELSE "gone")

\* close(): no more events; the last chunk, then the socket.
close ==
    /\ e.at["app"] = "run"
    /\ e' = IF e.alive THEN At([e EXCEPT !.alive = FALSE, !.met = @ \/ Busy(e)], "app", "trailer") ELSE At(e, "app", "run")
TrailerEnds ==
    /\ e.at["app"] = "trailer"
    /\ \E ok \in IF e.sock /\ ~e.broken THEN BOOLEAN ELSE {FALSE} :
         e' = At([e EXCEPT !.sock = FALSE,
                           !.wire = IF ok THEN Append(@, [k |-> "end", by |-> "app", t |-> <<>>]) ELSE @],
                 "app", "run")

HeartbeatTimer ==
    \/ e.at["beat"] = "timer" /\ e.beats < MaxBeats /\ e' = At(e, "beat", "woken")
    \/ e.at["beat"] = "cancelled" /\ e' = At(e, "beat", "gone")

\* onConnect returns or throws: HeartbeatGuard, then the socket's guard.
Unwind ==
    /\ e.at["app"] \in {"run", "unwind"}
    /\ e' = At([e EXCEPT !.beatAlive = FALSE, !.sock = FALSE,
                         !.at["beat"] = IF @ = "timer" THEN "cancelled" ELSE @], "app", "gone")

\* The peer goes, or the idle scanner closes the socket after half an hour.
SocketCloses == e.sock /\ e' = [e EXCEPT !.sock = FALSE]

Next ==
    \/ HeadSent \/ sendEvent \/ sendComment \/ close \/ TrailerEnds \/ HeartbeatTimer \/ Unwind \/ SocketCloses
    \/ \E x \in Senders : WriteSize(x) \/ WriteText(x) \/ WriteFails(x)

-----------------------------------------------------------------------------
TypeOK ==
    /\ {e.alive, e.sock, e.head, e.beatAlive, e.broken, e.met} \subseteq BOOLEAN
    /\ \A x \in Senders : e.at[x] \in {"none", "head", "run", "woken", "timer", "cancelled", "size", "text",
                                       "trailer", "unwind", "gone"}

\* Once onConnect is over the heartbeat never sleeps for another interval:
\* it is gone, or on its way out, whether it was waiting for its timer or
\* in the middle of a comment (HeartbeatGuard sets the flag and cancels).
HeartbeatStops == e.at["app"] = "gone" => e.at["beat"] # "timer" /\ (e.at["beat"] = "woken" => ~e.beatAlive)

\* Every chunk on the wire has the size of the text that follows it, through failed
\* writes and close(), as long as no event meets a comment in the middle of its write:
\* sendBuf_ is all they share (sendEvent, sendComment).
ChunksIntact ==
    e.met \/ \A i \in DOMAIN e.wire :
        e.wire[i].k = "size" /\ i < Len(e.wire) => e.wire[i + 1].k = "text" /\ e.wire[i + 1].t = e.wire[i].t
=============================================================================
