---------------------------- MODULE TcpConnection ----------------------------
(* The life of one TCP or TLS connection (src/asio/GenericConnection.hci):   *)
(* its state_, its read loop, and the callbacks it makes, driven by the      *)
(* loop thread and by other threads that call close(), shutdown(),           *)
(* startRead() and stopRead().  The connection is one record; what a handler *)
(* does on the loop is a function of it, so that nested calls compose.       *)
EXTENDS Integers, Sequences

CONSTANTS
    Threads,     \* threads other than the loop's
    Calls,       \* the calls those threads make
    LoopCalls,   \* the calls the user's callbacks make, on the loop
    MaxCalls     \* bound on the calls each thread makes

AllCalls == {"close", "shutdown", "stopRead", "startRead", "destroy"}

ASSUME CallsAssumption == Calls \cup LoopCalls \subseteq AllCalls
ASSUME BoundAssumption == MaxCalls \in Nat

VARIABLES
    con,       \* the connection: SocketType is TLS, state_, the socket, reading_, the readLoop()
               \* coroutines in async_read_some, a TLS close_notify under way,
               \* and the callbacks made: connected, disconnected, closed
    writer,    \* a writeLoop() is suspended in async_write
    handshake, \* sslHandshake(): "none", "pending", "done"
    tasks,     \* closures posted to the loop, in order
    peer,      \* "here" until the peer closes
    tpc,       \* where each thread is: "out", or "store" inside shutdown()
    calls,     \* calls each thread has made
    asked      \* the calls made so far

vars == <<con, writer, handshake, tasks, peer, tpc, calls, asked>>

Init ==
    /\ con \in [ssl : BOOLEAN, state : {"connecting"}, sock : {"open"}, reading : {FALSE},
              readers : {0}, notify : {FALSE}, ups : {0}, downs : {0}, closes : {0}]
    /\ writer = FALSE
    /\ handshake = "none"
    /\ tasks = <<"established">>
    /\ peer = "here"
    /\ tpc = [t \in Threads |-> "out"]
    /\ calls = [t \in Threads |-> 0]
    /\ asked = {}

-----------------------------------------------------------------------------
(* What the methods do on the loop thread, where dispatch() runs inline      *)

Connected(s) == s.state = "connected"

\* Mutant: no test of the old state.
HandleCloseAgain(s) ==
    [s EXCEPT !.state = "disconnected", !.reading = FALSE,
              !.downs = @ + 1, !.closes = @ + 1]

\* Only the first call finds the connection established or closing, and makes
\* the connection and the close callback.
HandleClose(s) ==
    IF s.state \in {"connected", "disconnecting"}
    THEN [s EXCEPT !.state = "disconnected", !.reading = FALSE,
                   !.downs = @ + 1, !.closes = @ + 1]
    ELSE s

CloseInLoop(s) == HandleClose([s EXCEPT !.sock = "closed"])

Close(s) == IF Connected(s) THEN CloseInLoop([s EXCEPT !.state = "disconnecting"]) ELSE s

ShutdownInLoop(s) ==
    CASE s.ssl -> [s EXCEPT !.notify = TRUE]
      [] ~s.ssl -> [s EXCEPT !.sock = IF @ = "open" THEN "half" ELSE @]

Shutdown(s) ==
    IF Connected(s) THEN ShutdownInLoop([s EXCEPT !.state = "disconnecting"]) ELSE s

StartRead(s) ==
    IF ~s.reading /\ Connected(s)
    THEN [s EXCEPT !.reading = TRUE, !.readers = @ + 1]
    ELSE s

ConnectDestroyed(s) ==
    IF Connected(s)
    THEN [s EXCEPT !.state = "disconnected", !.reading = FALSE, !.downs = @ + 1]
    ELSE s

\* A user callback returns at once, or makes one of the calls.  Those made at
\* the end of the connection find it disconnected and change nothing.
Callback(s, call) ==
    CASE call = "close" -> Close(s)
      [] call = "shutdown" -> Shutdown(s)
      [] call = "stopRead" -> [s EXCEPT !.reading = FALSE]
      [] call = "startRead" -> StartRead(s)
      [] call = "destroy" -> ConnectDestroyed(s)
      [] call = "none" -> s

\* One readLoop() returns, or goes round if its condition still holds.
ReadLoopEnds(s) == [s EXCEPT !.readers = @ - 1]

ReadLoopTurns(s) == IF s.reading /\ Connected(s) THEN s ELSE ReadLoopEnds(s)

\* The calls made, of close() those that found the connection established.
Asked(s, call) == asked' = asked \cup (IF call = "close" /\ ~Connected(s) THEN {} ELSE {call})

-----------------------------------------------------------------------------
(* The loop thread                                                           *)

NextTask(name) == tasks # <<>> /\ Head(tasks) = name /\ tasks' = Tail(tasks)

\* Tell the user, and start reading.
Announce(s, call) == StartRead(Callback([s EXCEPT !.ups = @ + 1], call))

Established ==
    /\ NextTask("established")
    /\ LET s == [con EXCEPT !.state = "connected"]
       IN  \/ s.ssl /\ con' = s /\ handshake' = "pending" /\ UNCHANGED asked
          \/ /\ ~s.ssl
             /\ \E call \in LoopCalls \cup {"none"} : con' = Announce(s, call) /\ Asked(s, call)
             /\ UNCHANGED handshake
    /\ UNCHANGED <<writer, peer, tpc, calls>>

\* The result of an operation may be on its way when the socket is closed, so
\* a success does not depend on the socket, here and in the read loop.
HandshakeDone ==
    /\ handshake = "pending"
    /\ handshake' = "done"
    /\ \E call \in LoopCalls \cup {"none"} : con' = Announce(con, call) /\ Asked(con, call)
    /\ UNCHANGED <<writer, tasks, peer, tpc, calls>>

HandshakeFails ==
    /\ handshake = "pending"
    /\ peer = "gone" \/ con.sock # "open"
    /\ handshake' = "done"
    /\ con' = HandleClose(con)
    /\ UNCHANGED <<writer, tasks, peer, tpc, calls, asked>>

\* The closures that other threads post.
Posted(name, Do(_)) ==
    /\ NextTask(name)
    /\ con' = Do(con)
    /\ UNCHANGED <<writer, handshake, peer, tpc, calls, asked>>

StartReadTask == Posted("startRead", StartRead)

ShutdownTask == Posted("shutdownInLoop", ShutdownInLoop)

DestroyTask == Posted("destroy", ConnectDestroyed)

CloseTask == Posted("closeInLoop", CloseInLoop)

NotifySent ==
    /\ con.notify
    /\ con' = [con EXCEPT !.notify = FALSE, !.sock = IF @ = "open" THEN "half" ELSE @]
    /\ UNCHANGED <<writer, handshake, tasks, peer, tpc, calls, asked>>

\* readLoop(): data, the end of the stream, or the socket closed under it.
ReadData ==
    /\ con.readers > 0
    /\ \E call \in LoopCalls \cup {"none"} :
          con' = ReadLoopTurns(Callback(con, call)) /\ Asked(con, call)
    /\ UNCHANGED <<writer, handshake, tasks, peer, tpc, calls>>

\* Mutant: the end of the stream only stops the reading.
ReadEofStopsReading ==
    /\ con.readers > 0 /\ peer = "gone"
    /\ con' = ReadLoopEnds([con EXCEPT !.reading = FALSE])
    /\ UNCHANGED <<writer, handshake, tasks, peer, tpc, calls, asked>>

ReadEof ==
    /\ con.readers > 0 /\ peer = "gone"
    /\ con' = ReadLoopEnds(HandleClose(con))
    /\ UNCHANGED <<writer, handshake, tasks, peer, tpc, calls, asked>>

ReadAborted ==
    /\ con.readers > 0 /\ con.sock = "closed"
    /\ con' = ReadLoopEnds(con)
    /\ UNCHANGED <<writer, handshake, tasks, peer, tpc, calls, asked>>

\* A send() on an established connection starts writeLoop(), which ends, or
\* fails once the peer is gone or the socket no longer takes data.
WriteStart ==
    /\ ~writer
    /\ Connected(con) /\ con.ups > 0
    /\ writer' = TRUE
    /\ UNCHANGED <<con, handshake, tasks, peer, tpc, calls, asked>>

WriteDone ==
    /\ writer
    /\ writer' = FALSE
    /\ UNCHANGED <<con, handshake, tasks, peer, tpc, calls, asked>>

WriteFails ==
    /\ writer
    /\ con.sock # "open" \/ peer = "gone"
    /\ writer' = FALSE
    /\ con' = HandleClose(con)
    /\ UNCHANGED <<handshake, tasks, peer, tpc, calls, asked>>

PeerCloses ==
    /\ peer = "here"
    /\ peer' = "gone"
    /\ UNCHANGED <<con, writer, handshake, tasks, tpc, calls, asked>>

-----------------------------------------------------------------------------
(* Other threads, where dispatch() posts to the loop                         *)

Call(t, call) ==
    /\ call \in Calls
    /\ tpc[t] = "out"
    /\ calls[t] < MaxCalls
    /\ calls' = [calls EXCEPT ![t] = @ + 1]

\* One compare-exchange.
CallClose(t) ==
    /\ Call(t, "close")
    /\ \/ Connected(con) /\ con' = [con EXCEPT !.state = "disconnecting"]
             /\ tasks' = Append(tasks, "closeInLoop")
       \/ ~Connected(con) /\ UNCHANGED <<con, tasks>>
    /\ Asked(con, "close")
    /\ UNCHANGED <<writer, handshake, peer, tpc>>

\* shutdown() loads state_ and stores it, with room for others in between.
CallShutdown(t) ==
    /\ Call(t, "shutdown")
    /\ Connected(con)
    /\ tpc' = [tpc EXCEPT ![t] = "store"]
    /\ Asked(con, "shutdown from a thread")
    /\ UNCHANGED <<con, writer, handshake, tasks, peer>>

ShutdownStore(t) ==
    /\ tpc[t] = "store"
    /\ con' = [con EXCEPT !.state = "disconnecting"]
    /\ tasks' = Append(tasks, "shutdownInLoop")
    /\ tpc' = [tpc EXCEPT ![t] = "out"]
    /\ UNCHANGED <<writer, handshake, peer, calls, asked>>

CallStopRead(t) ==
    /\ Call(t, "stopRead")
    /\ con' = [con EXCEPT !.reading = FALSE]
    /\ Asked(con, "stopRead")
    /\ UNCHANGED <<writer, handshake, tasks, peer, tpc>>

\* startRead() and connectDestroyed() only post.
CallPosted(t) ==
    /\ \E name \in {"startRead", "destroy"} : Call(t, name) /\ tasks' = Append(tasks, name)
    /\ UNCHANGED <<con, writer, handshake, peer, tpc, asked>>

-----------------------------------------------------------------------------

LoopStep ==
    \/ Established \/ HandshakeFails
    \/ StartReadTask \/ ShutdownTask \/ CloseTask \/ DestroyTask
    \/ ReadEof \/ ReadAborted \/ WriteFails

ThreadStep(t) ==
    CallClose(t) \/ CallShutdown(t) \/ CallStopRead(t) \/ CallPosted(t)

Next ==
    \/ LoopStep
    \/ HandshakeDone \/ NotifySent \/ ReadData \/ WriteStart \/ WriteDone \/ PeerCloses
    \/ \E t \in Threads : ThreadStep(t) \/ ShutdownStore(t)

Spec == Init /\ [][Next]_vars

\* The loop runs what is posted and completes what has failed, and a thread
\* finishes its shutdown().  What waits for the peer (the handshake, the
\* close_notify, data, room to write) need never happen, nor need the peer close.
Fairness ==
    /\ WF_vars(LoopStep)
    /\ \A t \in Threads : WF_vars(ShutdownStore(t))

FairSpec == Spec /\ Fairness

-----------------------------------------------------------------------------
(* Properties                                                                *)

TypeOK ==
    /\ con.state \in {"connecting", "connected", "disconnecting", "disconnected"}
    /\ con.sock \in {"open", "half", "closed"}
    /\ con.reading \in BOOLEAN /\ con.notify \in BOOLEAN
    /\ con.readers \in Nat /\ con.ups \in 0..1
    /\ con.downs \in Nat /\ con.closes \in Nat
    /\ writer \in BOOLEAN
    /\ handshake \in (IF con.ssl THEN {"none", "pending", "done"} ELSE {"none"})
    /\ tasks \in Seq({"established", "startRead", "shutdownInLoop", "closeInLoop", "destroy"})
    /\ peer \in {"here", "gone"}
    /\ tpc \in [Threads -> {"out", "store"}]

\* "Ensures that the callbacks are made only once" (handleClose()).
CallbacksOnce == con.closes <= 1 /\ con.downs <= 1

Raced == "shutdown from a thread" \in asked

\* The read loop, the write loop, a failed handshake and close() may all end
\* the connection: handleClose() tells the user once, whoever comes first, as
\* long as no other thread calls shutdown().
CloseOnce == Raced \/ CallbacksOnce

\* A connection that is established and says it is reading has a readLoop()
\* waiting for data, whatever was called, so that its end is noticed.
ReaderAlive == (Connected(con) /\ con.reading) => con.readers > 0

\* No two readLoop() coroutines fill the one input buffer, as long as nobody
\* stops and restarts reading.
OneReader == "stopRead" \in asked \/ con.readers <= 1

\* A close() that found the connection established closes the socket and tells
\* the user, whatever the peer and the other threads do.
CloseDisconnects == "close" \in asked ~> (con.sock = "closed" /\ con.downs > 0)

\* When the peer closes a connection that nobody has shut down or stopped
\* reading, the user is told.
EofCleansUp ==
    (peer = "gone" /\ con.ups = 1)
        ~> (con.downs > 0 \/ Raced \/ asked \cap {"shutdown", "stopRead"} # {})

\* What a connection promises whatever is called from where: one close callback,
\* one read loop, and that one alive while the connection reads (handleClose,
\* startRead, readLoop).
ConnectionSound == TypeOK /\ CloseOnce /\ OneReader /\ ReaderAlive

\* Every end is noticed: a close() as well as the end of the stream (closeInLoop,
\* readLoop).
CleansUp == CloseDisconnects /\ EofCleansUp

=============================================================================
