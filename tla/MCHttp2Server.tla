------------------------------ MODULE MCHttp2Server ------------------------------
(* Instances of Http2Server for TLC, each with a part of what a peer may do:  *)
(* one stream and everything about its message, one stream and everything     *)
(* about the connection, two streams that share one application slot.         *)
EXTENDS Http2Server

VARIABLE part

Used == IF part = "streams" THEN Streams ELSE {1}

MCInit ==
    /\ Init /\ part \in {"message", "connection", "streams"}
    /\ \A s \in Streams : s # 1 \/ part = "streams" => h.st[s].window

Message ==
    \/ \E s \in Used :
          \/ \E want \in {-1} \cup (1 .. MaxBytes + 1) : BeginRequest(s, want)
          \/ BeginTrailers(s)
          \/ \E n \in {0, 1}, end \in BOOLEAN : Data(s, n, end)
          \/ \E code \in {"no", "error"} : PeerReset(s, code)
    \/ Written(2)

Connection ==
    \/ Violation \/ ReadFails \/ WriteFails
    \/ \E bad \in BOOLEAN : PeerGoaway(bad)
    \/ \E s \in Used :
          BeginRequest(s, -1) \/ Data(s, 1, FALSE) \/ PeerReset(s, "error") \/ PeerWindow(s)
    \/ \E n \in 1 .. 2 : Written(n)

Two ==
    \/ \E s \in Used :
          \/ BeginRequest(s, -1)
          \/ \E n \in {0, 1} : Data(s, n, n = 0)
          \/ PeerReset(s, "error")
    \/ Written(2)

\* Writes do not hang where two streams are used.
MCTimers == IF part = "streams" THEN NegotiationTimeout \/ HeaderTimeout ELSE Timers

Always ==
    \/ PeerSettings \/ (\E end \in BOOLEAN : EndBlock(end))
    \/ MCTimers \/ WriterLooks \/ (h.stopped /\ WriteFails) \/ ReaderExits
    \/ Drain \/ RunReturns \/ SessionReturns \/ Done
    \/ \E s \in Used : App(s) \/ Job(s)

MCNext ==
    /\ \/ part = "message" /\ Message
       \/ part = "connection" /\ Connection
       \/ part = "streams" /\ Two
       \/ Always
    /\ UNCHANGED part

MCFairness ==
    /\ WF_h(MCTimers) /\ WF_h(part = "streams" /\ Written(2))
    /\ HandlersRun

MCSpec == MCInit /\ [][MCNext]_<<h, part>> /\ MCFairness
=============================================================================
