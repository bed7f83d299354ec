------------------------------- MODULE HttpClient -------------------------------
(* One HttpClient: requests that share a connection, the connection attempt   *)
(* they share, the gate that gives the transport to one user at a time, and   *)
(* close(), which any thread may call and which only raises a generation and  *)
(* posts the rest to the client's loop.  Coroutines run from one suspension   *)
(* to the next on that loop.  The server answers requests in their order.     *)
EXTENDS Integers, Sequences, FiniteSets, SequencesExt

CONSTANTS Requests, MaxGen    \* MaxGen bounds the calls of close()

VARIABLE k

NoRequest == [pc |-> "idle", gen |-> 0, fgen |-> 0, fail |-> FALSE, out |-> "none"]
NoFlight == [gen |-> 0, done |-> TRUE, pc |-> "no"]

Init == k = [gen |-> 1, stop |-> FALSE, live |-> 0, tgen |-> 0, state |-> "idle", h2 |-> FALSE,
             sess |-> FALSE, run |-> 0, busy |-> FALSE, waiters |-> <<>>, granted |-> {}, given |-> {},
             flight |-> NoFlight, posts |-> <<>>, wire |-> <<>>, req |-> [r \in Requests |-> NoRequest]]

Upd(c, r, f) == [c EXCEPT !.req[r] = f @@ @]
Current(c, g) == ~c.stop /\ c.gen = g
Active(c, g) == Current(c, g) /\ c.state = "active" /\ c.tgen = g
GenOf(c, who) == IF who = "connect" THEN c.flight.gen ELSE c.req[who].gen

\* The socket is closed: nothing on the wire is answered, isAlive() is false.
Disconnect(c, g) ==
    IF c.tgen # g THEN c
    ELSE [c EXCEPT !.state = "closed", !.live = 0, !.wire = <<>>]

\* The first waiter that still wants the gate gets it; the others are sent home.
ReleaseGate(c) ==
    LET wants(who) == Current(c, GenOf(c, who)) /\ who \notin c.given
        skip == {i \in DOMAIN c.waiters : \A j \in 1 .. i : ~wants(c.waiters[j])}
        n    == Cardinality(skip)
        gone == {c.waiters[i] : i \in skip}
        d    == [c EXCEPT !.given = @ \cup gone]
    IN  IF n = Len(c.waiters) THEN [d EXCEPT !.busy = FALSE, !.waiters = <<>>]
        ELSE [d EXCEPT !.granted = @ \cup {c.waiters[n + 1]},
                       !.waiters = SubSeq(@, n + 2, Len(@))]

Return(c, r, out) == Upd(c, r, [pc |-> "done", out |-> out])

\* A request waits for the flight there is, or starts one.
Ensure(c, r) ==
    LET g == c.req[r].gen
    IN  IF c.flight.done
        THEN [Upd(c, r, [pc |-> "ensure"]) EXCEPT !.flight = [gen |-> g, done |-> FALSE, pc |-> "spawned"]]
        ELSE Upd(c, r, [pc |-> "ensure"])

\* acquireGate of a request, up to its suspension.
WantGate(c, r) ==
    IF ~c.busy THEN [Upd(c, r, [pc |-> "gate"]) EXCEPT !.busy = TRUE, !.granted = @ \cup {r}]
    ELSE [Upd(c, r, [pc |-> "gate"]) EXCEPT !.waiters = Append(@, r)]

\* What follows a connection: an HTTP/2 session takes the request itself.
Connected(c, r) ==
    IF c.h2 THEN IF Current(c, c.req[r].gen) /\ c.sess THEN Upd(c, r, [pc |-> "h2"]) ELSE Return(c, r, "cancelled")
    ELSE WantGate(c, r)

EnsureConnected(c, r) ==
    LET g == c.req[r].gen
    IN  IF ~Current(c, g) THEN Return(c, r, "cancelled")
        ELSE IF Active(c, g) THEN Connected(c, r)
        ELSE Ensure(c, r)

--------------------------------------------------------------------------------
(* A request. *)

Request(r) == k.req[r].pc = "idle" /\ k' = Upd(k, r, [pc |-> "start", gen |-> k.gen])

RequestStarts(r) == k.req[r].pc = "start" /\ k' = EnsureConnected(k, r)

\* The flight this request waited for has completed; one of another generation is not its own.
FlightSeen(r) ==
    LET q == k.req[r]
    IN  /\ q.pc = "flown"
        /\ k' = IF ~Current(k, q.gen) THEN Return(k, r, "cancelled")
                ELSE IF q.fgen # q.gen THEN EnsureConnected(k, r)
                ELSE IF q.fail THEN Return(k, r, "error")
                ELSE Connected(k, r)

\* A granted waiter takes the gate, and looks again at the connection.
GateTaken(r) ==
    LET g == k.req[r].gen
        c == [k EXCEPT !.granted = @ \ {r}]
    IN  /\ k.req[r].pc = "gate" /\ r \in k.granted
        /\ k' = IF ~Current(k, g) THEN ReleaseGate(Return(c, r, "cancelled"))
                ELSE IF ~Active(k, g) THEN EnsureConnected(ReleaseGate(c), r)
                ELSE Upd(c, r, [pc |-> "write"])

\* A waiter that was sent home, by close() or by releaseGate().
GateRefused(r) ==
    /\ k.req[r].pc = "gate" /\ r \in k.given
    /\ k' = Return([k EXCEPT !.given = @ \ {r}, !.waiters = SelectSeq(@, LAMBDA w : w # r)], r, "cancelled")

\* The exchange is over in error: the guard closes the transport, the gate goes on.
ExchangeFailsOpen(c, r, out) == ReleaseGate(Return(c, r, out))
ExchangeFails(c, r, out) == ReleaseGate(Return(Disconnect(c, c.req[r].gen), r, out))

Written(r) ==
    /\ k.req[r].pc = "write"
    /\ k' = IF ~Current(k, k.req[r].gen) THEN ExchangeFails(k, r, "cancelled")
            ELSE IF k.state # "active" THEN ExchangeFails(k, r, "error")
            ELSE Upd([k EXCEPT !.wire = Append(@, r)], r, [pc |-> "read"])

\* The response at the head of the wire is read, in one or several reads.
Answered(r, keep) ==
    LET c == [k EXCEPT !.wire = Tail(@)]
    IN  /\ k.req[r].pc = "read" /\ k.state = "active" /\ k.wire # <<>>
        /\ k' = IF ~Current(k, k.req[r].gen) THEN ExchangeFails(k, r, "cancelled")
                ELSE ReleaseGate(Return(IF keep THEN c ELSE Disconnect(c, c.req[r].gen), r, Head(k.wire)))

\* The peer or the network breaks the exchange, or the socket was closed under it.
ExchangeBreaks(r) ==
    /\ k.req[r].pc \in {"write", "read"}
    /\ k' = ExchangeFails(k, r, IF Current(k, k.req[r].gen) THEN "error" ELSE "cancelled")

\* The deadline of the request passes, or its caller cancels it, wherever it waits.
GiveUp(r) ==
    LET pc == k.req[r].pc
        c  == [k EXCEPT !.granted = @ \ {r}, !.given = @ \ {r},
                        !.waiters = SelectSeq(@, LAMBDA w : w # r)]
    IN  /\ pc \in {"start", "ensure", "flown", "gate", "write", "read", "h2"}
        /\ k' = IF pc \in {"write", "read"} THEN ExchangeFails(k, r, "timeout")
                ELSE IF pc = "gate" /\ r \in k.granted THEN ReleaseGate(Return(c, r, "timeout"))
                ELSE Return(c, r, "timeout")

Http2Answers(r) == k.req[r].pc = "h2" /\ ~k.req[r].fail /\ k' = Return(k, r, r)
Http2Fails(r) == k.req[r].pc = "h2" /\ k' = Return(k, r, "error")

--------------------------------------------------------------------------------
(* The connection attempt: connectOwned and connectOn. *)

FlightEnds(c, fail) ==
    LET f == c.flight
    IN  [c EXCEPT !.flight = [gen |-> f.gen, done |-> TRUE, pc |-> "no"],
                  !.req = [r \in Requests |-> IF @[r].pc = "ensure"
                              THEN [@[r] EXCEPT !.pc = "flown", !.fgen = f.gen, !.fail = fail] ELSE @[r]]]

BeginConnect(c) ==
    [c EXCEPT !.flight.pc = "work", !.tgen = c.flight.gen, !.h2 = FALSE, !.sess = FALSE,
              !.wire = <<>>, !.state = "connecting"]

\* Spawned after the last flight completed, so queued behind those it woke.
FlightStarts ==
    /\ k.flight.pc = "spawned" /\ (\A r \in Requests : k.req[r].pc # "flown")
    /\ k' = IF ~Current(k, k.flight.gen) THEN FlightEnds(k, TRUE)
            ELSE IF ~k.busy THEN BeginConnect([k EXCEPT !.busy = TRUE])
            ELSE [k EXCEPT !.flight.pc = "gate", !.waiters = Append(@, "connect")]

FlightGate ==
    LET c == [k EXCEPT !.granted = @ \ {"connect"}, !.given = @ \ {"connect"},
                       !.waiters = SelectSeq(@, LAMBDA w : w # "connect")]
    IN  /\ k.flight.pc = "gate"
        /\ \/ /\ "connect" \in k.granted
              /\ k' = IF Current(k, k.flight.gen) THEN BeginConnect(c) ELSE FlightEnds(ReleaseGate(c), TRUE)
           \/ "connect" \in k.given /\ k' = FlightEnds(c, TRUE)

\* Resolving, connecting and the hand-shake succeed, with either protocol, or one fails.
FlightWorks(ok, h2) ==
    LET g == k.flight.gen
        c == [k EXCEPT !.state = "active", !.live = g, !.h2 = h2, !.sess = h2, !.run = IF h2 THEN g ELSE @]
    IN  /\ k.flight.pc = "work" /\ (h2 => ok)
        /\ k' = IF ok /\ Current(k, g) /\ k.state = "connecting"
                THEN FlightEnds(IF h2 THEN c ELSE ReleaseGate(c), FALSE)
                ELSE FlightEnds(ReleaseGate(Disconnect(k, g)), TRUE)

\* The session's task ends: what was left in it fails, and the gate it held is released.
Http2Ends ==
    /\ k.run # 0
    /\ LET c == IF k.tgen = k.run /\ k.sess THEN Disconnect([k EXCEPT !.sess = FALSE], k.run) ELSE k
       IN  k' = ReleaseGate([c EXCEPT !.run = 0,
                    !.req = [r \in Requests |-> [@[r] EXCEPT !.fail = @ \/ k.req[r].pc = "h2"]]])

--------------------------------------------------------------------------------
(* close() and the destructor, and what they post. *)

ScheduleStop(terminal) ==
    /\ k.gen < MaxGen /\ ~k.stop
    /\ k' = [k EXCEPT !.stop = terminal, !.gen = @ + 1, !.posts = Append(@, k.gen)]

StopOnLoop ==
    LET cutoff == Head(k.posts)
        c == IF k.tgen <= cutoff THEN Disconnect(k, k.tgen) ELSE k
    IN  /\ k.posts # <<>>
        /\ k' = [c EXCEPT !.posts = Tail(@),
                          !.given = @ \cup {w \in ToSet(k.waiters) : GenOf(k, w) <= cutoff}]

Steps(r) ==
    \/ RequestStarts(r) \/ FlightSeen(r) \/ GateTaken(r) \/ GateRefused(r) \/ Written(r) \/ ExchangeBreaks(r)
    \/ (\E keep \in BOOLEAN : Answered(r, keep)) \/ Http2Answers(r) \/ Http2Fails(r)
Flight == FlightStarts \/ FlightGate \/ (\E ok, h2 \in BOOLEAN : FlightWorks(ok, h2))

Next ==
    \/ \E r \in Requests : Request(r) \/ Steps(r) \/ GiveUp(r)
    \/ Flight \/ Http2Ends \/ StopOnLoop \/ (\E terminal \in BOOLEAN : ScheduleStop(terminal))

Spec == Init /\ [][Next]_k

--------------------------------------------------------------------------------
(* Properties; those with primed variables are of steps. *)

HttpClientTypeOK ==
    /\ k.gen \in 1 .. MaxGen /\ k.live \in 0 .. MaxGen /\ k.tgen \in 0 .. MaxGen /\ k.run \in 0 .. MaxGen
    /\ k.state \in {"idle", "connecting", "active", "closed"}
    /\ k.granted \cup k.given \cup ToSet(k.waiters) \cup ToSet(k.wire) \subseteq Requests \cup {"connect"}
    /\ \A r \in Requests :
          /\ k.req[r].pc \in {"idle", "start", "ensure", "flown", "gate", "write", "read", "h2", "done"}
          /\ k.req[r].out \in Requests \cup {"none", "cancelled", "error", "timeout"}

(* The transport has one user: the gate is marked busy exactly while one      *)
(* request exchanges, one attempt connects, one session runs or one waiter    *)
(* has been granted it, whatever was cancelled in the same turn (abandonGate).*)
OneTransportUser ==
    LET users == {r \in Requests : k.req[r].pc \in {"write", "read"}} \cup k.granted
                 \cup (IF k.flight.pc = "work" THEN {"connect"} ELSE {})
                 \cup (IF k.run # 0 THEN {"session"} ELSE {})
    IN  IF k.busy THEN Cardinality(users) = 1 ELSE users = {} /\ k.waiters = <<>>

(* A request gets the response to itself: what an abandoned exchange would    *)
(* still receive is never left on a connection that another request reuses    *)
(* (ExchangeGuard, and the reset of the receive buffer in connectOn).         *)
OwnResponse == \A r \in Requests : k.req[r].out \in Requests => k.req[r].out = r

(* isAlive() tells the pool the truth: while the live generation is current   *)
(* the transport of that generation is the active one.                        *)
AliveIsActive == k.live = k.gen => k.state = "active" /\ k.tgen = k.gen

(* close() cancels what was submitted before it: an HTTP/1 exchange that      *)
(* completes later is not reported as a success.                              *)
ClosedIsCancelled ==
    \A r \in Requests :
       k.req[r].pc = "read" /\ k'.req[r].out \in Requests => k.req[r].gen = k.gen /\ ~k.stop

(* Nobody is stranded: who waits for a connection waits for an attempt that   *)
(* runs, who waits for the gate is queued behind a holder or has been told,   *)
(* an attempt too, and who waits for an HTTP/2 session waits for one that     *)
(* still runs; and no session that was closed or replaced keeps the gate from *)
(* an attempt for longer than it takes to end.                                *)
NobodyStranded ==
    LET told == ToSet(k.waiters) \cup k.granted \cup k.given
    IN  /\ \A r \in Requests :
              /\ k.req[r].pc = "ensure" => ~k.flight.done
              /\ k.req[r].pc = "gate" => r \in told
              /\ k.req[r].pc = "h2" => k.run # 0 \/ k.req[r].fail
              /\ k.req[r].pc = "gate" /\ r \notin k.given /\ k.run # 0 => k.state = "closed" \/ k.posts # <<>>
        /\ ~k.flight.done => k.flight.pc # "no" /\ (k.flight.pc = "gate" => "connect" \in told)
        /\ k.flight.pc = "gate" /\ k.run # 0 => k.state = "closed" \/ k.posts # <<>>
================================================================================
