----------------------------- MODULE HttpClientPool -----------------------------
(* The managed (HTTP/2 capable) side of HttpClientPool for one identity:      *)
(* an origin with its connections and its bounded queue of waiters, the       *)
(* scheduling of grants, one retry per request, the sweep and stop().  The    *)
(* clients appear as the pool sees them through poolCapacity() and the        *)
(* capacity callback; HttpClient is their own model.                          *)
EXTENDS Integers, Sequences, FiniteSets, SequencesExt, FiniteSetsExt

CONSTANTS Users,          \* calls of request(), those of a kind numbered in their order
          Safe,           \* those with an idempotent method
          MaxEntries,     \* connections that exist at once, all origins together
          MaxPerOrigin, MaxQueue, MaxPeer, MaxOrigins,
          Situations      \* which events of the environment one behaviour combines

VARIABLE p

NoEntry == [ph |-> "none", org |-> 0, active |-> 0, h2 |-> FALSE, seen |-> FALSE, accepting |-> FALSE,
            peer |-> 0, admitted |-> 0, at |-> FALSE, lateFor |-> {}]
NoOrigin == [conns |-> <<>>, waiters |-> <<>>, scheduled |-> FALSE]
NoUser == [pc |-> "idle", org |-> 0, conn |-> 0, wasUp |-> FALSE, cd |-> "none", late |-> FALSE,
           fired |-> FALSE, err |-> "none", attempt |-> 0, reused |-> FALSE, sent |-> 0, out |-> "none"]

Init == \E on \in Situations :
        p = [on |-> on, stopping |-> FALSE, posted |-> FALSE, org |-> 0, queued |-> 0,
             o |-> [i \in 1 .. MaxOrigins |-> NoOrigin],
             c |-> [e \in 1 .. MaxEntries |-> NoEntry], u |-> [r \in Users |-> NoUser]]

U(s, r, f) == [s EXCEPT !.u[r] = f @@ @]
E(s, e, f) == [s EXCEPT !.c[e] = f @@ @]

Connected(s, e) == s.c[e].ph = "up"
Usable(s, e) ==
    LET c == s.c[e]
    IN  /\ c.ph = "up"
        /\ IF c.h2 THEN c.accepting /\ c.seen /\ c.peer - c.admitted > c.active - c.admitted ELSE c.active = 0
Starting(s, e) == LET c == s.c[e] IN c.ph # "up" \/ (c.h2 /\ ~c.seen)
Dead(s, e) == s.c[e].active = 0 /\ s.c[e].ph \notin {"up", "connecting"}

Schedule(s, i) == IF s.stopping THEN s ELSE [s EXCEPT !.o[i].scheduled = TRUE]

\* The capacity callback: the time of connecting is kept as the set of waiters it was too late for.
Notify(s, e) ==
    LET up == Connected(s, e)
        i  == s.c[e].org
        t  == E(s, e, [at |-> up, lateFor |-> IF ~up THEN {} ELSE IF s.c[e].at THEN s.c[e].lateFor
                                              ELSE {r \in Users : s.u[r].cd = "past"}])
    IN  Schedule(t, i)

--------------------------------------------------------------------------------
(* selectManaged: the pool after it, and the entry it chose or 0. *)

Erase(s, i, es) ==
    [s EXCEPT !.o[i].conns = SelectSeq(@, LAMBDA e : e \notin es),
              !.c = [e \in DOMAIN @ |-> IF e \in es THEN NoEntry ELSE @[e]]]

Select(s, i) ==
    LET cs   == s.o[i].conns
        good == {j \in DOMAIN cs : Usable(s, cs[j])}
        upto == IF good = {} THEN Len(cs) ELSE Min(good)
        t    == Erase(s, i, {cs[j] : j \in {j \in 1 .. upto : Dead(s, cs[j])}})
        free == {e \in DOMAIN t.c : t.c[e].ph = "none"}
        new  == Min(free)
    IN  IF good # {} THEN <<t, cs[Min(good)]>>
        ELSE IF (\E e \in ToSet(t.o[i].conns) : Starting(t, e)) \/ Len(t.o[i].conns) >= MaxPerOrigin \/ free = {}
        THEN <<t, 0>>
        ELSE <<[E(t, new, [ph |-> "new", org |-> i]) EXCEPT !.o[i].conns = Append(@, new)], new>>

\* refreshConnectDeadline
Refresh(s, i, r) ==
    LET cs == SelectSeq(s.o[i].conns, LAMBDA e : Connected(s, e) /\ s.c[e].at)
    IN  IF cs = <<>> THEN IF s.u[r].cd = "none" THEN U(s, r, [cd |-> "armed"]) ELSE s
        ELSE IF s.u[r].cd = "none" THEN s
        ELSE IF r \in s.c[Head(cs)].lateFor THEN U(s, r, [err |-> "timeout"])
        ELSE U(s, r, [cd |-> "none"])

Expired(s, r) == s.u[r].late \/ s.u[r].cd = "past"

RemoveWaiter(s, i, r) ==
    IF r \notin ToSet(s.o[i].waiters) THEN s
    ELSE [s EXCEPT !.o[i].waiters = SelectSeq(@, LAMBDA w : w # r), !.queued = @ - 1]

Grant(s, e) == [s EXCEPT !.c[e].active = @ + 1]

RECURSIVE DrainLoop(_, _)
DrainLoop(s, i) ==
    LET r   == Head(s.o[i].waiters)
        sel == Select(s, i)
        e   == sel[2]
    IN  IF s.o[i].waiters = <<>> THEN s
        ELSE IF s.stopping THEN DrainLoop(RemoveWaiter(U(s, r, [err |-> "cancelled"]), i, r), i)
        ELSE IF s.u[r].err # "none" THEN DrainLoop(RemoveWaiter(s, i, r), i)
        ELSE IF Expired(s, r) THEN DrainLoop(RemoveWaiter(U(s, r, [err |-> "timeout"]), i, r), i)
        ELSE IF e = 0 THEN sel[1]
        ELSE DrainLoop(RemoveWaiter(U(Grant(sel[1], e), r, [conn |-> e, wasUp |-> Connected(s, e)]), i, r), i)

Drain(s, i) == DrainLoop(FoldLeft(LAMBDA t, r : Refresh(t, i, r), s, s.o[i].waiters), i)

Close(s, e) == IF s.c[e].ph \in {"up", "connecting"} THEN E(s, e, [ph |-> "closing"]) ELSE s

ReleaseManagedQuietly(s, e) == [s EXCEPT !.c[e].active = @ - 1]
ReleaseManaged(s, e) ==
    LET t == [s EXCEPT !.c[e].active = @ - 1]
        c == t.c[e]
    IN  Schedule(IF c.active = 0 /\ c.ph = "up" /\ c.h2 /\ c.seen /\ ~c.accepting THEN Close(t, e) ELSE t, c.org)

\* An origin that the map has dropped lives as long as a request holds it.
Collect(s) ==
    LET gone == {i \in 1 .. MaxOrigins : i # s.org /\ \A r \in Users : s.u[r].org # i}
    IN  [s EXCEPT !.o = [i \in 1 .. MaxOrigins |-> IF i \in gone THEN NoOrigin ELSE @[i]],
                  !.c = [e \in DOMAIN @ |-> IF @[e].org \in gone THEN NoEntry ELSE @[e]]]

Done(s, r, out) ==
    Collect([s EXCEPT !.u[r] = [NoUser EXCEPT !.pc = "done", !.out = out],
                      !.c = [e \in DOMAIN @ |-> [@[e] EXCEPT !.lateFor = @ \ {r}]]])

--------------------------------------------------------------------------------
(* acquireManaged. *)

Queue(s, i, r, f) ==
    [U(s, r, f) EXCEPT !.o[i].waiters = Append(@, r), !.queued = @ + 1]

Lease(s, r, e, f) == U(s, r, [pc |-> "leased", conn |-> e, reused |-> Connected(s, e)] @@ f)

Acquire(s0, i, r) ==
    LET s   == Drain(s0, i)
        sel == Select(s, i)
        t   == IF s.o[i].waiters = <<>> THEN sel[1] ELSE s
        up  == \E e \in ToSet(t.o[i].conns) : Connected(t, e)
    IN  IF s.o[i].waiters = <<>> /\ sel[2] # 0 THEN Lease(Grant(t, sel[2]), r, sel[2], [org |-> i])
        ELSE IF Len(t.o[i].waiters) >= MaxQueue THEN Done(t, r, "ended")
        ELSE Queue(t, i, r, [pc |-> "queued", org |-> i, cd |-> IF up THEN "none" ELSE "armed"])

\* request(): the origin of the identity, found or made.
Request(r) ==
    LET free == {i \in 1 .. MaxOrigins : p.o[i] = NoOrigin /\ \A x \in Users : p.u[x].org # i}
        i    == IF p.org # 0 THEN p.org ELSE Min(free)
    IN  /\ p.u[r].pc = "idle" /\ (\A x \in Users : x < r /\ (x \in Safe <=> r \in Safe) => p.u[x].pc # "idle")
        /\ \/ p.stopping /\ p' = Done(p, r, "cancelled")
           \/ ~p.stopping /\ (p.org = 0 => free # {}) /\ p' = Acquire([p EXCEPT !.org = i], i, r)

RetryRuns(r) ==
    /\ p.u[r].pc = "retry"
    /\ p' = IF p.stopping THEN Done(p, r, "cancelled")
            ELSE IF p.u[r].late THEN Done(p, r, "timeout")
            ELSE Acquire(p, p.u[r].org, r)

\* The end of a wait: Registration's destructor.
Leave(s, r, out) ==
    LET i == s.u[r].org
        e == s.u[r].conn
        t == RemoveWaiter(s, i, r)
    IN  Done(Schedule(IF e # 0 THEN ReleaseManaged(t, e) ELSE t, i), r, out)

\* requeueManagedGrant: the connection of the grant was lost before the waiter ran.
RequeueKeeps(s, r) ==
    LET i == s.u[r].org
        t == U(s, r, [conn |-> 0, wasUp |-> FALSE, fired |-> FALSE])
    IN  IF Len(t.o[i].waiters) >= MaxQueue THEN Leave(t, r, "ended")
        ELSE Queue(t, i, r, [cd |-> "armed"])
Requeue(s, r) ==
    LET i == s.u[r].org
        t == U(ReleaseManaged(s, s.u[r].conn), r, [conn |-> 0, wasUp |-> FALSE, fired |-> FALSE])
    IN  IF Len(t.o[i].waiters) >= MaxQueue THEN Leave(t, r, "ended")
        ELSE Queue(t, i, r, [cd |-> IF t.u[r].cd = "none" THEN "armed" ELSE t.u[r].cd])

\* The waiter runs again: its timer was cancelled, with a grant or an error, or it fired.
Resume(r) ==
    LET i == p.u[r].org
        s == Refresh(p, i, r)
        w == s.u[r]
    IN  /\ p.u[r].pc = "queued" /\ (p.u[r].fired \/ p.u[r].conn # 0 \/ p.u[r].err # "none")
        /\ p' = IF s.stopping THEN Leave(s, r, "cancelled")
                ELSE IF w.err # "none" THEN Leave(s, r, w.err)
                ELSE IF Expired(s, r) THEN Leave(s, r, "timeout")
                ELSE IF w.conn # 0 THEN IF w.wasUp /\ ~Connected(s, w.conn) THEN Requeue(s, r)
                                        ELSE Schedule(Lease(s, r, w.conn, [cd |-> "none", fired |-> FALSE]), i)
                ELSE Leave(s, r, "cancelled")

CallerCancels(r) == "cancel" \in p.on /\ p.u[r].pc = "queued" /\ p' = Leave(p, r, "ended")

\* Time: the waiter's own connect budget, the queue and request deadlines, its timer.
ConnectDeadline(r) == "time" \in p.on /\ p.u[r].pc = "queued" /\ p.u[r].cd = "armed" /\ p' = U(p, r, [cd |-> "past"])
Deadline(r) == "time" \in p.on /\ p.u[r].pc \in {"queued", "retry"} /\ ~p.u[r].late /\ p' = U(p, r, [late |-> TRUE])
TimerFires(r) ==
    /\ p.u[r].pc = "queued" /\ ~p.u[r].fired /\ r \in ToSet(p.o[p.u[r].org].waiters) /\ Expired(p, r)
    /\ p' = U(p, r, [fired |-> TRUE])

DrainRuns(i) == p.o[i].scheduled /\ p' = Drain([p EXCEPT !.o[i].scheduled = FALSE], i)

--------------------------------------------------------------------------------
(* The exchange: requestUntil of the client, and what follows its result.     *)

CanRetryAny(r, e, what) == what # "ok"
CanRetry(r, e, what) ==
    r \in Safe /\ (what \in {"not sent", "refused"} \/ (what = "broken" /\ ~p.c[e].h2 /\ p.u[r].reused))

Result(s, r, what) ==
    LET e == s.u[r].conn
        t == ReleaseManaged(IF s.u[r].pc = "admitted" /\ s.c[e].h2 /\ s.c[e].admitted > 0
                            THEN Notify([s EXCEPT !.c[e].admitted = @ - 1], e) ELSE s, e)
    IN  IF s.stopping THEN Done(t, r, "cancelled")
        ELSE IF s.u[r].attempt = 0 /\ CanRetry(r, e, what)
        THEN U(t, r, [pc |-> "retry", conn |-> 0, attempt |-> 1, reused |-> FALSE])
        ELSE Done(t, r, "ended")

\* A request finds its client connected, connecting, or makes it connect.
Send(r) ==
    LET e == p.u[r].conn
        s == U(p, r, [pc |-> "sending"])
    IN  /\ p.u[r].pc = "leased"
        /\ p' = IF p.c[e].ph \in {"new", "down"} THEN Notify(E(s, e, [ph |-> "connecting"]), e) ELSE s

Admit(r) ==
    LET e == p.u[r].conn
        c == p.c[e]
    IN  /\ p.u[r].pc = "sending" /\ c.ph = "up" /\ (c.h2 => c.seen /\ c.accepting /\ c.admitted < c.peer)
        /\ p' = U(IF c.h2 THEN Notify([p EXCEPT !.c[e].admitted = @ + 1], e) ELSE p, r,
                  [pc |-> "admitted", sent |-> p.u[r].sent + 1])

Answered(r) == p.u[r].pc = "admitted" /\ Connected(p, p.u[r].conn) /\ p' = Result(p, r, "ok")

\* RST_STREAM(REFUSED_STREAM), or a GOAWAY below the stream: not processed by the peer.
Refused(r) ==
    /\ "goaway" \in p.on /\ p.u[r].pc = "admitted" /\ Connected(p, p.u[r].conn) /\ p.c[p.u[r].conn].h2
    /\ p' = Result(U(p, r, [sent |-> p.u[r].sent - 1]), r, "refused")

\* The connection is gone, or refuses before anything was sent, or the deadline passed.
Fails(r) ==
    LET c == p.c[p.u[r].conn]
    IN  \/ /\ p.u[r].pc = "sending"
           /\ \/ c.ph = "down" /\ p' = Result(p, r, "not sent")
              \/ (c.ph = "closing" \/ (c.h2 /\ c.seen /\ ~c.accepting)) /\ p' = Result(p, r, "error")
        \/ p.u[r].pc = "admitted" /\ c.ph # "up" /\ p' = Result(p, r, "broken")
        \/ "time" \in p.on /\ p.u[r].pc \in {"sending", "admitted"} /\ p' = Result(p, r, "timeout")

--------------------------------------------------------------------------------
(* The client of entry e changes; each change calls the capacity callback.    *)

ClientConnects(e, h2) ==
    p.c[e].ph = "connecting" /\ p' = Notify(E(p, e, [ph |-> "up", h2 |-> h2, accepting |-> TRUE]), e)

Lost == [ph |-> "down", h2 |-> FALSE, seen |-> FALSE, accepting |-> FALSE, peer |-> 0, admitted |-> 0]
ClientLost(e) == p.c[e].ph \in {"connecting", "up", "closing"} /\ p' = Notify(E(p, e, Lost), e)

Settings(e, n) ==
    /\ p.c[e].ph = "up" /\ p.c[e].h2 /\ (p.c[e].seen => "goaway" \in p.on /\ n # p.c[e].peer)
    /\ p' = Notify(E(p, e, [seen |-> TRUE, peer |-> n]), e)
Goaway(e) == "goaway" \in p.on /\ p.c[e].seen /\ p.c[e].accepting /\ p.c[e].ph = "up" /\ p' = Notify(E(p, e, [accepting |-> FALSE]), e)

--------------------------------------------------------------------------------
(* The sweep, and shutdown(), whose flag any thread sets before the loop acts.*)

Sweep(old) ==
    LET i    == p.org
        s    == Erase(p, i, {e \in ToSet(p.o[i].conns) :
                                p.c[e].active = 0 /\ p.o[i].waiters = <<>> /\ (old \/ ~Connected(p, e))})
    IN  /\ "sweep" \in p.on /\ i # 0 /\ ~p.stopping
        /\ p' = Collect([s EXCEPT !.org = IF s.o[i].conns = <<>> /\ s.o[i].waiters = <<>> THEN 0 ELSE i])

Shutdown == "stop" \in p.on /\ ~p.stopping /\ p' = [p EXCEPT !.stopping = TRUE, !.posted = TRUE]

StopRuns ==
    /\ p.posted
    /\ p' = LET s == [p EXCEPT !.posted = FALSE]
            IN  IF p.org = 0 THEN s
                ELSE Drain(FoldLeft(LAMBDA t, e : Close(t, e), s, s.o[p.org].conns), p.org)

Steps(r) ==
    \/ Resume(r) \/ RetryRuns(r) \/ Send(r) \/ Admit(r) \/ Answered(r) \/ Refused(r) \/ Fails(r)
    \/ ConnectDeadline(r) \/ Deadline(r) \/ TimerFires(r)
Client(e) == (\E h2 \in BOOLEAN : ClientConnects(e, h2)) \/ ClientLost(e)
             \/ (\E n \in 1 .. MaxPeer : Settings(e, n)) \/ Goaway(e)

Next ==
    \/ \E r \in Users : Request(r) \/ Steps(r) \/ CallerCancels(r)
    \/ \E e \in 1 .. MaxEntries : Client(e)
    \/ \E i \in 1 .. MaxOrigins : DrainRuns(i)
    \/ (\E old \in BOOLEAN : Sweep(old)) \/ Shutdown \/ StopRuns

Spec == Init /\ [][Next]_p

--------------------------------------------------------------------------------
(* Properties; those with primed variables are of steps. *)

HttpClientPoolTypeOK ==
    /\ p.org \in 0 .. MaxOrigins /\ p.queued \in 0 .. Cardinality(Users)
    /\ \A i \in 1 .. MaxOrigins : ToSet(p.o[i].waiters) \subseteq Users /\ ToSet(p.o[i].conns) \subseteq 1 .. MaxEntries
    /\ \A e \in 1 .. MaxEntries : p.c[e].ph \in {"none", "new", "connecting", "up", "closing", "down"}
    /\ \A r \in Users : p.u[r].pc \in {"idle", "queued", "retry", "leased", "sending", "admitted", "done"}

(* An entry's active count is the number of grants and leases on it, through  *)
(* grants that race their deadline, lost grants that are queued again,        *)
(* cancelled callers and stop: it goes back exactly once.                     *)
ActiveExact ==
    \A e \in 1 .. MaxEntries : p.c[e].active = Cardinality({r \in Users : p.u[r].conn = e})

(* queuedRequests counts the waiters that are in a queue, and no queue grows  *)
(* over its limit, also when a lost grant goes back to it.                    *)
QueueExact ==
    /\ p.queued = Cardinality(UNION {ToSet(p.o[i].waiters) : i \in 1 .. MaxOrigins})
    /\ \A i \in 1 .. MaxOrigins : Len(p.o[i].waiters) <= MaxQueue

(* No wake-up is lost: while a request waits and no drain is pending, no      *)
(* connection of its origin could take it, no dead entry holds the place of   *)
(* a new one, and either one is coming up or the origin has all it may have.  *)
NobodyOverlooked ==
    \A i \in 1 .. MaxOrigins :
        LET cs == ToSet(p.o[i].conns)
        IN  p.o[i].waiters # <<>> /\ ~p.o[i].scheduled /\ ~p.stopping =>
              /\ \A e \in cs : ~Usable(p, e)
              /\ (\E e \in cs : Starting(p, e)) \/ Len(p.o[i].conns) >= MaxPerOrigin
              /\ \A e \in cs : ~(Dead(p, e) /\ p.c[e].ph # "closing")

(* A request that is not idempotent reaches a server at most once, whatever   *)
(* its connection reports, and any other at most twice.                       *)
SentAtMostOnce == \A r \in Users : p.u[r].sent <= IF r \in Safe THEN 2 ELSE 1

(* A connection that came up in time does not time its waiters out, however   *)
(* late the callback's drain runs: a waiter leaves with a time-out only when  *)
(* its queue or request deadline has passed, or its connect budget ran out    *)
(* with no connection up or with one that came up after it.                   *)
TimeoutIsDue ==
    \A r \in Users :
       p.u[r].pc = "queued" /\ p.u[r].err = "none" /\ "timeout" \in {p'.u[r].err, p'.u[r].out} =>
          \/ p.u[r].late
          \/ /\ p.u[r].cd = "past"
             /\ LET ups == SelectSeq(p.o[p.u[r].org].conns, LAMBDA e : Connected(p, e))
                IN  ups = <<>> \/ r \in p.c[Head(ups)].lateFor
=============================================================================
