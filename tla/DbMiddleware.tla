---------------------------- MODULE DbMiddleware ----------------------------
(***************************************************************************)
(* Requests that get a connection of the pool for their handler, in a      *)
(* transaction of their own (DbMiddleware.h, with the query log wrapped    *)
(* around it, DbQueryLog.cpp), and what the pool does with what they give  *)
(* back (DbConnectionPool::acquire, release).  Every exchange with the     *)
(* server may fail; a COMMIT may fail with its work done.                  *)
(***************************************************************************)
EXTENDS Naturals, FiniteSets, TLC

CONSTANTS
    DbRequests,
    Slots,      \* as many connections as maxConnections
    MaxMade     \* bound on the connections created

VARIABLE d

None == 0

\* auto: opts.autoTransaction.  Connections have numbers; open on the server, tx: inTransaction(), work:
\* requests whose writes are pending in it.  idle, active: the pool's idle_
\* and activeCount_.  rolling: given back in a transaction.  r: the requests;
\* log: the attribute holds the logging wrapper.  Ghosts: the requests that
\* wrote, whose writes are saved, whose handler began or ended a transaction itself,
\* whose COMMIT broke off, and whose BEGIN did.
Init ==
    \E auto \in BOOLEAN :
    d = [auto |-> auto, made |-> 0, open |-> {}, tx |-> {}, work |-> [n \in 1..MaxMade |-> None], idle |-> {}, active |-> 0,
         rolling |-> {}, wrote |-> {}, saved |-> {}, own |-> {}, unsure |-> {}, lost |-> {},
         r |-> [q \in DbRequests |-> [pc |-> "start", c |-> None, err |-> FALSE, log |-> FALSE]]]

Go(s, q, to) == [s EXCEPT !.r[q] = to @@ @]

\* The transaction on connection n ends on the server; kept: it committed.
Ends(s, n, kept) ==
    [s EXCEPT !.tx = @ \ {n}, !.work[n] = None, !.saved = IF kept THEN @ \cup ({s.work[n]} \ {None}) ELSE @]

Entry == IF d.auto THEN "begin" ELSE "handler"

acquire(q) ==
    /\ d.r[q].pc = "start"
    /\ \/ \E n \in d.idle :
            d' = Go([d EXCEPT !.idle = @ \ {n}, !.active = @ + 1], q, [pc |-> Entry, c |-> n])
       \/ /\ d.idle = {} /\ d.active < Slots /\ d.made < MaxMade
          /\ d' = Go([d EXCEPT !.made = @ + 1, !.open = @ \cup {d.made + 1}, !.active = @ + 1], q,
                     [pc |-> Entry, c |-> d.made + 1])

\* beginTransaction() is outside the try block: when it throws the coroutine
\* ends, and the connection with it.
Begins(q) ==
    /\ d.r[q].pc = "begin"
    /\ \/ d' = Go([d EXCEPT !.tx = @ \cup {d.r[q].c}, !.work[d.r[q].c] = None], q, [pc |-> "handler"])
       \/ d' = Go([d EXCEPT !.open = @ \ {d.r[q].c}, !.lost = @ \cup {q}], q, [pc |-> "out", c |-> None, err |-> TRUE])

\* The query log replaces the attribute on the way in and restores it on the
\* way out, whatever the handler did.
LogWraps(q) == d.r[q].pc = "handler" /\ ~d.r[q].log /\ d' = Go(d, q, [log |-> TRUE])

\* The handler begins a transaction, writes, commits or rolls back on its own,
\* returns or throws.
HandlerBegins(q) ==
    /\ d.r[q].pc = "handler" /\ d.r[q].c \notin d.tx
    /\ d' = [d EXCEPT !.tx = @ \cup {d.r[q].c}, !.own = @ \cup {q}]

Writes(q) ==
    /\ d.r[q].pc = "handler" /\ d.r[q].c \in d.tx
    /\ d' = [d EXCEPT !.work[d.r[q].c] = q, !.wrote = @ \cup {q}]

HandlerEnds(q) ==
    /\ d.r[q].pc = "handler" /\ d.r[q].c \in d.tx
    /\ \E kept \in BOOLEAN : d' = [Ends(d, d.r[q].c, kept) EXCEPT !.own = @ \cup {q}]

\* The way back into makeDbMiddleware: commit if all went well and still in
\* a transaction, roll back if not.
Leaves(s, q, err) ==
    LET in == s.r[q].c \in s.tx
    IN Go(s, q, [log |-> FALSE, err |-> err, pc |-> IF ~in \/ (~err /\ ~s.auto) THEN "release" ELSE IF err THEN "rollback" ELSE "commit"])

HandlerReturns(q) == d.r[q].pc = "handler" /\ \E err \in BOOLEAN : d' = Leaves(d, q, err)

\* A COMMIT that throws leaves inTransaction() as it was; its work may be done.
commit(q) ==
    /\ d.r[q].pc = "commit"
    /\ \/ d' = Go(Ends(d, d.r[q].c, TRUE), q, [pc |-> "release"])
       \/ d' = Go([d EXCEPT !.unsure = @ \cup {q}], q, [pc |-> "rollback", err |-> TRUE])

rollback(q) ==
    /\ d.r[q].pc = "rollback"
    /\ \/ d' = Go(Ends(d, d.r[q].c, FALSE), q, [pc |-> "release"])
       \/ d' = Go(d, q, [pc |-> "release"])

\* DbConnectionPool::release(): a connection still in a transaction is rolled
\* back first, and counts as active until then.
releaseAsIs(q) ==
    /\ d.r[q].pc = "release"
    /\ d' = Go([d EXCEPT !.active = @ - 1, !.idle = @ \cup {d.r[q].c}], q, [pc |-> "out", c |-> None])

release(q) ==
    /\ d.r[q].pc = "release"
    /\ LET n == d.r[q].c
           s == Go(d, q, [pc |-> "out", c |-> None])
       IN d' = IF n \in d.tx THEN [s EXCEPT !.rolling = @ \cup {n}]
               ELSE [s EXCEPT !.active = @ - 1, !.idle = @ \cup {n}]

PoolRollsBack(n) ==
    /\ n \in d.rolling
    /\ \/ d' = [Ends(d, n, FALSE) EXCEPT !.rolling = @ \ {n}, !.active = @ - 1, !.idle = @ \cup {n}]
       \/ d' = [Ends(d, n, FALSE) EXCEPT !.rolling = @ \ {n}, !.active = @ - 1, !.open = @ \ {n}]

Next ==
    \/ \E q \in DbRequests : \/ acquire(q) \/ Begins(q) \/ LogWraps(q) \/ Writes(q) \/ HandlerBegins(q) \/ HandlerEnds(q)
                             \/ HandlerReturns(q) \/ commit(q) \/ rollback(q) \/ release(q)
    \/ \E n \in d.rolling : PoolRollsBack(n)

-----------------------------------------------------------------------------
TypeOK ==
    /\ d.active \in 0..Slots /\ d.idle \cup d.tx \cup d.rolling \subseteq 1..d.made
    /\ \A q \in DbRequests : d.r[q].pc \in {"start", "begin", "handler", "commit", "rollback", "release", "out"}

\* An idle connection is in nobody's transaction and no request has it: the
\* next request never works inside another one's transaction, whichever of
\* the handler, the commit and both rollbacks failed (makeDbMiddleware, release).
IdleIsClean == d.idle \cap (d.tx \cup d.rolling \cup {d.r[q].c : q \in DbRequests}) = {}

\* There are never more connections than the pool may have, also while a
\* connection that was given back is still being rolled back (release).
WithinSlots == Cardinality(d.open) <= Slots

\* A request that answered without an error has its writes saved, and one
\* that failed has none of them saved, unless its own COMMIT broke off or the
\* handler began or ended transactions itself (makeDbMiddleware).
AllOrNothing ==
    \A q \in DbRequests \ (d.own \cup d.unsure) :
        d.r[q].pc = "out" => (q \in d.saved <=> q \in d.wrote /\ ~d.r[q].err)

\* Every slot taken is given back once, whatever fails, save those of the requests whose
\* BEGIN failed: activeCount_ is the requests and rollbacks that hold a connection, and
\* for good those (makeDbMiddleware, "后置阶段: 归还连接到池").
SlotsGivenBack ==
    d.active = Cardinality(d.rolling) + Cardinality({q \in DbRequests : d.r[q].c # None}) + Cardinality(d.lost)
=============================================================================
