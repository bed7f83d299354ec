--------------------------- MODULE SessionManager ---------------------------
(***************************************************************************)
(* The in-memory session store and the middleware that uses it (Session.h, *)
(* Session.cpp), called by several I/O threads.  Each section under        *)
(* mutex_ is one step; between two sections of create(), and between       *)
(* find(), touch() and what the handler does with the session, other       *)
(* threads may run and time may pass.                                      *)
(***************************************************************************)
EXTENDS Naturals, Sequences, FiniteSets, FiniteSetsExt, TLC

CONSTANTS
    Threads,     \* I/O threads, each serving one request after another
    MaxSessions, \* opts_.maxSessions
    MaxAge,      \* opts_.maxAge
    GcInterval,  \* opts_.gcInterval
    MaxTime,     \* bound on the clock
    MaxIds,      \* bound on the ids generated
    MaxWrites    \* bound on the calls of set()

VARIABLE m

IdSet == 1..MaxIds

\* store: the ids in store_; last, data: of every Session object, stored or
\* not (a request keeps its shared_ptr); old: ids that regenerate() retired.
\* t: what each thread does, its session and when its create() collected.
Idle == [pc |-> "idle", s |-> 0, gcAt |-> 0]

Init ==
    m = [now |-> 0, lastGc |-> 0, next |-> 1, store |-> {}, last |-> [i \in IdSet |-> 0],
         data |-> [i \in IdSet |-> {}], old |-> {}, writes |-> 0,
         t |-> [x \in Threads |-> Idle]]

Go(c, x, f) == [c EXCEPT !.t[x] = f @@ @]

Expired(c, id) == c.now - c.last[id] >= MaxAge

\* gc(): the interval is checked again under the lock unless forced.
gcTooEarly(c, force) ==
    IF ~force /\ c.now - c.lastGc < GcInterval THEN c
    ELSE [c EXCEPT !.lastGc = c.now, !.store = {i \in @ : c.now - c.last[i] < MaxAge - 1}]
gc(c, force) ==
    IF ~force /\ c.now - c.lastGc < GcInterval THEN c
    ELSE [c EXCEPT !.lastGc = c.now, !.store = {i \in @ : ~Expired(c, i)}]

\* A Session nobody refers to any more is freed: its fields say nothing.
Freed(c) ==
    LET held == c.store \cup {c.t[x].s : x \in Threads}
    IN [c EXCEPT !.last = [i \in IdSet |-> IF i \in held THEN @[i] ELSE 0],
                 !.data = [i \in IdSet |-> IF i \in held THEN @[i] ELSE {}]]

\* A new Session, in the store, last accessed now.
Insert(c, x) ==
    Go([c EXCEPT !.next = @ + 1, !.store = @ \cup {c.next}, !.last[c.next] = c.now],
       x, [pc |-> "found", s |-> c.next, gcAt |-> 0])

-----------------------------------------------------------------------------
\* A request with the cookie of a stored session, or with one that is unknown: find().
find(x, cookie) ==
    /\ m.t[x].pc = "idle"
    /\ m' = Go(m, x, IF cookie \in m.store /\ ~Expired(m, cookie)
                     THEN [pc |-> "found", s |-> cookie] ELSE [pc |-> "create"])

\* create(): is a collection due (read lock), collect (write lock), insert
\* or, at the limit, unlock, collect, lock and look again.
CreateLooks(x) ==
    /\ m.t[x].pc = "create"
    /\ m' = Go(m, x, [pc |-> IF m.now - m.lastGc >= GcInterval THEN "gc" ELSE "insert"])

CreateCollects(x) == m.t[x].pc = "gc" /\ m' = Freed(Go(gc(m, FALSE), x, [pc |-> "insert"]))

CreateInserts(x) ==
    /\ m.t[x].pc = "insert" /\ m.next \in IdSet
    /\ m' = IF Cardinality(m.store) >= MaxSessions THEN Go(m, x, [pc |-> "force"]) ELSE Insert(m, x)

CreateForces(x) ==
    m.t[x].pc = "force" /\ m' = Freed(Go(gc(m, TRUE), x, [pc |-> "again", gcAt |-> m.now]))

CreateAgain(x) ==
    /\ m.t[x].pc = "again" /\ m.next \in IdSet
    /\ m' = IF Cardinality(m.store) >= MaxSessions THEN Go(m, x, Idle) ELSE Insert(m, x)

\* touch(), then the handler has the session.
touch(x) ==
    /\ m.t[x].pc = "found"
    /\ m' = Go([m EXCEPT !.last[m.t[x].s] = m.now], x, [pc |-> "handler"])

\* Session::set() of the handler; the item is new, to follow where it goes.
set(x) ==
    /\ m.t[x].pc = "handler" /\ m.writes < MaxWrites
    /\ m' = [m EXCEPT !.writes = @ + 1, !.data[m.t[x].s] = @ \cup {m.writes + 1}]

\* Session::remove() and clear().
clear(x) == m.t[x].pc = "handler" /\ m' = [m EXCEPT !.data[m.t[x].s] = {}]

\* regenerate(): erase the old id, a new session with the data moved to it.
regenerate(x) ==
    /\ m.t[x].pc = "handler" /\ m.next \in IdSet
    /\ LET o == m.t[x].s
           n == m.next
       IN m' = IF o \notin m.store THEN m
               ELSE Go([m EXCEPT !.next = @ + 1, !.last[n] = m.now, !.data[n] = m.data[o], !.data[o] = {},
                                 !.store = (@ \ {o}) \cup {n}, !.old = @ \cup {o}], x, [s |-> n])

destroy(x) ==
    /\ m.t[x].pc = "handler"
    /\ m' = [m EXCEPT !.store = @ \ {m.t[x].s}]

\* The response goes out with the cookie of the session, when it must.
Responds(x) == m.t[x].pc = "handler" /\ m' = Freed(Go(m, x, Idle))

Tick == m.now < MaxTime /\ m' = [m EXCEPT !.now = @ + 1]

Next ==
    \/ Tick
    \/ \E x \in Threads :
        \/ \E cookie \in m.store \cup {0} : find(x, cookie)
        \/ CreateLooks(x) \/ CreateCollects(x) \/ CreateInserts(x) \/ CreateForces(x) \/ CreateAgain(x)
        \/ touch(x) \/ set(x) \/ clear(x) \/ regenerate(x) \/ destroy(x) \/ Responds(x)

-----------------------------------------------------------------------------
TypeOK ==
    /\ m.store \cup m.old \subseteq IdSet
    /\ \A x \in Threads : m.t[x].pc \in {"idle", "create", "gc", "insert", "force", "again", "found", "handler"}

\* The store never holds more than maxSessions, whatever the threads do
\* while create() has given the lock up for its forced collection.
WithinMaxSessions == Cardinality(m.store) <= MaxSessions

\* An id that regenerate() retired is dead at once and for good: no request
\* finds it again, and its data is in the store under at most one id.
OldIdsDead ==
    /\ m.store \cap m.old = {}
    /\ \A i, j \in m.store : i # j => m.data[i] \cap m.data[j] = {}

\* create() turns a request away only on account of sessions that were alive
\* when it collected: expired entries never keep a new visitor out.
TurnedAwayByLive ==
    \A x \in Threads :
        m.t[x].pc = "again" /\ m'.t[x].pc = "idle" =>
            \A i \in m.store : m.last[i] + MaxAge > m.t[x].gcAt

\* A session leaves the store only by destroy(), regenerate() or because it
\* expired: a request that has touched its session can rely on it for maxAge.
KeptWhileFresh ==
    \A i \in m.store \ m'.store :
        \/ m.now - m.last[i] >= MaxAge
        \/ i \in m'.old
        \/ \E x \in Threads : m.t[x].pc = "handler" /\ m.t[x].s = i /\ m'.t = m.t
=============================================================================
