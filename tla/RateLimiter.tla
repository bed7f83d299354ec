---------------------------- MODULE RateLimiter -----------------------------
(***************************************************************************)
(* The token-bucket limiter (RateLimiter.cpp), called by several threads.  *)
(* Each call reads the clock before it takes any lock, so calls may enter  *)
(* a bucket with an older time than the one the bucket has.  Time counts   *)
(* in ticks and tokens in whole units; a bucket that a thread has passed   *)
(* backwards may hold a negative number of them.                           *)
(***************************************************************************)
EXTENDS Integers, FiniteSets, FiniteSetsExt, TLC

CONSTANTS
    Threads, Keys,
    Rate,       \* tokens a tick brings
    Burst,      \* opts_.config.burst
    MaxEntries, \* opts_.maxEntries
    Idle,       \* kIdleThreshold, in ticks
    GcInterval, \* opts_.gcIntervalMs, in ticks
    MaxLag,     \* how long a thread may be on its way from the clock to the locks
    MaxTime     \* bound on the clock

VARIABLE q

None == [has |-> FALSE, tokens |-> 0, last |-> 0]

\* passed: how many calls of a key were allowed since the start.
Init ==
    q = [now |-> 0, lastGc |-> 0, b |-> [k \in Keys |-> None], passed |-> [k \in Keys |-> 0],
         t |-> [x \in Threads |-> [pc |-> "idle", k |-> CHOOSE k \in Keys : TRUE, at |-> 0]]]

Entries(c) == {k \in Keys : c.b[k].has}

To(c, x, pc) == [c EXCEPT !.t[x] = IF pc = "idle" THEN [@ EXCEPT !.pc = "idle", !.at = 0] ELSE [@ EXCEPT !.pc = pc]]

Pass(c, k) == [c EXCEPT !.passed[k] = @ + 1]

\* Refill for the time since the last access, then take a token if there is one.
TakeKeepsTime(c, k, at) ==
    LET n == Min({c.b[k].tokens + (at - c.b[k].last) * Rate, Burst})
        d == [c EXCEPT !.b[k] = [@ EXCEPT !.tokens = n]]
    IN IF n >= 1 THEN Pass([d EXCEPT !.b[k].tokens = n - 1], k) ELSE d

Take(c, k, at) ==
    LET n == Min({c.b[k].tokens + (at - c.b[k].last) * Rate, Burst})
        d == [c EXCEPT !.b[k] = [@ EXCEPT !.tokens = n, !.last = at]]
    IN IF n >= 1 THEN Pass([d EXCEPT !.b[k].tokens = n - 1], k) ELSE d

\* gc(): under the write lock, when the interval has passed.
gc(c, at) ==
    IF at - c.lastGc < GcInterval THEN c
    ELSE [c EXCEPT !.lastGc = at,
                   !.b = [k \in Keys |-> IF @[k].has /\ at - @[k].last > Idle THEN None ELSE @[k]]]

\* The middleware reads the clock; every so often the call collects first.
Enters(x, k) ==
    /\ q.t[x].pc = "idle"
    /\ \E pc \in {"gc", "look"} : q' = [q EXCEPT !.t[x] = [pc |-> pc, k |-> k, at |-> q.now]]

Collects(x) == q.t[x].pc = "gc" /\ q' = To(gc(q, q.t[x].at), x, "look")

\* The bucket under the read lock; a miss goes on to the write lock.
Looks(x) ==
    /\ q.t[x].pc = "look"
    /\ q' = IF q.b[q.t[x].k].has THEN To(Take(q, q.t[x].k, q.t[x].at), x, "idle") ELSE To(q, x, "create")

\* The second look under the write lock, the limit, a new bucket.
Creates(x) ==
    /\ q.t[x].pc = "create"
    /\ LET k == q.t[x].k
       IN q' = To(IF q.b[k].has THEN Take(q, k, q.t[x].at)
                  ELSE IF Cardinality(Entries(q)) >= MaxEntries THEN q
                  ELSE Pass([q EXCEPT !.b[k] = [has |-> TRUE, tokens |-> Max({Burst - 1, 0}), last |-> q.t[x].at]], k),
                  x, "idle")

Tick ==
    /\ q.now < MaxTime
    /\ \A x \in Threads : q.t[x].pc = "idle" \/ q.now - q.t[x].at < MaxLag
    /\ q' = [q EXCEPT !.now = @ + 1]

Next ==
    \/ Tick
    \/ \E x \in Threads : Collects(x) \/ Looks(x) \/ Creates(x) \/ \E k \in Keys : Enters(x, k)

-----------------------------------------------------------------------------
TypeOK ==
    /\ q.now \in 0..MaxTime
    /\ \A x \in Threads : q.t[x].pc \in {"idle", "gc", "look", "create"}
    /\ \A k \in Keys : q.b[k].tokens \in Int /\ q.b[k].tokens <= Burst

\* What the limiter is for: since the start, a key was allowed no more calls
\* than burst plus what the rate brings in that time, however the threads
\* overtake each other between reading the clock and taking the locks, and
\* whichever buckets were collected (check, gc).
WithinRate == \A k \in Keys : q.passed[k] <= Burst + Rate * q.now

\* The map never grows beyond maxEntries.
WithinMaxEntries == Cardinality(Entries(q)) <= MaxEntries
=============================================================================
