----------------------------- MODULE MemoryPool -----------------------------
(***************************************************************************)
(* The memory pools (MemoryPool.cpp): one unsynchronised pool per thread,  *)
(* created on first use and found through a thread-local cache; holders of *)
(* its memory (request pools, input buffers of connections) that live on   *)
(* while others of the thread begin; the collection that marks idle pools  *)
(* from another thread and leaves the release to the owner.                *)
(***************************************************************************)
EXTENDS Integers, Sequences, FiniteSets, TLC

CONSTANTS
    Workers, Holders,
    MaxIdle,    \* gc()'s argument, in ticks
    MaxClock    \* bound on the clock

VARIABLE y

Nil == 0

\* pool: the entries of threadPools_, by the number they were created with;
\* cache: the thread-local cache.  on[r]: the pool a live holder's memory
\* comes from.  Ghosts: bad, the live holders whose memory was given back under
\* them, and idled, the pools nothing was made from for longer than MaxIdle.
Init ==
    y = [now |-> 0, gen |-> 0, made |-> 0, pools |-> {}, last |-> <<>>, needs |-> {},
         cache |-> [x \in Workers |-> [pool |-> Nil, gen |-> 0]],
         on |-> [r \in Holders |-> Nil], at |-> [r \in Holders |-> Nil], bad |-> {},
         gc |-> [todo |-> {}, due |-> Nil, now |-> 0], serving |-> FALSE, idled |-> {}]

Collecting == y.gc.todo # {} \/ y.gc.due # Nil

Live(c, p) == {r \in Holders : c.on[r] = p}

\* The owner's release() gives back every block of the pool.
Release(c, p) == [c EXCEPT !.needs = @ \ {p}, !.bad = @ \cup Live(c, p)]

Cached(c, x) == c.cache[x].pool # Nil /\ c.cache[x].gen = c.gen

NewPool(c, x) ==
    [c EXCEPT !.made = @ + 1, !.pools = @ \cup {c.made + 1}, !.last = Append(@, c.now),
              !.cache[x] = [pool |-> c.made + 1, gen |-> c.gen]]

getOrCreateThreadPool(c, x) ==
    LET p == c.cache[x].pool
        d == IF p \in c.needs THEN Release(c, p) ELSE c
    IN IF Cached(c, x) THEN [d EXCEPT !.last[p] = c.now] ELSE NewPool(c, x)

\* A request pool or an input buffer is made on its thread, and freed later.
createRequestPool(x, r) ==
    /\ y.at[r] = Nil /\ (Cached(y, x) \/ ~Collecting)
    /\ LET d == getOrCreateThreadPool(y, x)
       IN y' = [d EXCEPT !.serving = TRUE, !.on[r] = d.cache[x].pool, !.at[r] = x]

HolderEnds(r) ==
    /\ y.at[r] # Nil
    /\ y' = [y EXCEPT !.on[r] = Nil, !.at[r] = Nil, !.bad = @ \ {r}]

\* gc() on the thread of HttpServer's base loop, under the mutex that adding
\* an entry needs too: per entry the time is read, then the mark is set.
gcStart ==
    /\ ~Collecting /\ y.pools # {}
    /\ y' = [y EXCEPT !.gc = [todo |-> y.pools, due |-> Nil, now |-> y.now]]

gcReadsEarly(p) ==
    /\ y.gc.due = Nil /\ p \in y.gc.todo
    /\ y' = [y EXCEPT !.gc.todo = @ \ {p}, !.gc.due = IF y.gc.now - y.last[p] >= MaxIdle THEN p ELSE Nil]
gcReads(p) ==
    /\ y.gc.due = Nil /\ p \in y.gc.todo
    /\ y' = [y EXCEPT !.gc.todo = @ \ {p}, !.gc.due = IF y.gc.now - y.last[p] > MaxIdle THEN p ELSE Nil]

gcMarks == y.gc.due # Nil /\ y' = [y EXCEPT !.needs = @ \cup {y.gc.due}, !.gc.due = Nil]

\* configure() is for the time before the server starts: nothing lives.
\* threadLocalPool() may have been called before it.
configure ==
    /\ ~y.serving /\ y.gen = 0 /\ ~Collecting
    /\ y' = [y EXCEPT !.gen = 1, !.pools = {}, !.needs = {}]

threadLocalPool(x) == y.made < 2 /\ ~y.serving /\ ~Collecting /\ y' = getOrCreateThreadPool(y, x)

Tick ==
    /\ y.now < MaxClock
    /\ y' = [y EXCEPT !.now = @ + 1, !.idled = @ \cup {p \in y.pools : y.now + 1 - y.last[p] > MaxIdle}]

Next ==
    \/ gcStart \/ gcMarks \/ configure \/ Tick \/ \E p \in y.pools : gcReads(p)
    \/ \E x \in Workers : threadLocalPool(x) \/ \E r \in Holders : createRequestPool(x, r)
    \/ \E r \in Holders : HolderEnds(r)

-----------------------------------------------------------------------------
TypeOK ==
    /\ y.now \in 0..MaxClock /\ y.made \in Nat /\ y.bad \subseteq Holders /\ y.needs \subseteq 1..y.made
    /\ \A r \in Holders : y.at[r] \in Workers \cup {Nil} /\ y.on[r] \in 0..y.made

\* A live holder's memory comes from a pool that exists and belongs to the
\* thread it was made on, and to no other, also when the thread had used
\* a pool before configure() threw all pools away (getOrCreateThreadPool).
PoolIsOwn ==
    \A r \in Holders : y.at[r] # Nil =>
        /\ y.on[r] \in y.pools /\ y.cache[y.at[r]] = [pool |-> y.on[r], gen |-> y.gen]
        /\ \A s \in Holders : y.at[s] \notin {Nil, y.at[r]} => y.on[s] # y.on[r]

\* gc() takes no memory from under a live holder as long as its thread makes something
\* from the pool at least every MaxIdle, however gc()'s look at the time, its mark and the
\* thread's next allocation fall (gc, getOrCreateThreadPool).  A thread that idles longer
\* with a holder alive does lose it: the mark asks for no such thing.
BusyKeepsMemory == \A r \in y.bad : y.on[r] \in y.idled
=============================================================================
