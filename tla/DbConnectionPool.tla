-------------------------- MODULE DbConnectionPool --------------------------
(* The coroutine database connection pool (src/db/DbConnectionPool.cpp).    *)
(* Every step is one stretch of code between two points where another       *)
(* thread or coroutine can run: a mutex section, or the code from one       *)
(* co_await to the next.  Connections are identities; whether one is dead,  *)
(* expired or inside a transaction is chosen when the code looks at it.     *)
EXTENDS Integers, Sequences, FiniteSets, Functions

CONSTANTS
    Clients,          \* coroutines that call acquire() and release()
    Conns,            \* connection identities the factory can return
    NoConn,           \* the null shared_ptr
    MinConnections,   \* DbConfig::minConnections
    MaxConnections,   \* DbConfig::maxConnections
    HealthCheck,      \* DbConfig::healthCheckInterval > 0
    PingGrace,        \* DbConfig::pingGracePeriod > 0
    MaxFaults         \* bound on dead connections, failed factories and rollbacks

ASSUME NoConnAssumption == NoConn \notin Conns
ASSUME ClientsAssumption == IsFiniteSet(Clients)
ASSUME ConnsAssumption == IsFiniteSet(Conns)
ASSUME SizeAssumption ==
    /\ MinConnections \in Nat
    /\ MaxConnections \in Nat
    /\ MaxFaults \in Nat
    /\ HealthCheck \in BOOLEAN
    /\ PingGrace \in BOOLEAN

VARIABLES
    idle,         \* idle_: the stack of idle connections, top at the end
    activeCount,  \* activeCount_
    waiters,      \* waiters_: clients whose timer and result slot are queued
    shutdown,     \* shutdown_, and whether shutdown() has run its mutex section
    pc,           \* where each client's coroutine is
    conn,         \* the connection a client pings or holds, or its result slot
    rolling,      \* connections whose rollback coroutine is running
    health,       \* where healthCheckLoop() is
    checking,     \* connections healthCheckLoop() has still to ping
    alive,        \* connections healthCheckLoop() found alive
    borrowed,     \* checking.size() as counted into activeCount_
    deficit,      \* connections healthCheckLoop() has still to create
    initLeft,     \* connections init() has still to create
    initState,    \* "filling" while init() runs, then "ready" or "failed"
    faults        \* faults the environment may still inject

clientVars == <<pc, conn>>
healthVars == <<health, checking, alive, borrowed, deficit>>
initVars == <<initLeft, initState>>
vars == <<idle, activeCount, waiters, shutdown, clientVars, rolling,
          healthVars, initVars, faults>>

ClientStates == {"out", "enter", "ping", "create", "wait", "timedout", "hold"}

\* Connections some part of the pool or a client still refers to.
Referenced == Range(idle) \cup rolling \cup Range(checking) \cup Range(alive)
                 \cup {conn[c] : c \in {d \in Clients : conn[d] # NoConn}}

Fresh == Conns \ Referenced

Stopping == shutdown # "running"

Init ==
    /\ idle = <<>>
    /\ activeCount = 0
    /\ waiters = <<>>
    /\ shutdown = "running"
    /\ pc = [c \in Clients |-> "out"]
    /\ conn = [c \in Clients |-> NoConn]
    /\ rolling = {}
    /\ health = "off"
    /\ checking = <<>>
    /\ alive = <<>>
    /\ borrowed = 0
    /\ deficit = 0
    /\ initLeft = MinConnections
    /\ initState = "filling"
    /\ faults = MaxFaults

Fault(n) == faults >= n /\ faults' = faults - n

-----------------------------------------------------------------------------
(* init()                                                                    *)

InitConnection ==
    /\ initState = "filling"
    /\ initLeft > 0
    /\ \E n \in Fresh : idle' = Append(idle, n)
    /\ initLeft' = initLeft - 1
    /\ UNCHANGED <<activeCount, waiters, shutdown, clientVars, rolling,
                   healthVars, initState, faults>>

\* The factory throws: init() ends with the exception and starts no loop.
InitFails ==
    /\ initState = "filling"
    /\ initLeft > 0
    /\ Fault(1)
    /\ initState' = "failed"
    /\ UNCHANGED <<idle, activeCount, waiters, shutdown, clientVars, rolling,
                   healthVars, initLeft>>

\* Start idleCheckLoop() (it runs whenever initState is "ready") and, when
\* configured, healthCheckLoop().
InitFinish ==
    /\ initState = "filling"
    /\ initLeft = 0
    /\ initState' = "ready"
    /\ health' = IF HealthCheck THEN "sleep" ELSE "off"
    /\ UNCHANGED <<idle, activeCount, waiters, shutdown, clientVars, rolling,
                   checking, alive, borrowed, deficit, initLeft, faults>>

-----------------------------------------------------------------------------
(* acquire()                                                                 *)

\* The unlocked test of shutdown_ on entry.
AcquireEnter(c) ==
    /\ pc[c] = "out"
    /\ initState # "filling"
    /\ ~Stopping
    /\ pc' = [pc EXCEPT ![c] = "enter"]
    /\ UNCHANGED <<idle, activeCount, waiters, shutdown, conn, rolling,
                   healthVars, initVars, faults>>

\* The mutex section: drop the dead connections on top of the stack, then
\* take the first live one, or reserve a slot for a new one, or queue up.
\* active is activeCount_ when the section looks at it, spent the faults
\* that led to it.
TakeIdle(c, active, spent) ==
    \E k \in 0..(Len(idle) - 1) :
        /\ Fault(k + spent)
        /\ idle' = SubSeq(idle, 1, Len(idle) - k - 1)
        /\ conn' = [conn EXCEPT ![c] = idle[Len(idle) - k]]
        /\ activeCount' = active + 1
        /\ \/ pc' = [pc EXCEPT ![c] = "ping"]
           \/ HealthCheck /\ PingGrace /\ pc' = [pc EXCEPT ![c] = "hold"]
        /\ UNCHANGED waiters

ReserveOrWait(c, active, spent) ==
    /\ Fault(Len(idle) + spent)
    /\ idle' = <<>>
    /\ conn' = [conn EXCEPT ![c] = NoConn]
    /\ \/ /\ active < MaxConnections
          /\ activeCount' = active + 1
          /\ pc' = [pc EXCEPT ![c] = "create"]
          /\ UNCHANGED waiters
       \/ /\ active >= MaxConnections
          /\ activeCount' = active
          /\ pc' = [pc EXCEPT ![c] = "wait"]
          /\ waiters' = Append(waiters, c)

AcquireLocked(c) ==
    /\ pc[c] = "enter"
    /\ \/ TakeIdle(c, activeCount, 0)
       \/ ReserveOrWait(c, activeCount, 0)
    /\ UNCHANGED <<shutdown, rolling, healthVars, initVars>>

PingOk(c) ==
    /\ pc[c] = "ping"
    /\ pc' = [pc EXCEPT ![c] = "hold"]
    /\ UNCHANGED <<idle, activeCount, waiters, shutdown, conn, rolling,
                   healthVars, initVars, faults>>

\* The ping fails: lock again, give the count back and go round the loop.
PingFails(c) ==
    /\ pc[c] = "ping"
    /\ \/ TakeIdle(c, activeCount - 1, 1)
       \/ ReserveOrWait(c, activeCount - 1, 1)
    /\ UNCHANGED <<shutdown, rolling, healthVars, initVars>>

CreateOk(c) ==
    /\ pc[c] = "create"
    /\ \E n \in Fresh : conn' = [conn EXCEPT ![c] = n]
    /\ pc' = [pc EXCEPT ![c] = "hold"]
    /\ UNCHANGED <<idle, activeCount, waiters, shutdown, rolling,
                   healthVars, initVars, faults>>

\* The factory throws: the reserved slot is given back, nobody is woken.
CreateFails(c) ==
    /\ pc[c] = "create"
    /\ Fault(1)
    /\ activeCount' = activeCount - 1
    /\ pc' = [pc EXCEPT ![c] = "out"]
    /\ UNCHANGED <<idle, waiters, shutdown, conn, rolling, healthVars, initVars>>

\* The waiter's timer was cancelled (it is no longer queued), or expired.
\* Either way the coroutine looks at its result slot.
Served(c) ==
    /\ conn[c] # NoConn
    /\ activeCount' = activeCount + 1
    /\ pc' = [pc EXCEPT ![c] = "hold"]
    /\ UNCHANGED <<idle, waiters, shutdown, conn, rolling, healthVars,
                   initVars, faults>>

WaitCancelled(c) ==
    /\ pc[c] = "wait"
    /\ c \notin Range(waiters)
    /\ \/ Served(c)
       \/ /\ conn[c] = NoConn
          /\ pc' = [pc EXCEPT ![c] = "timedout"]
          /\ UNCHANGED <<idle, activeCount, waiters, shutdown, conn, rolling,
                         healthVars, initVars, faults>>

WaitExpires(c) ==
    /\ pc[c] = "wait"
    /\ c \in Range(waiters)
    /\ pc' = [pc EXCEPT ![c] = "timedout"]
    /\ UNCHANGED <<idle, activeCount, waiters, shutdown, conn, rolling,
                   healthVars, initVars, faults>>

\* std::erase_if() of the one entry i.
Erase(s, i) == SubSeq(s, 1, i - 1) \o SubSeq(s, i + 1, Len(s))

\* Mutant: the result slot is not looked at again under the lock.
LeaveQueueBlindly(c) ==
    /\ pc[c] = "timedout"
    /\ \/ \E i \in 1..Len(waiters) :
             waiters[i] = c /\ waiters' = Erase(waiters, i)
       \/ c \notin Range(waiters) /\ UNCHANGED waiters
    /\ pc' = [pc EXCEPT ![c] = "out"]
    /\ UNCHANGED <<idle, activeCount, shutdown, conn, rolling, healthVars,
                   initVars, faults>>

\* Having seen an empty slot, lock and leave the queue; a connection that
\* arrived before the lock is used, otherwise acquire() throws.
LeaveQueue(c) ==
    /\ pc[c] = "timedout"
    /\ \/ Served(c)
       \/ /\ conn[c] = NoConn
          /\ \/ \E i \in 1..Len(waiters) :
                   waiters[i] = c /\ waiters' = Erase(waiters, i)
             \/ c \notin Range(waiters) /\ UNCHANGED waiters
          /\ pc' = [pc EXCEPT ![c] = "out"]
          /\ UNCHANGED <<idle, activeCount, shutdown, conn, rolling,
                         healthVars, initVars, faults>>

-----------------------------------------------------------------------------
(* release()                                                                 *)

\* Mutant: the connection always goes to the stack.
HandBackToIdle(n, others) ==
    /\ conn' = others
    /\ idle' = IF Stopping THEN idle ELSE Append(idle, n)
    /\ UNCHANGED waiters

\* Give n to the longest waiter and cancel its timer, or put it on the stack
\* unless the pool is stopping.  others is conn without the releasing client.
HandBack(n, others) ==
    \/ /\ waiters # <<>>
       /\ waiters' = Tail(waiters)
       /\ conn' = [others EXCEPT ![Head(waiters)] = n]
       /\ UNCHANGED idle
    \/ /\ waiters = <<>>
       /\ conn' = others
       /\ idle' = IF Stopping THEN idle ELSE Append(idle, n)
       /\ UNCHANGED waiters

Release(c) ==
    /\ pc[c] = "hold"
    /\ pc' = [pc EXCEPT ![c] = "out"]
    /\ activeCount' = IF activeCount > 0 THEN activeCount - 1 ELSE 0
    /\ HandBack(conn[c], [conn EXCEPT ![c] = NoConn])
    /\ UNCHANGED <<shutdown, rolling, healthVars, initVars, faults>>

\* Mutant: the connection is handed back while its rollback is running.
ReleaseBeforeRollback(c) ==
    /\ pc[c] = "hold"
    /\ pc' = [pc EXCEPT ![c] = "out"]
    /\ rolling' = rolling \cup {conn[c]}
    /\ HandBack(conn[c], [conn EXCEPT ![c] = NoConn])
    /\ UNCHANGED <<activeCount, shutdown, healthVars, initVars, faults>>

\* Still inside a transaction: roll back in a coroutine of its own first.
ReleaseInTransaction(c) ==
    /\ pc[c] = "hold"
    /\ pc' = [pc EXCEPT ![c] = "out"]
    /\ rolling' = rolling \cup {conn[c]}
    /\ conn' = [conn EXCEPT ![c] = NoConn]
    /\ UNCHANGED <<idle, activeCount, waiters, shutdown, healthVars, initVars,
                   faults>>

RollbackOk(n) ==
    /\ n \in rolling
    /\ rolling' = rolling \ {n}
    /\ activeCount' = IF activeCount > 0 THEN activeCount - 1 ELSE 0
    /\ \/ Stopping /\ UNCHANGED <<idle, waiters, conn>>
       \/ ~Stopping /\ HandBack(n, conn)
    /\ UNCHANGED <<shutdown, pc, healthVars, initVars, faults>>

\* Mutant: the failed rollback keeps its slot.
RollbackFailsUncounted(n) ==
    /\ n \in rolling
    /\ Fault(1)
    /\ rolling' = rolling \ {n}
    /\ UNCHANGED <<idle, activeCount, waiters, shutdown, clientVars, healthVars,
                   initVars>>

\* The rollback throws: the connection is dropped, nobody is woken.
RollbackFails(n) ==
    /\ n \in rolling
    /\ Fault(1)
    /\ rolling' = rolling \ {n}
    /\ activeCount' = IF activeCount > 0 THEN activeCount - 1 ELSE 0
    /\ UNCHANGED <<idle, waiters, shutdown, clientVars, healthVars, initVars>>

-----------------------------------------------------------------------------
(* shutdown(): the flag is published first, the queues are cleared under the *)
(* mutex afterwards.                                                         *)

ShutdownFlag ==
    /\ shutdown = "running"
    /\ initState # "filling"
    /\ shutdown' = "flagged"
    /\ UNCHANGED <<idle, activeCount, waiters, clientVars, rolling, healthVars,
                   initVars, faults>>

\* Mutant: shutdown() forgets the waiters.
ShutdownClearIdleOnly ==
    /\ shutdown = "flagged"
    /\ shutdown' = "cleared"
    /\ idle' = <<>>
    /\ UNCHANGED <<activeCount, waiters, clientVars, rolling, healthVars,
                   initVars, faults>>

ShutdownClear ==
    /\ shutdown = "flagged"
    /\ shutdown' = "cleared"
    /\ waiters' = <<>>
    /\ idle' = <<>>
    /\ UNCHANGED <<activeCount, clientVars, rolling, healthVars, initVars,
                   faults>>

-----------------------------------------------------------------------------
(* idleCheckLoop(): erase expired connections, oldest position first, while  *)
(* more than minConnections remain.  What is left is a subsequence.          *)

\* The subsequence of s at the increasing positions e.
Subsequence(s, e) == [j \in DOMAIN e |-> s[e[j]]]

IdleCheck ==
    /\ initState = "ready"
    /\ ~Stopping
    /\ \E n \in MinConnections..(Len(idle) - 1) :
         \E e \in [1..n -> 1..Len(idle)] :
            /\ \A i, j \in 1..n : i < j => e[i] < e[j]
            /\ idle' = Subsequence(idle, e)
    /\ UNCHANGED <<activeCount, waiters, shutdown, clientVars, rolling,
                   healthVars, initVars, faults>>

-----------------------------------------------------------------------------
(* healthCheckLoop()                                                         *)

\* activeCount_ without the connections taken for checking.
Unborrowed == IF activeCount >= borrowed THEN activeCount - borrowed ELSE 0

\* The timer fires; shutdown_ is tested before the mutex is taken.
HealthWake ==
    /\ health = "sleep"
    /\ health' = IF Stopping THEN "off" ELSE "take"
    /\ UNCHANGED <<idle, activeCount, waiters, shutdown, clientVars, rolling,
                   checking, alive, borrowed, deficit, initVars, faults>>

\* Mutant: the connections stay on the stack while they are pinged.
HealthTakeCopy ==
    /\ health = "take"
    /\ checking' = idle
    /\ borrowed' = Len(idle)
    /\ activeCount' = activeCount + Len(idle)
    /\ alive' = <<>>
    /\ health' = IF idle = <<>> THEN "return" ELSE "next"
    /\ UNCHANGED <<idle, waiters, shutdown, clientVars, rolling, deficit,
                   initVars, faults>>

\* Take every idle connection and count it as active while it is pinged.
HealthTake ==
    /\ health = "take"
    /\ checking' = idle
    /\ idle' = <<>>
    /\ borrowed' = Len(idle)
    /\ activeCount' = activeCount + Len(idle)
    /\ alive' = <<>>
    /\ health' = IF idle = <<>> THEN "return" ELSE "next"
    /\ UNCHANGED <<waiters, shutdown, clientVars, rolling, deficit, initVars,
                   faults>>

\* Loop head: on shutdown the survivors so far go back to idle_ and the
\* loop ends; the connections not yet pinged are dropped.
HealthAbandon ==
    /\ health = "next"
    /\ Stopping
    /\ idle' = idle \o alive
    /\ activeCount' = Unborrowed
    /\ health' = "off"
    /\ checking' = <<>>
    /\ alive' = <<>>
    /\ borrowed' = 0
    /\ UNCHANGED <<waiters, shutdown, clientVars, rolling, deficit, initVars,
                   faults>>

HealthPing ==
    /\ health = "next"
    /\ ~Stopping
    /\ health' = "ping"
    /\ UNCHANGED <<idle, activeCount, waiters, shutdown, clientVars, rolling,
                   checking, alive, borrowed, deficit, initVars, faults>>

HealthPinged ==
    /\ health = "ping"
    /\ checking' = Tail(checking)
    /\ \/ alive' = Append(alive, Head(checking)) /\ UNCHANGED faults
       \/ Fault(1) /\ UNCHANGED alive
    /\ health' = IF Len(checking) = 1 THEN "return" ELSE "next"
    /\ UNCHANGED <<idle, activeCount, waiters, shutdown, clientVars, rolling,
                   borrowed, deficit, initVars>>

\* Put the survivors back (no waiter is woken) and compute how many
\* connections are missing below minConnections.
HealthReturn ==
    /\ health = "return"
    /\ idle' = idle \o alive
    /\ activeCount' = Unborrowed
    /\ LET total == Len(idle) + Len(alive) + Unborrowed
       IN  deficit' = IF total < MinConnections THEN MinConnections - total ELSE 0
    /\ health' = "fill"
    /\ alive' = <<>>
    /\ borrowed' = 0
    /\ UNCHANGED <<waiters, shutdown, clientVars, rolling, checking, initVars,
                   faults>>

\* Head of the replenishing loop, and of the outer loop when it is over.
HealthFill ==
    /\ health = "fill"
    /\ health' = IF Stopping THEN "off"
                 ELSE IF deficit > 0 THEN "create" ELSE "sleep"
    /\ UNCHANGED <<idle, activeCount, waiters, shutdown, clientVars, rolling,
                   checking, alive, borrowed, deficit, initVars, faults>>

\* The factory returns a connection, or throws (retried next time round).
HealthCreated ==
    /\ health = "create"
    /\ \/ \E n \in Fresh : idle' = Append(idle, n) /\ UNCHANGED faults
       \/ Fault(1) /\ UNCHANGED idle
    /\ deficit' = deficit - 1
    /\ health' = "fill"
    /\ UNCHANGED <<activeCount, waiters, shutdown, clientVars, rolling,
                   checking, alive, borrowed, initVars>>

-----------------------------------------------------------------------------

AcquireStep(c) ==
    \/ AcquireLocked(c) \/ PingOk(c) \/ PingFails(c) \/ CreateOk(c)
    \/ CreateFails(c) \/ WaitCancelled(c) \/ LeaveQueue(c)

ReleaseStep(c) == Release(c) \/ ReleaseInTransaction(c)

RollbackStep(n) == RollbackOk(n) \/ RollbackFails(n)

InitStep == InitConnection \/ InitFails \/ InitFinish

ShutdownStep == ShutdownFlag \/ ShutdownClear

HealthStep ==
    \/ HealthWake \/ HealthTake \/ HealthAbandon \/ HealthPing
    \/ HealthPinged \/ HealthReturn \/ HealthFill \/ HealthCreated

Next ==
    \/ \E c \in Clients : \/ AcquireEnter(c)
                         \/ AcquireStep(c)
                         \/ WaitExpires(c)
                         \/ ReleaseStep(c)
    \/ \E n \in Conns : RollbackStep(n)
    \/ InitStep
    \/ ShutdownStep
    \/ IdleCheck
    \/ HealthStep

Spec == Init /\ [][Next]_vars

\* Coroutines run to their next suspension, a ping, a rollback and the factory
\* complete, and a client releases what it holds.  No fairness on the expiry of
\* a waiter's timer, so that being served never rests on a time-out.
Fairness ==
    /\ \A c \in Clients : WF_vars(AcquireStep(c)) /\ WF_vars(ReleaseStep(c))
    /\ \A n \in Conns : WF_vars(RollbackStep(n))
    /\ WF_vars(InitStep)
    /\ WF_vars(ShutdownClear)
    /\ WF_vars(HealthStep)

FairSpec == Spec /\ Fairness

-----------------------------------------------------------------------------
(* Properties                                                                *)

Holders == {c \in Clients : conn[c] # NoConn}

\* Clients counted in activeCount_: pinging, creating or using a connection.
CountedStates == {"ping", "create", "hold"}

Counted == {c \in Clients : pc[c] \in CountedStates}

\* Connections handed to a waiter that has not resumed yet.
HandedOver == {c \in Clients : pc[c] \in {"wait", "timedout"} /\ conn[c] # NoConn}

\* Every variable keeps its type; in particular activeCount_, a size_t, never
\* wraps below zero at the unguarded decrements of acquire().
TypeOK ==
    /\ idle \in Seq(Conns)
    /\ activeCount \in Nat
    /\ waiters \in Seq(Clients)
    /\ shutdown \in {"running", "flagged", "cleared"}
    /\ pc \in [Clients -> ClientStates]
    /\ conn \in [Clients -> Conns \cup {NoConn}]
    /\ rolling \in SUBSET Conns
    /\ health \in {"off", "sleep", "take", "next", "ping", "return", "fill",
                   "create"}
    /\ checking \in Seq(Conns)
    /\ alive \in Seq(Conns)
    /\ borrowed \in Nat
    /\ deficit \in Nat
    /\ initLeft \in Nat
    /\ initState \in {"filling", "ready", "failed"}
    /\ faults \in Nat

\* No connection is ever in two hands: two clients never use the same one, and
\* one that a client uses (or that was handed to a waiter) is not on the idle
\* stack, in the health checker or in a rollback at the same time.
SingleOwner ==
    /\ IsInjective(idle) /\ IsInjective(checking) /\ IsInjective(alive)
    /\ \A c, d \in Holders : conn[c] = conn[d] => c = d
    /\ \A c \in Holders : conn[c] \notin Range(idle) \cup rolling
                                       \cup Range(checking) \cup Range(alive)
    /\ Range(idle) \cap rolling = {}
    /\ Range(idle) \cap Range(checking) = {}
    /\ Range(idle) \cap Range(alive) = {}
    /\ rolling \cap Range(checking) = {}
    /\ rolling \cap Range(alive) = {}
    /\ Range(checking) \cap Range(alive) = {}

\* activeCount_ is exactly the clients that ping, create or use a connection,
\* plus the rollbacks in flight, plus what the health checker borrowed.  So no
\* slot leaks on an error path, and the saturating decrements never saturate.
CountExact ==
    activeCount = Cardinality(Counted) + Cardinality(rolling) + borrowed

\* A time-out racing a hand-over loses no connection: whenever a result slot is
\* filled its client is out of the queue and still going to look at the slot.
NoLostHandOver ==
    \A c \in Clients :
        /\ conn[c] # NoConn => pc[c] \in {"ping", "hold", "wait", "timedout"}
        /\ c \in Range(waiters) => /\ pc[c] \in {"wait", "timedout"}
                                   /\ conn[c] = NoConn

\* release() prefers a waiter to the idle stack, so nobody waits while a
\* connection lies idle (when no health checker refills the stack).
NoWaiterBesideIdle == ~HealthCheck => (waiters # <<>> => idle = <<>>)

\* acquire() suspends when the pool is full: "pool full -> suspend until a
\* connection is returned" (DbConnectionPool.h).
WaitersOnlyWhenFull ==
    waiters # <<>> /\ ~Stopping =>
        activeCount + Len(idle) + Cardinality(HandedOver) >= MaxConnections

\* The pool keeps the promise of ConnectionLeases: what acquire() returns is
\* nobody else's, and never changes under the client before release().
leased == [c \in Clients |-> IF pc[c] = "hold" THEN conn[c] ELSE NoConn]

Leases == INSTANCE ConnectionLeases WITH lease <- leased

LeasesKept == Leases!Spec

\* Whoever queues before shutdown() is woken: by a release, by the end of a
\* rollback or by shutdown() itself, never only by its time-out.
WaiterWoken ==
    \A c \in Clients : (pc[c] = "wait" /\ ~Stopping) ~> pc[c] # "wait"

\* Nobody waits for what is there or could be made (acquire, release).
WaitersJustified == NoWaiterBesideIdle /\ WaitersOnlyWhenFull

=============================================================================
