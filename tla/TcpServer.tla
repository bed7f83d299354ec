------------------------------- MODULE TcpServer -------------------------------
(* The TCP server (src/asio/TcpServer.cpp) with its pool of loops            *)
(* (src/asio/EventLoopPool.cpp): one accept loop on the base loop, the       *)
(* connections of each loop in a shard only that loop touches, and stop()    *)
(* called by a thread or on the base loop while everything else goes on.     *)
(* Of a connection only what close() and its close callback need is kept;    *)
(* TcpConnection models the rest.                                            *)
EXTENDS Integers, Sequences, FiniteSets

CONSTANTS
    Conns,     \* clients that connect
    Base,      \* the base loop, which accepts
    IoLoops,   \* the loops of ioPool_, when setIoLoopNum() asks for one
    Stoppers,  \* who may call stop(): Base, or any other thread
    Calls,     \* what users call on a connection: "close", "shutdown"
    Wrap       \* 2^64: totalConnections_ wraps here

Loops == {Base} \cup IoLoops
NoConn == "no connection"
None == "nobody"

ASSUME NamesAssumption ==
    NoConn \notin Conns /\ None \notin Loops \cup Stoppers /\ Base \notin IoLoops
ASSUME ConnsAssumption == IsFiniteSet(Conns)
ASSUME StopperAssumption == Stoppers \cap IoLoops = {}
ASSUME WrapAssumption == Wrap \in Nat /\ Wrap > Cardinality(Conns)

VARIABLES
    pool,      \* the loops in use besides Base: IoLoops, or none
    running,   \* running_
    acceptor,  \* "open" or "closed"
    accepting, \* acceptLoop() is waiting for a connection
    ready,     \* the connection whose accept has completed, or NoConn
    state,     \* of each connection
    loopOf,    \* its loop, chosen when it is accepted
    tasks,     \* closures posted to each loop
    shard,     \* shards_: the connections of each loop
    cleared,   \* shards_ is empty
    total,     \* totalConnections_
    load,      \* connectionCount() of each loop
    stopBy,    \* the thread in stop(), or None
    pc,        \* where it is
    todo,      \* shards it has not closed yet
    exited,    \* loops whose thread has returned from run()
    strayed    \* findShard() found nothing and read shards_[0] of an empty vector

serverVars == <<running, acceptor, accepting, ready>>
connVars == <<state, loopOf>>
shardVars == <<shard, cleared, total, load, strayed>>
stopVars == <<pool, stopBy, pc, todo, exited>>
vars == <<serverVars, connVars, tasks, shardVars, stopVars>>

\* After start().
Init ==
    /\ running = TRUE /\ acceptor = "open" /\ accepting = TRUE /\ ready = NoConn
    /\ state = [c \in Conns |-> "none"]
    /\ loopOf = [c \in Conns |-> None]
    /\ tasks = [l \in Loops |-> <<>>]
    /\ shard = [l \in Loops |-> {}]
    /\ cleared = FALSE /\ total = 0 /\ load = [l \in Loops |-> 0] /\ strayed = FALSE
    /\ pool \in {{}, IoLoops}
    /\ stopBy = None /\ pc = "idle" /\ todo = {Base} \cup pool /\ exited = {}

Live == {"connected", "disconnecting"}

\* A loop runs handlers unless its thread has returned or is inside stop().
Runs(l) == l \notin exited /\ ~(stopBy = l /\ pc # "done")

Post(l, task) == tasks' = [tasks EXCEPT ![l] = Append(@, task)]

Take(l, op) == Runs(l) /\ tasks[l] # <<>> /\ Head(tasks[l]).op = op
                 /\ tasks' = [tasks EXCEPT ![l] = Tail(@)]

-----------------------------------------------------------------------------
(* Shards                                                                    *)

\* addConnection() on the shard of its loop, then connectEstablished().
AddConnection(l, c) ==
    /\ state' = [state EXCEPT ![c] = "connected"]
    /\ \/ /\ ~cleared
          /\ shard' = [shard EXCEPT ![l] = @ \cup {c}]
          /\ total' = (total + 1) % Wrap
          /\ load' = [load EXCEPT ![l] = @ + 1]
          /\ UNCHANGED strayed
       \/ cleared /\ strayed' = TRUE /\ UNCHANGED <<shard, total, load>>
    /\ UNCHANGED cleared

\* handleClose() of the connections S of one loop, each with the server's
\* close callback and its removeConnection().
Remove(l, S) ==
    /\ state' = [c \in Conns |-> IF c \in S THEN "disconnected" ELSE state[c]]
    /\ \/ /\ ~cleared
          /\ shard' = [shard EXCEPT ![l] = @ \ S]
          /\ total' = (total - Cardinality(S)) % Wrap
          /\ load' = [load EXCEPT ![l] = @ - Cardinality(S)]
          /\ UNCHANGED strayed
       \/ cleared /\ strayed' = (strayed \/ S # {}) /\ UNCHANGED <<shard, total, load>>
    /\ UNCHANGED cleared

-----------------------------------------------------------------------------
(* acceptLoop()                                                              *)

Arrive(c) ==
    /\ accepting /\ acceptor = "open" /\ ready = NoConn
    /\ state[c] = "none"
    /\ ready' = c
    /\ state' = [state EXCEPT ![c] = "accepted"]
    /\ UNCHANGED <<running, acceptor, accepting, loopOf, tasks, shardVars, stopVars>>

\* getNextIoLoop(): a loop of the pool with the fewest connections.
NextLoops ==
    IF pool = {} THEN {Base}
    ELSE {l \in pool : \A m \in pool : load[l] <= load[m]}

\* The accepted connection is taken whatever running_ says by now.
Accepted ==
    /\ Runs(Base) /\ ready # NoConn
    /\ ready' = NoConn
    /\ accepting' = running
    /\ \E l \in NextLoops :
          /\ loopOf' = [loopOf EXCEPT ![ready] = l]
          /\ \/ l = Base /\ AddConnection(l, ready) /\ UNCHANGED tasks
             \/ l # Base /\ Post(l, [op |-> "add", conn |-> ready]) /\ UNCHANGED <<state, shardVars>>
    /\ UNCHANGED <<running, acceptor, stopVars>>

AcceptAborted ==
    /\ Runs(Base) /\ accepting /\ ready = NoConn /\ acceptor = "closed"
    /\ accepting' = FALSE
    /\ UNCHANGED <<running, acceptor, ready, connVars, tasks, shardVars, stopVars>>

AddTask(l) ==
    /\ Take(l, "add")
    /\ AddConnection(l, Head(tasks[l]).conn)
    /\ UNCHANGED <<serverVars, loopOf, stopVars>>

-----------------------------------------------------------------------------
(* Connections end: by their peer, a user, or the idle check                 *)

PeerCloses(c) ==
    /\ state[c] \in Live /\ Runs(loopOf[c])
    /\ Remove(loopOf[c], {c})
    /\ UNCHANGED <<serverVars, loopOf, tasks, stopVars>>

\* shutdown(), or close() from another thread, which posts closeInLoop().
UserCalls(c) ==
    /\ state[c] = "connected"
    /\ state' = [state EXCEPT ![c] = "disconnecting"]
    /\ \/ "shutdown" \in Calls /\ UNCHANGED tasks
       \/ "close" \in Calls /\ Post(loopOf[c], [op |-> "close", conn |-> c])
    /\ UNCHANGED <<serverVars, loopOf, shardVars, stopVars>>

CloseTask(l) ==
    /\ Take(l, "close")
    /\ Remove(l, {Head(tasks[l]).conn} \cap {c \in Conns : state[c] \in Live})
    /\ UNCHANGED <<serverVars, loopOf, stopVars>>

\* close() does nothing for a connection that is already disconnecting.
Closable(l) == {c \in shard[l] : state[c] = "connected"}

IdleCheck(l) ==
    /\ Runs(l) /\ running
    /\ \E idle \in SUBSET Closable(l) : idle # {} /\ Remove(l, idle)
    /\ UNCHANGED <<serverVars, loopOf, tasks, stopVars>>

-----------------------------------------------------------------------------
(* stop()                                                                    *)

CloseShard(l) ==
    LET S == Closable(l)
    IN  /\ state' = [c \in Conns |-> IF c \in S THEN "disconnected" ELSE state[c]]
        /\ shard' = [shard EXCEPT ![l] = {}]
        /\ total' = (total - Cardinality(S)) % Wrap
        /\ load' = [load EXCEPT ![l] = @ - Cardinality(S)]
        /\ todo' = todo \ {l}
        /\ UNCHANGED <<cleared, strayed>>

StopBegin(t) ==
    /\ running /\ Runs(t)
    /\ running' = FALSE
    /\ stopBy' = t
    /\ \/ t = Base /\ acceptor' = "closed" /\ pc' = "shards" /\ UNCHANGED tasks
       \/ t # Base /\ Post(Base, [op |-> "acceptor"]) /\ pc' = "wait" /\ UNCHANGED acceptor
    /\ UNCHANGED <<accepting, ready, connVars, shardVars, pool, todo, exited>>

StopAcceptorTask ==
    /\ Take(Base, "acceptor")
    /\ acceptor' = "closed"
    /\ pc' = "shards"
    /\ UNCHANGED <<running, accepting, ready, connVars, shardVars, pool, stopBy, todo, exited>>

\* The base loop's shard first, then those of the pool.
StopShard ==
    /\ pc = "shards"
    /\ \E l \in (IF Base \in todo THEN {Base} ELSE todo) :
          \/ stopBy = l /\ CloseShard(l) /\ UNCHANGED <<tasks, pc>>
          \/ stopBy # l /\ Post(l, [op |-> "shard"]) /\ pc' = "wait"
                /\ UNCHANGED <<state, shardVars, todo>>
    /\ UNCHANGED <<serverVars, loopOf, pool, stopBy, exited>>

\* Mutant: the waiting thread is never told.
StopShardTaskSilent(l) ==
    /\ Take(l, "shard")
    /\ CloseShard(l)
    /\ UNCHANGED <<serverVars, loopOf, pool, stopBy, pc, exited>>

StopShardTask(l) ==
    /\ Take(l, "shard")
    /\ CloseShard(l)
    /\ pc' = "shards"
    /\ UNCHANGED <<serverVars, loopOf, pool, stopBy, exited>>

\* totalConnections_ = 0, and the work guards of the pool are released.
StopPool ==
    /\ pc = "shards" /\ todo = {}
    /\ total' = 0
    /\ pc' = "join"
    /\ UNCHANGED <<serverVars, connVars, tasks, shard, cleared, load, strayed, pool, stopBy, todo, exited>>

\* run() of a pool loop returns when the loop has nothing left to wait for.
Exit(l) ==
    /\ pc = "join" /\ l \in pool \ exited
    /\ tasks[l] = <<>>
    /\ \A c \in Conns : loopOf[c] = l => state[c] \notin Live
    /\ exited' = exited \cup {l}
    /\ UNCHANGED <<serverVars, connVars, tasks, shardVars, pool, stopBy, pc, todo>>

\* Mutant: shards_ is cleared before the threads are joined.
StopClearEarly ==
    /\ pc = "join"
    /\ cleared' = TRUE
    /\ pc' = "done"
    /\ UNCHANGED <<serverVars, connVars, tasks, shard, total, load, strayed, pool, stopBy, todo, exited>>

StopClear ==
    /\ pc = "join" /\ exited = pool
    /\ cleared' = TRUE
    /\ shard' = [l \in Loops |-> {}]
    /\ pc' = "done"
    /\ UNCHANGED <<serverVars, connVars, tasks, total, load, strayed, pool, stopBy, todo, exited>>

-----------------------------------------------------------------------------

LoopStep(l) ==
    AddTask(l) \/ CloseTask(l) \/ StopShardTask(l) \/ Exit(l)

StopStep == StopShard \/ StopPool \/ StopClear

BaseStep == Accepted \/ AcceptAborted \/ StopAcceptorTask

Next ==
    \/ BaseStep
    \/ \E l \in Loops : LoopStep(l) \/ IdleCheck(l)
    \/ \E c \in Conns : Arrive(c) \/ PeerCloses(c) \/ UserCalls(c)
    \/ \E t \in Stoppers : StopBegin(t)
    \/ StopStep

\* Loops run what is posted to them, and the thread in stop() goes on; no
\* client need ever connect or close.
Fairness ==
    /\ WF_vars(BaseStep)
    /\ \A l \in Loops : WF_vars(LoopStep(l))
    /\ WF_vars(StopStep)

Spec == Init /\ [][Next]_vars /\ Fairness

-----------------------------------------------------------------------------
(* Properties                                                                *)

TypeOK ==
    /\ running \in BOOLEAN /\ acceptor \in {"open", "closed"} /\ accepting \in BOOLEAN
    /\ ready \in Conns \cup {NoConn}
    /\ state \in [Conns -> {"none", "accepted", "disconnected"} \cup Live]
    /\ loopOf \in [Conns -> Loops \cup {None}]
    /\ \A l \in Loops : \A i \in 1..Len(tasks[l]) :
          tasks[l][i].op \in {"add", "close", "acceptor", "shard"}
    /\ shard \in [Loops -> SUBSET Conns]
    /\ cleared \in BOOLEAN /\ strayed \in BOOLEAN
    /\ total \in 0..(Wrap - 1)
    /\ \A l \in Loops : load[l] \in 0..Cardinality(Conns)
    /\ pool \in {{}, IoLoops} /\ stopBy \in Stoppers \cup {None}
    /\ pc \in {"idle", "wait", "shards", "join", "done"}
    /\ todo \subseteq Loops /\ exited \subseteq IoLoops

\* Until stop(), every shard holds exactly the live connections of its loop,
\* the loop's counter agrees with it, and connectionCount() is their number.
Registered ==
    running =>
        /\ \A l \in Loops :
              /\ shard[l] = {c \in Conns : loopOf[c] = l /\ state[c] \in Live}
              /\ load[l] = Cardinality(shard[l])
        /\ total = Cardinality({c \in Conns : state[c] \in Live})

\* findShard() finds the shard of the loop it is called on, at least when a
\* pool serves the connections: its threads are gone before shards_ is cleared.
FindShardFinds == pool # {} => ~strayed

\* stop() returns, whatever the clients do, when the base loop serves them.
StopReturnsWithoutPool == (pool = {} /\ stopBy # None) ~> pc = "done"

\* The shards, the counters and the lookup by loop agree with the connections
\* there are (addConnection, removeConnection, findShard).
ShardsSound == TypeOK /\ Registered /\ FindShardFinds

=============================================================================
