----------------------------- MODULE WriteQueue -----------------------------
(* The write path of a TCP connection (src/asio/GenericConnection.h, .hci):  *)
(* any thread pushes into the intrusive MPSC queue, one writeLoop coroutine  *)
(* on the connection's loop pops and writes.  A step is one access to shared *)
(* memory together with the thread-local code around it, under sequentially  *)
(* consistent atomics.  Entries count as one byte each.                      *)
EXTENDS Integers, Sequences, FiniteSets, Functions

CONSTANTS
    Producers,   \* threads that call send()
    MaxSends,    \* bound on the calls each of them makes
    MaxBatch,    \* kMaxDrainBatch
    Stub,        \* MpscQueue::stub
    Null,        \* nullptr
    MayFail      \* whether async_write may throw

ASSUME StubAssumption ==
    /\ Stub \notin Producers \X Nat
    /\ Null \notin Producers \X Nat \cup {Stub}
ASSUME BoundAssumption == MaxSends \in Nat /\ MaxBatch \in Nat \ {0}

VARIABLES
    next,      \* MpscNode::next of every node
    head,      \* MpscQueue::head_, the consumer's end
    tail,      \* MpscQueue::tail_, the producers' end
    writing,   \* writing_
    queued,    \* queuedBytes_
    open,      \* state_ == hConnected
    pc,        \* where each producer is in enqueueEntry()
    sends,     \* calls of send() each producer has made
    prev,      \* a producer's local prev in push()
    loop,      \* where writeLoop() is; "off" when none runs
    goal,      \* what writeLoop() pops for: "drain", "recheck" or "purge"
    cur,       \* pop()'s local h, and push(&stub)'s prev
    back,      \* the node writeLoop() pushes back
    batch,     \* nodes drained and not yet written
    spawned,   \* writeLoop() coroutines spawned and not yet started
    wire,      \* what the socket has taken, in order
    freed,     \* nodes given to deallocateNode()
    accepted   \* nodes whose send() passed the state check

producerVars == <<pc, sends, prev>>
popVars == <<goal, cur, back>>
vars == <<next, head, tail, writing, queued, open, producerVars, loop, popVars,
          batch, spawned, wire, freed, accepted>>

Messages == Producers \X (1..MaxSends)
Nodes == Messages \cup {Stub}

Mine(p) == <<p, sends[p]>>   \* the node producer p is pushing

Init ==
    /\ next = [n \in Nodes |-> Null]
    /\ head = Stub
    /\ tail = Stub
    /\ writing = FALSE
    /\ queued = 0
    /\ open = TRUE
    /\ pc = [p \in Producers |-> "out"]
    /\ sends = [p \in Producers |-> 0]
    /\ prev = [p \in Producers |-> Null]
    /\ loop = "off"
    /\ goal = "drain"
    /\ cur = Null
    /\ back = Null
    /\ batch = <<>>
    /\ spawned = 0
    /\ wire = <<>>
    /\ freed = {}
    /\ accepted = {}

-----------------------------------------------------------------------------
(* send() and enqueueEntry(), on any thread                                  *)

\* The state is tested; on a closed connection send() returns at once.
Send(p) ==
    /\ pc[p] = "out"
    /\ sends[p] < MaxSends
    /\ sends' = [sends EXCEPT ![p] = @ + 1]
    /\ \/ /\ open
          /\ accepted' = accepted \cup {<<p, sends[p] + 1>>}
          /\ pc' = [pc EXCEPT ![p] = "count"]
       \/ ~open /\ UNCHANGED <<accepted, pc>>
    /\ UNCHANGED <<next, head, tail, writing, queued, open, prev, loop, popVars,
                   batch, spawned, wire, freed>>

Count(p) ==
    /\ pc[p] = "count"
    /\ queued' = queued + 1
    /\ pc' = [pc EXCEPT ![p] = "exchange"]
    /\ UNCHANGED <<next, head, tail, writing, open, sends, prev, loop, popVars,
                   batch, spawned, wire, freed, accepted>>

Exchange(p) ==
    /\ pc[p] = "exchange"
    /\ next' = [next EXCEPT ![Mine(p)] = Null]
    /\ prev' = [prev EXCEPT ![p] = tail]
    /\ tail' = Mine(p)
    /\ pc' = [pc EXCEPT ![p] = "link"]
    /\ UNCHANGED <<head, writing, queued, open, sends, loop, popVars, batch,
                   spawned, wire, freed, accepted>>

Link(p) ==
    /\ pc[p] = "link"
    /\ next' = [next EXCEPT ![prev[p]] = Mine(p)]
    /\ prev' = [prev EXCEPT ![p] = Null]
    /\ pc' = [pc EXCEPT ![p] = "start"]
    /\ UNCHANGED <<head, tail, writing, queued, open, sends, loop, popVars,
                   batch, spawned, wire, freed, accepted>>

\* tryStartWrite(): whoever sets writing_ spawns the coroutine.
TryStartWrite ==
    /\ writing' = TRUE
    /\ spawned' = spawned + (IF writing THEN 0 ELSE 1)

Start(p) ==
    /\ pc[p] = "start"
    /\ TryStartWrite
    /\ pc' = [pc EXCEPT ![p] = "out"]
    /\ UNCHANGED <<next, head, tail, queued, open, sends, prev, loop, popVars,
                   batch, wire, freed, accepted>>

-----------------------------------------------------------------------------
(* pop(), by writeLoop() only                                                *)

\* What writeLoop() does with the node pop() returned.
Popped(n) ==
    /\ cur' = Null
    /\ \/ /\ goal = "drain"
          /\ batch' = Append(batch, n)
          /\ loop' = IF Len(batch) + 1 >= MaxBatch THEN "drained" ELSE "pop"
          /\ UNCHANGED <<back, queued, freed>>
       \/ /\ goal = "recheck"
          /\ back' = n
          /\ loop' = "again"
          /\ UNCHANGED <<batch, queued, freed>>
       \/ /\ goal = "purge"
          /\ queued' = queued - 1
          /\ freed' = freed \cup {n}
          /\ loop' = "pop"
          /\ UNCHANGED <<back, batch>>

\* What it does when pop() returns nullptr.
PoppedNothing ==
    /\ cur' = Null
    /\ loop' = IF goal = "drain" THEN "drained" ELSE "off"
    /\ UNCHANGED <<back, batch, queued, freed>>

\* head_ and its next are read (the stub is skipped on the way).
PopHead ==
    /\ loop = "pop"
    /\ LET skip == head = Stub /\ next[Stub] # Null
           h == IF skip THEN next[Stub] ELSE head
       IN  \/ /\ h = Stub
              /\ PoppedNothing
              /\ UNCHANGED head
           \/ /\ h # Stub /\ next[h] # Null
              /\ head' = next[h]
              /\ Popped(h)
           \/ /\ h # Stub /\ next[h] = Null
              /\ head' = h
              /\ cur' = h
              /\ loop' = "poptail"
              /\ UNCHANGED <<back, batch, queued, freed>>
    /\ UNCHANGED <<next, tail, writing, open, producerVars, goal, spawned, wire,
                   accepted>>

\* Mutant: wait for the producer without reading head_ again.
PopTailSpins ==
    /\ loop = "poptail"
    /\ \/ cur # tail /\ UNCHANGED <<cur, back, batch, queued, freed, loop>>
       \/ /\ cur = tail
          /\ loop' = "popstub"
          /\ UNCHANGED <<cur, back, batch, queued, freed>>
    /\ UNCHANGED <<next, head, tail, writing, open, producerVars, goal, spawned,
                   wire, accepted>>

\* The last node: a producer is about to link behind it, or it is really last.
PopTail ==
    /\ loop = "poptail"
    /\ \/ cur # tail /\ PoppedNothing
       \/ /\ cur = tail
          /\ loop' = "popstub"
          /\ UNCHANGED <<cur, back, batch, queued, freed>>
    /\ UNCHANGED <<next, head, tail, writing, open, producerVars, goal, spawned,
                   wire, accepted>>

\* push(&stub): the exchange, then the link together with the last look at
\* the head's next.
PopStubExchange ==
    /\ loop = "popstub"
    /\ next' = [next EXCEPT ![Stub] = Null]
    /\ cur' = tail
    /\ tail' = Stub
    /\ loop' = "poplink"
    /\ UNCHANGED <<head, writing, queued, open, producerVars, goal, back, batch,
                   spawned, wire, freed, accepted>>

\* Mutant: the node is returned although a producer has yet to link behind it.
PopStubLinkUnchecked ==
    /\ loop = "poplink"
    /\ next' = [next EXCEPT ![cur] = Stub]
    /\ head' = IF next'[head] # Null THEN next'[head] ELSE Stub
    /\ Popped(head)
    /\ UNCHANGED <<tail, writing, open, producerVars, goal, spawned, wire,
                   accepted>>

PopStubLink ==
    /\ loop = "poplink"
    /\ next' = [next EXCEPT ![cur] = Stub]
    /\ \/ /\ next'[head] # Null
          /\ head' = next'[head]
          /\ Popped(head)
       \/ /\ next'[head] = Null
          /\ UNCHANGED head
          /\ PoppedNothing
    /\ UNCHANGED <<tail, writing, open, producerVars, goal, spawned, wire,
                   accepted>>

-----------------------------------------------------------------------------
(* writeLoop(), on the connection's loop                                     *)

\* The loop runs the spawned coroutine once the previous one has returned.
LoopStart ==
    /\ loop = "off"
    /\ spawned > 0
    /\ spawned' = spawned - 1
    /\ loop' = "pop"
    /\ goal' = "drain"
    /\ batch' = <<>>
    /\ UNCHANGED <<next, head, tail, writing, queued, open, producerVars, cur,
                   back, wire, freed, accepted>>

\* Nothing drained: give up writing_ and look once more.
GiveUp ==
    /\ loop = "drained"
    /\ batch = <<>>
    /\ writing' = FALSE
    /\ goal' = "recheck"
    /\ loop' = "pop"
    /\ UNCHANGED <<next, head, tail, queued, open, producerVars, cur, back,
                   batch, spawned, wire, freed, accepted>>

\* Something came in: push it back (exchange, link) and start a new loop.
PushBackExchange ==
    /\ loop = "again"
    /\ next' = [next EXCEPT ![back] = Null]
    /\ tail' = back
    /\ cur' = tail
    /\ loop' = "againlink"
    /\ UNCHANGED <<head, writing, queued, open, producerVars, goal, back, batch,
                   spawned, wire, freed, accepted>>

PushBackLink ==
    /\ loop = "againlink"
    /\ next' = [next EXCEPT ![cur] = back]
    /\ cur' = Null
    /\ back' = Null
    /\ loop' = "restart"
    /\ UNCHANGED <<head, tail, writing, queued, open, producerVars, goal, batch,
                   spawned, wire, freed, accepted>>

\* Mutant: a coroutine is spawned whether or not writing_ was taken.
RestartAlways ==
    /\ loop = "restart"
    /\ writing' = TRUE
    /\ spawned' = spawned + 1
    /\ loop' = "off"
    /\ UNCHANGED <<next, head, tail, queued, open, producerVars, popVars, batch,
                   wire, freed, accepted>>

Restart ==
    /\ loop = "restart"
    /\ TryStartWrite
    /\ loop' = "off"
    /\ UNCHANGED <<next, head, tail, queued, open, producerVars, popVars, batch,
                   wire, freed, accepted>>

\* A batch was drained: take it off queuedBytes_ and start writing.
BeginWrite ==
    /\ loop = "drained"
    /\ batch # <<>>
    /\ queued' = queued - Len(batch)
    /\ loop' = "write"
    /\ UNCHANGED <<next, head, tail, writing, open, producerVars, popVars,
                   batch, spawned, wire, freed, accepted>>

\* One async_write (a run of memory entries, or one file) completes.
WriteOk ==
    /\ loop = "write"
    /\ open
    /\ \E k \in 1..Len(batch) :
          /\ wire' = wire \o SubSeq(batch, 1, k)
          /\ freed' = freed \cup Range(SubSeq(batch, 1, k))
          /\ batch' = SubSeq(batch, k + 1, Len(batch))
          /\ loop' = IF k = Len(batch) THEN "pop" ELSE "write"
    /\ goal' = "drain"
    /\ UNCHANGED <<next, head, tail, writing, queued, open, producerVars, cur,
                   back, spawned, accepted>>

\* It throws: handleClose() marks the connection closed, then writing_ is
\* reset, the batch freed and the queue purged.
WriteFails ==
    /\ loop = "write"
    /\ MayFail \/ ~open
    /\ open' = FALSE
    /\ loop' = "failed"
    /\ UNCHANGED <<next, head, tail, writing, queued, producerVars, popVars,
                   batch, spawned, wire, freed, accepted>>

FailedReset ==
    /\ loop = "failed"
    /\ writing' = FALSE
    /\ freed' = freed \cup Range(batch)
    /\ batch' = <<>>
    /\ goal' = "purge"
    /\ loop' = "pop"
    /\ UNCHANGED <<next, head, tail, queued, open, producerVars, cur, back,
                   spawned, wire, accepted>>

-----------------------------------------------------------------------------

Push(p) == Count(p) \/ Exchange(p) \/ Link(p) \/ Start(p)

PopStep == PopHead \/ PopTail \/ PopStubExchange \/ PopStubLink

WriteLoop ==
    \/ LoopStart \/ PopStep \/ GiveUp \/ PushBackExchange \/ PushBackLink
    \/ Restart \/ BeginWrite \/ WriteOk \/ WriteFails \/ FailedReset

Next == (\E p \in Producers : Send(p) \/ Push(p)) \/ WriteLoop

Spec == Init /\ [][Next]_vars

\* Threads run, the loop runs its coroutines, and a write completes or fails.
Fairness == (\A p \in Producers : WF_vars(Push(p))) /\ WF_vars(WriteLoop)

FairSpec == Spec /\ Fairness

-----------------------------------------------------------------------------
(* Properties                                                                *)

TypeOK ==
    /\ next \in [Nodes -> Nodes \cup {Null}]
    /\ head \in Nodes /\ tail \in Nodes
    /\ writing \in BOOLEAN /\ open \in BOOLEAN
    /\ queued \in Nat
    /\ pc \in [Producers -> {"out", "count", "exchange", "link", "start"}]
    /\ sends \in [Producers -> 0..MaxSends]
    /\ prev \in [Producers -> Nodes \cup {Null}]
    /\ loop \in {"off", "pop", "poptail", "popstub", "poplink", "drained",
                 "again", "againlink", "restart", "write", "failed"}
    /\ goal \in {"drain", "recheck", "purge"}
    /\ cur \in Nodes \cup {Null} /\ back \in Messages \cup {Null}
    /\ batch \in Seq(Messages) /\ wire \in Seq(Messages)
    /\ spawned \in Nat
    /\ freed \subseteq Messages /\ accepted \subseteq Messages

\* No thread is still going to store into a node that has been freed: pop()
\* returns a node only once its next is linked.
NoDanglingLink ==
    /\ \A p \in Producers : prev[p] \notin freed
    /\ loop \in {"poplink", "againlink"} => cur \notin freed
    /\ head \notin freed

\* While one writeLoop is suspended in async_write no other is spawned, so two
\* writes never interleave on the socket.
SingleWriter ==
    /\ loop \in {"write", "drained"} => writing /\ spawned = 0
    /\ spawned <= 1

\* Nothing is written twice, or after it was thrown away.
WrittenOnce == IsInjective(wire) /\ Range(batch) \cap freed = {}

Quiet == loop = "off" /\ spawned = 0 /\ \A p \in Producers : pc[p] = "out"

\* When every thread has come to rest nothing is left behind: each accepted
\* message is on the wire or the connection has failed, all nodes are freed
\* and queuedBytes_ is back to zero.
NothingStranded ==
    Quiet => /\ queued = 0
             /\ freed = accepted
             /\ open => Range(wire) = accepted

\* No message is lost, written twice or touched after it was freed, however
\* pushes, the batches of the write loop, its restarts and its failure meet
\* (enqueueEntry, writeLoop).
Delivered == TypeOK /\ NoDanglingLink /\ WrittenOnce /\ NothingStranded

\* Every accepted message is eventually written, or the connection fails.
EventuallyWritten ==
    \A m \in Messages : m \in accepted ~> (m \in Range(wire) \/ ~open)

=============================================================================
