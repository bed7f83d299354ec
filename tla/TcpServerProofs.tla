-------------------------- MODULE TcpServerProofs --------------------------
(* The shards and counters of the TCP server for any number of connections,  *)
(* loops and threads that stop it.  Every connection belongs to one loop from *)
(* the time it is accepted; it is added once, by that loop; so what the loop's *)
(* counter says is the number of its live connections, until shards_ is       *)
(* cleared, which happens only when no loop that serves connections runs.     *)
EXTENDS TcpServer, FiniteSetTheorems, TLAPS

\* The time a leaf may take.
USE ZenonT(60)

States == {"none", "accepted", "disconnected"} \cup Live
SignalOps == {"acceptor", "shard"}
Task == [op : {"add", "close"}, conn : Conns] \cup [op : SignalOps]

\* The loops that connections are given to.
Serving == IF pool = {} THEN {Base} ELSE pool

LiveOn(l) == {c \in Conns : loopOf[c] = l /\ state[c] \in Live}
LiveConns == {c \in Conns : state[c] \in Live}

\* TypeOK, with the domains of functions and the types of queues.
TypeInv ==
    /\ running \in BOOLEAN /\ acceptor \in {"open", "closed"} /\ accepting \in BOOLEAN
    /\ ready \in Conns \cup {NoConn}
    /\ state \in [Conns -> States]
    /\ loopOf \in [Conns -> Loops \cup {None}]
    /\ tasks \in [Loops -> Seq(Task)]
    /\ shard \in [Loops -> SUBSET Conns]
    /\ cleared \in BOOLEAN /\ strayed \in BOOLEAN
    /\ total \in 0..(Wrap - 1)
    /\ load \in [Loops -> 0..Cardinality(Conns)]
    /\ pool \in {{}, IoLoops} /\ stopBy \in Stoppers \cup {None}
    /\ pc \in {"idle", "wait", "shards", "join", "done"}
    /\ todo \subseteq Loops /\ exited \subseteq IoLoops

\* A connection is bound to a loop when it is accepted, and lives on it.
PlaceInv ==
    /\ ready # NoConn => state[ready] = "accepted" /\ loopOf[ready] = None
    /\ \A c \in Conns :
          /\ loopOf[c] \in Serving \cup {None}
          /\ state[c] = "none" => loopOf[c] = None
          /\ state[c] \in Live => loopOf[c] # None

\* What waits in the queue of loop l is about connections of l, and none of
\* them is added before or twice.
Fine(q, l, at, st) ==
    \A i \in 1..Len(q) :
        /\ q[i].op \in {"add", "close"} => at[q[i].conn] = l
        /\ q[i].op = "add" => st[q[i].conn] = "accepted"
Once(q) ==
    \A i, j \in 1..Len(q) :
        q[i].op = "add" /\ q[j].op = "add" /\ q[i].conn = q[j].conn => i = j

QueueInv == \A l \in Loops : Fine(tasks[l], l, loopOf, state) /\ Once(tasks[l])

\* The thread in stop() has posted at most one closure, for which it waits.
Signals(q) == {i \in 1..Len(q) : q[i].op \in SignalOps}
Signalled == {l \in Loops : Signals(tasks[l]) # {}}

SignalInv ==
    /\ \A l, m \in Signalled : l = m
    /\ \A l \in Loops : \A i, j \in Signals(tasks[l]) : i = j
    /\ Signalled # {} => pc = "wait"

\* shards_ is cleared at the end of stop(), after the loops of the pool.
StopInv ==
    /\ running => pc = "idle"
    /\ cleared => pc = "done" /\ exited = pool

\* Each counter until then, and the shards until stop() closes them.
CountInv ==
    /\ ~cleared => \A l \in Loops : shard[l] \subseteq LiveOn(l) /\ load[l] = Cardinality(LiveOn(l))
    /\ running => /\ \A l \in Loops : LiveOn(l) \subseteq shard[l]
                  /\ total = Cardinality(LiveConns)

IInv == TypeInv /\ PlaceInv /\ QueueInv /\ SignalInv /\ StopInv /\ CountInv /\ FindShardFinds

-----------------------------------------------------------------------------
(* Numbers                                                                   *)

\* Unsigned counters: in range always, and exact within it.
LEMMA Unsigned ==
    ASSUME NEW w \in Nat, w > 0, NEW x \in Int
    PROVE  /\ x % w \in 0..(w - 1)
           /\ x \in 0..(w - 1) => x % w = x
  BY SMTT(60)

LEMMA LiveFinite ==
    /\ Cardinality(Conns) \in Nat
    /\ \A S \in SUBSET Conns : IsFiniteSet(S) /\ Cardinality(S) \in 0..Cardinality(Conns)
<1>1. Cardinality(Conns) \in Nat
  BY ConnsAssumption, FS_CardinalityType
<1>2. ASSUME NEW S \in SUBSET Conns PROVE IsFiniteSet(S) /\ Cardinality(S) \in 0..Cardinality(Conns)
  <2>1. IsFiniteSet(S) /\ Cardinality(S) <= Cardinality(Conns)
    BY ConnsAssumption, FS_Subset
  <2>2. Cardinality(S) \in Nat
    BY <2>1, FS_CardinalityType
  <2> QED
    BY SMTT(60), <1>1, <2>1, <2>2
<1> QED
  BY <1>1, <1>2

LEMMA OneMore ==
    ASSUME NEW S \in SUBSET Conns, NEW c \in Conns, c \notin S
    PROVE  Cardinality(S \cup {c}) = Cardinality(S) + 1
  BY LiveFinite, FS_AddElement

LEMMA Fewer ==
    ASSUME NEW S \in SUBSET Conns, NEW T \in SUBSET S
    PROVE  Cardinality(S \ T) = Cardinality(S) - Cardinality(T)
<1>1. IsFiniteSet(S) /\ S \cap T = T
  BY LiveFinite
<1> QED
  BY <1>1, FS_Difference

-----------------------------------------------------------------------------
(* Queues                                                                    *)

LEMMA QueueTypes ==
    ASSUME NEW q \in Seq(Task), NEW i \in 1..Len(q)
    PROVE  /\ q[i].op \in {"add", "close", "acceptor", "shard"}
           /\ q[i].op \in {"add", "close"} => q[i].conn \in Conns
<1>1. q[i] \in Task
  BY SMTT(60)
<1> QED
  BY <1>1 DEF Task, SignalOps

\* The connections that wait in queue q to be added.
Adds(q) == {q[i].conn : i \in {j \in 1..Len(q) : q[j].op = "add"}}

\* A queue that stays as it is.
LEMMA FineKept ==
    ASSUME NEW q \in Seq(Task), NEW l, NEW at, NEW st, NEW at2, NEW st2, Fine(q, l, at, st),
           \A c \in Conns : at[c] = l => at2[c] = l,
           \A c \in Adds(q) : st[c] = "accepted" => st2[c] = "accepted"
    PROVE  Fine(q, l, at2, st2)
<1>1. \A i \in 1..Len(q) : q[i].op = "add" => q[i].conn \in Adds(q)
  BY DEF Adds
<1> QED
  BY <1>1, QueueTypes DEF Fine

LEMMA Posted ==
    ASSUME NEW q \in Seq(Task), NEW t \in Task
    PROVE  /\ Append(q, t) \in Seq(Task)
           /\ \A l, at, st :
                 /\ Fine(q, l, at, st)
                 /\ t.op \in {"add", "close"} => at[t.conn] = l
                 /\ t.op = "add" => st[t.conn] = "accepted"
                 => Fine(Append(q, t), l, at, st)
           /\ Once(q) /\ (t.op = "add" => t.conn \notin Adds(q)) => Once(Append(q, t))
           /\ Signals(Append(q, t)) = Signals(q) \cup (IF t.op \in SignalOps THEN {Len(q) + 1} ELSE {})
<1> DEFINE r == Append(q, t)
<1>1. /\ r \in Seq(Task) /\ Len(q) \in Nat /\ Len(r) = Len(q) + 1
      /\ r[Len(q) + 1] = t /\ \A i \in 1..Len(q) : r[i] = q[i]
  BY SMTT(60)
<1> HIDE DEF r
<1>2. ASSUME NEW l, NEW at, NEW st, Fine(q, l, at, st),
             t.op \in {"add", "close"} => at[t.conn] = l,
             t.op = "add" => st[t.conn] = "accepted"
      PROVE  Fine(r, l, at, st)
  BY SMTT(60), <1>1, <1>2 DEF Fine
<1>3. ASSUME Once(q), t.op = "add" => t.conn \notin Adds(q)
      PROVE  Once(r)
  <2>1. t.op = "add" => \A i \in 1..Len(q) : q[i].op = "add" => q[i].conn # t.conn
    BY <1>3 DEF Adds
  <2> QED
    BY SMTT(60), <1>1, <1>3, <2>1 DEF Once
<1>4. Signals(r) = Signals(q) \cup (IF t.op \in SignalOps THEN {Len(q) + 1} ELSE {})
  BY SMTT(60), <1>1 DEF Signals
<1> QED
  BY <1>1, <1>2, <1>3, <1>4 DEF r

LEMMA Taken ==
    ASSUME NEW q \in Seq(Task), q # <<>>
    PROVE  /\ Tail(q) \in Seq(Task) /\ Head(q) \in Task
           /\ \A l, at, st : Fine(q, l, at, st) =>
                 /\ Fine(Tail(q), l, at, st)
                 /\ Head(q).op \in {"add", "close"} => at[Head(q).conn] = l
                 /\ Head(q).op = "add" => st[Head(q).conn] = "accepted"
           /\ Once(q) => /\ Once(Tail(q))
                         /\ Head(q).op = "add" => Head(q).conn \notin Adds(Tail(q))
           /\ Signals(q) = {} => Signals(Tail(q)) = {}
           /\ (\A i, j \in Signals(q) : i = j) =>
                 /\ \A i, j \in Signals(Tail(q)) : i = j
                 /\ Head(q).op \in SignalOps => Signals(Tail(q)) = {}
           /\ Head(q).op \in SignalOps => Signals(q) # {}
<1> DEFINE r == Tail(q)
           h == Head(q)
<1>1. /\ r \in Seq(Task) /\ Len(q) \in Nat /\ Len(q) >= 1 /\ Len(r) = Len(q) - 1
      /\ h = q[1] /\ h \in Task
  BY SMTT(60)
<1>2. \A i \in 1..Len(r) : i + 1 \in 1..Len(q) /\ r[i] = q[i + 1]
  BY SMTT(60)
<1> HIDE DEF r, h
<1>3. ASSUME NEW l, NEW at, NEW st, Fine(q, l, at, st)
      PROVE  /\ Fine(r, l, at, st)
             /\ h.op \in {"add", "close"} => at[h.conn] = l
             /\ h.op = "add" => st[h.conn] = "accepted"
  BY SMTT(60), <1>1, <1>2, <1>3 DEF Fine
<1>4. ASSUME Once(q)
      PROVE  Once(r) /\ (h.op = "add" => h.conn \notin Adds(r))
  <2>1. Once(r)
    <3> SUFFICES ASSUME NEW i \in 1..Len(r), NEW j \in 1..Len(r), r[i].op = "add", r[j].op = "add",
                        r[i].conn = r[j].conn
                 PROVE  i = j
      BY DEF Once
    <3>1. i + 1 \in 1..Len(q) /\ j + 1 \in 1..Len(q) /\ r[i] = q[i + 1] /\ r[j] = q[j + 1]
      BY <1>2
    <3>2. i + 1 = j + 1
      BY <1>4, <3>1 DEF Once
    <3> QED
      BY SMTT(60), <1>1, <3>2
  <2>2. h.op = "add" => \A i \in 1..Len(r) : r[i].op = "add" => r[i].conn # h.conn
    BY SMTT(60), <1>1, <1>2, <1>4 DEF Once
  <2> QED
    BY <2>1, <2>2 DEF Adds
<1>5. \A i \in Signals(r) : i \in Int /\ i >= 1 /\ i + 1 \in Signals(q)
  BY SMTT(60), <1>1, <1>2 DEF Signals
<1>6. h.op \in SignalOps => 1 \in Signals(q)
  BY SMTT(60), <1>1 DEF Signals
<1>7. Signals(q) = {} => Signals(r) = {}
  BY <1>5
<1>8. ASSUME \A i, j \in Signals(q) : i = j
      PROVE  /\ \A i, j \in Signals(r) : i = j
             /\ h.op \in SignalOps => Signals(r) = {}
  BY SMTT(60), <1>5, <1>6, <1>8
<1> QED
  BY <1>1, <1>3, <1>4, <1>6, <1>7, <1>8 DEF r, h

-----------------------------------------------------------------------------
(* What the parts of the invariant need of a step                            *)

LEMMA QueuesKept ==
    ASSUME TypeInv, QueueInv, tasks' = tasks,
           \A c \in Conns : loopOf[c] # None =>
              loopOf'[c] = loopOf[c] /\ (state[c] = "accepted" => state'[c] = "accepted")
    PROVE  QueueInv'
<1> SUFFICES ASSUME NEW l \in Loops PROVE Fine(tasks[l], l, loopOf', state') /\ Once(tasks[l])
  BY DEF QueueInv
<1>1. Fine(tasks[l], l, loopOf, state) /\ Once(tasks[l]) /\ tasks[l] \in Seq(Task)
  BY DEF QueueInv, TypeInv
<1>2. \A c \in Adds(tasks[l]) : c \in Conns /\ loopOf[c] = l
  BY SMTT(60), <1>1, QueueTypes DEF Adds, Fine
<1>3. l # None
  BY NamesAssumption
<1> QED
  BY SMTT(60), <1>1, <1>2, <1>3, FineKept

LEMMA SignalsKept ==
    ASSUME SignalInv, tasks' = tasks, pc' = pc \/ Signalled = {}
    PROVE  SignalInv'
  BY DEF SignalInv, Signalled

\* Loop l takes the closure at the head of its queue.
LEMMA HeadTaken ==
    ASSUME TypeInv, QueueInv, NEW l \in Loops, NEW op, Take(l, op)
    PROVE  /\ tasks' \in [Loops -> Seq(Task)]
           /\ op \in {"add", "close"} => Head(tasks[l]).conn \in Conns /\ loopOf[Head(tasks[l]).conn] = l
           /\ op = "add" => state[Head(tasks[l]).conn] = "accepted"
           /\ /\ loopOf' = loopOf
              /\ \A c \in Conns : state[c] = "accepted" =>
                    state'[c] = "accepted" \/ (op = "add" /\ c = Head(tasks[l]).conn)
              => QueueInv'
<1>1. PICK q : q = tasks[l]
  OBVIOUS
<1>2. PICK h : h = Head(q)
  OBVIOUS
<1>3. q \in Seq(Task) /\ q # <<>> /\ h.op = op /\ tasks' = [tasks EXCEPT ![l] = Tail(q)]
  BY <1>1, <1>2 DEF TypeInv, Take
<1>4. Fine(q, l, loopOf, state) /\ Once(q)
  BY <1>1 DEF QueueInv
<1>5. /\ Tail(q) \in Seq(Task) /\ h \in Task /\ Fine(Tail(q), l, loopOf, state) /\ Once(Tail(q))
      /\ op \in {"add", "close"} => loopOf[h.conn] = l
      /\ op = "add" => state[h.conn] = "accepted" /\ h.conn \notin Adds(Tail(q))
  BY SMTT(60), <1>2, <1>3, <1>4, Taken
<1>6. op \in {"add", "close"} => h.conn \in Conns
  BY <1>3, <1>5 DEF Task, SignalOps
<1>7. tasks' \in [Loops -> Seq(Task)]
  BY <1>3, <1>5 DEF TypeInv
<1>8. ASSUME loopOf' = loopOf, NEW m \in Loops,
             \A c \in Conns : state[c] = "accepted" =>
                state'[c] = "accepted" \/ (op = "add" /\ c = h.conn)
      PROVE  Fine(tasks'[m], m, loopOf', state') /\ Once(tasks'[m])
  <2>1. PICK r : r = tasks'[m]
    OBVIOUS
  <2>2. /\ r \in Seq(Task) /\ Fine(r, m, loopOf, state) /\ Once(r)
        /\ op = "add" => h.conn \notin Adds(r)
    <3>1. CASE m = l
      <4>1. r = Tail(q)
        BY <1>3, <2>1, <3>1 DEF TypeInv
      <4> QED
        BY <1>5, <3>1, <4>1
    <3>2. CASE m # l
      <4>1. r = tasks[m] /\ r \in Seq(Task)
        BY <1>3, <2>1, <3>2 DEF TypeInv
      <4>2. Fine(r, m, loopOf, state) /\ Once(r)
        BY <4>1 DEF QueueInv
      <4>3. \A c \in Adds(r) : loopOf[c] = m
        BY <4>2 DEF Fine, Adds
      <4> QED
        BY <1>5, <3>2, <4>1, <4>2, <4>3
    <3> QED
      BY <3>1, <3>2
  <2>3. Adds(r) \subseteq Conns
    BY <2>2, QueueTypes DEF Adds
  <2>4. \A c \in Adds(r) : state[c] = "accepted" => state'[c] = "accepted"
    BY <1>8, <2>2, <2>3
  <2>5. Fine(r, m, loopOf', state')
    BY <1>8, <2>2, <2>4, FineKept
  <2> QED
    BY <2>1, <2>2, <2>5
<1> QED
  BY <1>1, <1>2, <1>5, <1>6, <1>7, <1>8 DEF QueueInv

LEMMA SignalsTaken ==
    ASSUME TypeInv, SignalInv, NEW l \in Loops, NEW op, Take(l, op)
    PROVE  /\ op \notin SignalOps /\ pc' = pc => SignalInv'
           /\ op \in SignalOps => pc = "wait" /\ SignalInv'
<1>1. PICK q : q = tasks[l]
  OBVIOUS
<1>2. /\ q \in Seq(Task) /\ q # <<>> /\ Head(q).op = op /\ tasks' = [tasks EXCEPT ![l] = Tail(q)]
      /\ \A i, j \in Signals(q) : i = j
  BY <1>1 DEF TypeInv, Take, SignalInv
<1>3. tasks'[l] = Tail(q) /\ \A m \in Loops : m # l => tasks'[m] = tasks[m]
  BY <1>2 DEF TypeInv
<1>4. /\ \A i, j \in Signals(Tail(q)) : i = j
      /\ op \in SignalOps => Signals(Tail(q)) = {} /\ Signals(q) # {}
      /\ Signals(q) = {} => Signals(Tail(q)) = {}
  BY <1>2, Taken
<1>5. \A m \in Loops : /\ Signals(tasks[m]) = {} => Signals(tasks'[m]) = {}
                       /\ \A i, j \in Signals(tasks'[m]) : i = j
  BY <1>1, <1>3, <1>4 DEF SignalInv
<1>6. Signalled' \subseteq Signalled
  BY <1>5 DEF Signalled
<1>7. op \in SignalOps => l \in Signalled /\ l \notin Signalled'
  BY <1>1, <1>3, <1>4 DEF Signalled
<1>8. op \in SignalOps => Signalled' = {} /\ pc = "wait"
  BY <1>6, <1>7 DEF SignalInv
<1>9. (Signalled' # {} => pc' = "wait") => SignalInv'
  BY <1>5, <1>6 DEF SignalInv
<1> QED
  BY <1>6, <1>8, <1>9 DEF SignalInv

\* A closure is posted to loop l.
LEMMA TaskPosted ==
    ASSUME TypeInv, QueueInv, NEW l \in Loops, NEW t \in Task, Post(l, t),
           t.op \in {"add", "close"} => loopOf'[t.conn] = l,
           t.op = "add" => state[t.conn] = "accepted" /\ loopOf[t.conn] = None,
           \A c \in Conns : loopOf[c] # None => loopOf'[c] = loopOf[c],
           \A c \in Conns : state[c] = "accepted" => state'[c] = "accepted"
    PROVE  tasks' \in [Loops -> Seq(Task)] /\ QueueInv'
<1>1. tasks' = [tasks EXCEPT ![l] = Append(tasks[l], t)] /\ tasks \in [Loops -> Seq(Task)]
  BY DEF TypeInv, Post
<1>2. tasks[l] \in Seq(Task) /\ Append(tasks[l], t) \in Seq(Task)
  BY <1>1, Posted
<1>3. tasks' \in [Loops -> Seq(Task)]
  BY <1>1, <1>2
<1>4. t.op \in {"add", "close"} => t.conn \in Conns
  BY DEF Task, SignalOps
<1>5. ASSUME NEW m \in Loops
      PROVE  /\ Fine(tasks[m], m, loopOf', state') /\ Once(tasks[m])
             /\ t.op = "add" => t.conn \notin Adds(tasks[m])
  <2>1. Fine(tasks[m], m, loopOf, state) /\ Once(tasks[m]) /\ tasks[m] \in Seq(Task)
    BY <1>1 DEF QueueInv
  <2>2. /\ Adds(tasks[m]) \subseteq Conns
        /\ \A c \in Adds(tasks[m]) : loopOf[c] = m
    BY SMTT(60), <2>1, QueueTypes DEF Adds, Fine
  <2>3. m # None
    BY NamesAssumption
  <2>4. Fine(tasks[m], m, loopOf', state')
    BY SMTT(60), <2>1, <2>2, <2>3, FineKept
  <2> QED
    BY <2>1, <2>2, <2>3, <2>4
<1>6. Fine(Append(tasks[l], t), l, loopOf', state') /\ Once(Append(tasks[l], t))
  <2>1. t.op = "add" => state'[t.conn] = "accepted"
    BY <1>4
  <2> QED
    BY <1>2, <1>5, <2>1, Posted
<1>7. ASSUME NEW m \in Loops PROVE Fine(tasks'[m], m, loopOf', state') /\ Once(tasks'[m])
  BY <1>1, <1>5, <1>6
<1> QED
  BY <1>3, <1>7 DEF QueueInv

LEMMA SignalsPosted ==
    ASSUME TypeInv, SignalInv, NEW l \in Loops, NEW t \in Task, Post(l, t)
    PROVE  /\ t.op \notin SignalOps /\ pc' = pc => SignalInv'
           /\ Signalled = {} /\ pc' = "wait" => SignalInv'
<1>1. tasks' = [tasks EXCEPT ![l] = Append(tasks[l], t)] /\ tasks \in [Loops -> Seq(Task)]
  BY DEF TypeInv, Post
<1>2. /\ \A m \in Loops : m # l => tasks'[m] = tasks[m]
      /\ Signals(tasks'[l]) = Signals(tasks[l]) \cup (IF t.op \in SignalOps THEN {Len(tasks[l]) + 1} ELSE {})
  BY <1>1, Posted
<1>3. ASSUME t.op \notin SignalOps, pc' = pc PROVE SignalInv'
  <2>0. Signals(tasks'[l]) = Signals(tasks[l])
    BY <1>2, <1>3
  <2>1. \A m \in Loops : Signals(tasks'[m]) = Signals(tasks[m])
    BY <1>2, <2>0
  <2>2. Signalled' = Signalled
    BY <2>1 DEF Signalled
  <2> QED
    BY <1>3, <2>1, <2>2 DEF SignalInv
<1>4. ASSUME Signalled = {}, pc' = "wait" PROVE SignalInv'
  <2>1. \A m \in Loops : Signals(tasks[m]) = {}
    BY <1>4 DEF Signalled
  <2>2. \A m \in Loops : /\ m # l => Signals(tasks'[m]) = {}
                         /\ \A i, j \in Signals(tasks'[m]) : i = j
    BY SMTT(60), <1>2, <2>1
  <2>3. \A m \in Signalled' : m = l
    BY <2>2 DEF Signalled
  <2> QED
    BY <1>4, <2>2, <2>3 DEF SignalInv
<1> QED
  BY <1>3, <1>4

-----------------------------------------------------------------------------
(* Counting                                                                  *)

\* When shards_ is cleared, no loop that serves connections runs any more.
LEMMA NoneServes ==
    ASSUME TypeInv, StopInv, cleared, pool # {}, NEW l \in Serving
    PROVE  ~Runs(l)
  BY DEF StopInv, Serving, Runs

LEMMA ClearedNotRunning == ASSUME StopInv, cleared PROVE ~running
  BY DEF StopInv

LEMMA LiveTypes == LiveConns \subseteq Conns /\ \A l : LiveOn(l) \subseteq LiveConns
  BY DEF LiveConns, LiveOn

\* addConnection() of a connection that was bound to loop l.
LEMMA Added ==
    ASSUME TypeInv, StopInv, CountInv, FindShardFinds,
           NEW l \in Loops, NEW c \in Conns, AddConnection(l, c), state[c] = "accepted",
           loopOf'[c] = l, \A d \in Conns : d # c => loopOf'[d] = loopOf[d],
           l \in Serving, Runs(l), UNCHANGED <<running, pool>>
    PROVE  /\ state' \in [Conns -> States] /\ shard' \in [Loops -> SUBSET Conns]
           /\ load' \in [Loops -> 0..Cardinality(Conns)] /\ total' \in 0..(Wrap - 1)
           /\ strayed' \in BOOLEAN /\ cleared' = cleared
           /\ CountInv' /\ FindShardFinds'
<1>1. state' = [state EXCEPT ![c] = "connected"] /\ cleared' = cleared
  BY DEF AddConnection
<1>2. state' \in [Conns -> States]
  BY <1>1 DEF TypeInv, States, Live
<1>3. /\ LiveConns' = LiveConns \cup {c} /\ c \notin LiveConns
      /\ LiveOn(l)' = LiveOn(l) \cup {c} /\ c \notin LiveOn(l)
      /\ \A m \in Loops : m # l => LiveOn(m)' = LiveOn(m)
  BY <1>1 DEF TypeInv, LiveConns, LiveOn, Live
<1>4. CASE ~cleared
  <2>1. /\ shard' = [shard EXCEPT ![l] = @ \cup {c}] /\ total' = (total + 1) % Wrap
        /\ load' = [load EXCEPT ![l] = @ + 1] /\ strayed' = strayed
    BY <1>4 DEF AddConnection
  <2>2. /\ Cardinality(LiveOn(l)') = Cardinality(LiveOn(l)) + 1
        /\ Cardinality(LiveConns') = Cardinality(LiveConns) + 1
    BY <1>3, OneMore, LiveTypes
  <2>3. /\ Cardinality(LiveOn(l)') \in 0..Cardinality(Conns)
        /\ Cardinality(LiveConns') \in 0..Cardinality(Conns) /\ Cardinality(Conns) \in Nat
    BY <1>3, LiveFinite, LiveTypes
  <2>4. load[l] = Cardinality(LiveOn(l)) /\ load'[l] = Cardinality(LiveOn(l)')
    BY <1>4, <2>1, <2>2 DEF CountInv, TypeInv
  <2>5. load' \in [Loops -> 0..Cardinality(Conns)] /\ shard' \in [Loops -> SUBSET Conns]
    BY <2>1, <2>3, <2>4 DEF TypeInv
  <2>6. total' \in 0..(Wrap - 1) /\ (running => total' = Cardinality(LiveConns'))
    <3>1. total + 1 \in Int /\ Wrap \in Nat /\ Wrap > 0 /\ Cardinality(Conns) <= Wrap - 1
      BY SMTT(60), <2>3, WrapAssumption DEF TypeInv
    <3>2. running => total + 1 = Cardinality(LiveConns')
      BY <2>2 DEF CountInv
    <3> QED
      BY SMTT(60), <2>1, <2>3, <3>1, <3>2, Unsigned
  <2>7. ASSUME NEW m \in Loops
        PROVE  /\ shard'[m] \subseteq LiveOn(m)' /\ load'[m] = Cardinality(LiveOn(m)')
               /\ running => LiveOn(m)' \subseteq shard'[m]
    <3>1. CASE m = l
      <4>1. shard'[l] = shard[l] \cup {c}
        BY <2>1 DEF TypeInv
      <4>2. shard[l] \subseteq LiveOn(l) /\ (running => LiveOn(l) \subseteq shard[l])
        BY <1>4 DEF CountInv
      <4> QED
        BY <1>3, <2>4, <3>1, <4>1, <4>2
    <3>2. CASE m # l
      BY SMTT(60), <1>3, <1>4, <2>1, <3>2 DEF CountInv, TypeInv
    <3> QED
      BY <3>1, <3>2
  <2>8. CountInv'
    BY <2>6, <2>7 DEF CountInv
  <2> QED
    BY <1>1, <1>2, <2>1, <2>5, <2>6, <2>8 DEF TypeInv, FindShardFinds
<1>5. CASE cleared
  <2>1. strayed' = TRUE /\ UNCHANGED <<shard, total, load>>
    BY <1>5 DEF AddConnection
  <2>2. pool = {} /\ ~running
    BY <1>5, NoneServes, ClearedNotRunning
  <2> QED
    BY <1>1, <1>2, <1>5, <2>1, <2>2 DEF TypeInv, CountInv, FindShardFinds
<1> QED
  BY <1>4, <1>5 DEF TypeInv

\* Connections S of loop l end: by handleClose() of each, or by closing its shard.
LEMMA Ended ==
    ASSUME TypeInv, NEW l \in Loops, NEW S \in SUBSET LiveOn(l), loopOf' = loopOf,
           state' = [c \in Conns |-> IF c \in S THEN "disconnected" ELSE state[c]]
    PROVE  /\ state' \in [Conns -> States]
           /\ \A c \in Conns : state[c] = "accepted" => state'[c] = "accepted"
           /\ \A c \in Conns : state'[c] \in Live => state[c] \in Live
           /\ \A c \in Conns : state'[c] = "none" => state[c] = "none"
           /\ LiveConns' = LiveConns \ S /\ LiveOn(l)' = LiveOn(l) \ S
           /\ \A m \in Loops : m # l => LiveOn(m)' = LiveOn(m)
           /\ Cardinality(S) \in Nat
           /\ Cardinality(LiveOn(l)') = Cardinality(LiveOn(l)) - Cardinality(S)
           /\ Cardinality(LiveConns') = Cardinality(LiveConns) - Cardinality(S)
           /\ Cardinality(LiveOn(l)') \in 0..Cardinality(Conns)
           /\ Cardinality(LiveConns') \in 0..Cardinality(Conns) /\ Cardinality(Conns) \in Nat
<1>1. S \subseteq Conns /\ \A c \in S : state[c] \in Live /\ loopOf[c] = l
  BY DEF LiveOn
<1>2. /\ state' \in [Conns -> States]
      /\ \A c \in Conns : state[c] = "accepted" => state'[c] = "accepted"
      /\ \A c \in Conns : state'[c] \in Live => state[c] \in Live
      /\ \A c \in Conns : state'[c] = "none" => state[c] = "none"
  BY <1>1 DEF TypeInv, States, Live
<1>3. /\ LiveConns' = LiveConns \ S /\ LiveOn(l)' = LiveOn(l) \ S
      /\ \A m \in Loops : m # l => LiveOn(m)' = LiveOn(m)
  BY <1>1 DEF LiveConns, LiveOn, Live
<1>4. /\ Cardinality(LiveOn(l)') = Cardinality(LiveOn(l)) - Cardinality(S)
      /\ Cardinality(LiveConns') = Cardinality(LiveConns) - Cardinality(S)
  BY <1>3, Fewer, LiveTypes
<1>5. /\ Cardinality(S) \in Nat /\ Cardinality(LiveOn(l)') \in 0..Cardinality(Conns)
      /\ Cardinality(LiveConns') \in 0..Cardinality(Conns) /\ Cardinality(Conns) \in Nat
  BY SMTT(60), <1>1, <1>3, LiveFinite, LiveTypes
<1> QED
  BY <1>2, <1>3, <1>4, <1>5

LEMMA Removed ==
    ASSUME TypeInv, PlaceInv, StopInv, CountInv, FindShardFinds,
           NEW l \in Loops, NEW S \in SUBSET LiveOn(l), Remove(l, S), Runs(l), loopOf' = loopOf,
           UNCHANGED <<running, pool>>
    PROVE  /\ state' \in [Conns -> States] /\ shard' \in [Loops -> SUBSET Conns]
           /\ load' \in [Loops -> 0..Cardinality(Conns)] /\ total' \in 0..(Wrap - 1)
           /\ strayed' \in BOOLEAN /\ cleared' = cleared
           /\ CountInv' /\ FindShardFinds'
<1>1. /\ state' = [c \in Conns |-> IF c \in S THEN "disconnected" ELSE state[c]]
      /\ cleared' = cleared
  BY DEF Remove
<1>2. /\ state' \in [Conns -> States]
      /\ LiveConns' = LiveConns \ S /\ LiveOn(l)' = LiveOn(l) \ S
      /\ \A m \in Loops : m # l => LiveOn(m)' = LiveOn(m)
      /\ Cardinality(S) \in Nat
      /\ Cardinality(LiveOn(l)') = Cardinality(LiveOn(l)) - Cardinality(S)
      /\ Cardinality(LiveConns') = Cardinality(LiveConns) - Cardinality(S)
      /\ Cardinality(LiveOn(l)') \in 0..Cardinality(Conns)
      /\ Cardinality(LiveConns') \in 0..Cardinality(Conns) /\ Cardinality(Conns) \in Nat
  BY SMTT(60), <1>1, Ended
<1>3. CASE ~cleared
  <2>1. /\ shard' = [shard EXCEPT ![l] = @ \ S] /\ total' = (total - Cardinality(S)) % Wrap
        /\ load' = [load EXCEPT ![l] = @ - Cardinality(S)] /\ strayed' = strayed
    BY <1>3 DEF Remove
  <2>2. load[l] = Cardinality(LiveOn(l)) /\ load'[l] = Cardinality(LiveOn(l)')
    BY <1>2, <1>3, <2>1 DEF CountInv, TypeInv
  <2>3. load' \in [Loops -> 0..Cardinality(Conns)] /\ shard' \in [Loops -> SUBSET Conns]
    BY <1>2, <2>1, <2>2 DEF TypeInv
  <2>4. total' \in 0..(Wrap - 1) /\ (running => total' = Cardinality(LiveConns'))
    <3>1. /\ total - Cardinality(S) \in Int /\ Wrap \in Nat /\ Wrap > 0
          /\ Cardinality(Conns) <= Wrap - 1
      BY SMTT(60), <1>2, WrapAssumption DEF TypeInv
    <3>2. running => total - Cardinality(S) = Cardinality(LiveConns')
      BY <1>2 DEF CountInv
    <3> QED
      BY SMTT(60), <1>2, <2>1, <3>1, <3>2, Unsigned
  <2>5. ASSUME NEW m \in Loops
        PROVE  /\ shard'[m] \subseteq LiveOn(m)' /\ load'[m] = Cardinality(LiveOn(m)')
               /\ running => LiveOn(m)' \subseteq shard'[m]
    <3>1. CASE m = l
      <4>1. shard'[l] = shard[l] \ S
        BY <2>1 DEF TypeInv
      <4>2. shard[l] \subseteq LiveOn(l) /\ (running => LiveOn(l) \subseteq shard[l])
        BY <1>3 DEF CountInv
      <4>3. LiveOn(l)' = LiveOn(l) \ S
        BY <1>2
      <4> QED
        BY <2>2, <3>1, <4>1, <4>2, <4>3
    <3>2. CASE m # l
      BY <1>2, <1>3, <2>1, <3>2 DEF CountInv, TypeInv
    <3> QED
      BY <3>1, <3>2
  <2>6. CountInv'
    BY <2>4, <2>5 DEF CountInv
  <2> QED
    BY <1>1, <1>2, <2>1, <2>3, <2>4, <2>6 DEF TypeInv, FindShardFinds
<1>4. CASE cleared
  <2>1. strayed' = (strayed \/ S # {}) /\ UNCHANGED <<shard, total, load>>
    BY <1>4 DEF Remove
  <2>2. ~running
    BY <1>4, ClearedNotRunning
  <2>3. pool # {} => S = {}
    <3> SUFFICES ASSUME pool # {}, NEW c \in S PROVE FALSE
      OBVIOUS
    <3>1. c \in Conns /\ loopOf[c] = l /\ l # None
      BY NamesAssumption DEF LiveOn
    <3>2. l \in Serving
      BY <3>1 DEF PlaceInv
    <3> QED
      BY <1>4, <3>2, NoneServes
  <2> QED
    BY <1>1, <1>2, <1>4, <2>1, <2>2, <2>3 DEF TypeInv, CountInv, FindShardFinds
<1> QED
  BY <1>3, <1>4 DEF TypeInv

-----------------------------------------------------------------------------
(* acceptLoop()                                                              *)

LEMMA ArriveInv == ASSUME IInv, NEW c \in Conns, Arrive(c) PROVE IInv'
<1> USE DEF IInv
<1>1. /\ state[c] = "none" /\ ready' = c /\ state' = [state EXCEPT ![c] = "accepted"]
      /\ UNCHANGED <<running, acceptor, accepting, loopOf, tasks, shard, cleared, total, load,
                     strayed, pool, stopBy, pc, todo, exited>>
  BY DEF Arrive, shardVars, stopVars
<1>2. TypeInv'
  BY <1>1 DEF TypeInv, States
<1>3. PlaceInv'
  BY <1>1 DEF TypeInv, PlaceInv, Serving, Live
<1>4. QueueInv'
  BY <1>1, QueuesKept DEF TypeInv
<1>5. SignalInv' /\ StopInv' /\ FindShardFinds'
  BY <1>1, SignalsKept DEF StopInv, FindShardFinds
<1>6. LiveConns' = LiveConns /\ \A l : LiveOn(l)' = LiveOn(l)
  BY <1>1 DEF TypeInv, LiveConns, LiveOn, Live
<1>7. CountInv'
  BY <1>1, <1>6 DEF CountInv
<1> QED
  BY <1>2, <1>3, <1>4, <1>5, <1>7

LEMMA NextLoopsServe == ASSUME TypeInv PROVE NextLoops \subseteq Serving /\ Serving \subseteq Loops
  BY DEF TypeInv, NextLoops, Serving, Loops

LEMMA AcceptedInv == ASSUME IInv, Accepted PROVE IInv'
<1> USE DEF IInv
<1>1. /\ Runs(Base) /\ ready # NoConn /\ ready' = NoConn /\ accepting' = running
      /\ UNCHANGED <<running, acceptor, pool, stopBy, pc, todo, exited>>
  BY DEF Accepted, stopVars
<1>2. PICK c : c = ready
  OBVIOUS
<1>3. c \in Conns /\ state[c] = "accepted" /\ loopOf[c] = None
  BY <1>1, <1>2 DEF TypeInv, PlaceInv
<1>4. PICK l \in NextLoops :
        /\ loopOf' = [loopOf EXCEPT ![c] = l]
        /\ \/ l = Base /\ AddConnection(l, c) /\ UNCHANGED tasks
           \/ l # Base /\ Post(l, [op |-> "add", conn |-> c]) /\ UNCHANGED <<state, shardVars>>
  BY <1>2 DEF Accepted
<1>5. l \in Serving /\ l \in Loops /\ l # None
  BY NextLoopsServe, NamesAssumption
<1>6. /\ loopOf' \in [Conns -> Loops \cup {None}] /\ loopOf'[c] = l
      /\ \A d \in Conns : d # c => loopOf'[d] = loopOf[d]
  BY <1>3, <1>4, <1>5 DEF TypeInv
<1>7. CASE l = Base
  <2>1. AddConnection(l, c) /\ tasks' = tasks
    BY <1>4, <1>7
  <2>2. /\ state' \in [Conns -> States] /\ shard' \in [Loops -> SUBSET Conns]
        /\ load' \in [Loops -> 0..Cardinality(Conns)] /\ total' \in 0..(Wrap - 1)
        /\ strayed' \in BOOLEAN /\ cleared' = cleared
        /\ CountInv' /\ FindShardFinds'
    BY <1>1, <1>3, <1>5, <1>6, <1>7, <2>1, Added
  <2>3. state' = [state EXCEPT ![c] = "connected"]
    BY <2>1 DEF AddConnection
  <2>4. TypeInv'
    BY <1>1, <1>6, <2>1, <2>2 DEF TypeInv
  <2>5. PlaceInv'
    BY <1>1, <1>3, <1>5, <1>6, <2>3 DEF TypeInv, PlaceInv, Serving
  <2>6. QueueInv'
    BY <1>3, <1>6, <2>1, <2>3, QueuesKept DEF TypeInv
  <2>7. SignalInv' /\ StopInv'
    BY <1>1, <2>1, <2>2, SignalsKept DEF StopInv
  <2> QED
    BY <2>2, <2>4, <2>5, <2>6, <2>7
<1>8. CASE l # Base
  <2>1. Post(l, [op |-> "add", conn |-> c]) /\ UNCHANGED <<state, shard, cleared, total, load, strayed>>
    BY <1>4, <1>8 DEF shardVars
  <2>2. PICK t : t = [op |-> "add", conn |-> c]
    OBVIOUS
  <2>3. t \in Task /\ t.op = "add" /\ t.conn = c /\ t.op \notin SignalOps
    BY <1>3, <2>2 DEF Task, SignalOps
  <2>4. tasks' \in [Loops -> Seq(Task)] /\ QueueInv'
    BY <1>3, <1>5, <1>6, <2>1, <2>2, <2>3, TaskPosted
  <2>5. TypeInv'
    BY <1>1, <1>6, <2>1, <2>4 DEF TypeInv
  <2>6. PlaceInv'
    BY <1>1, <1>3, <1>5, <1>6, <2>1 DEF TypeInv, PlaceInv, Serving, Live
  <2>7. SignalInv' /\ StopInv' /\ FindShardFinds'
    BY <1>1, <1>5, <2>1, <2>2, <2>3, SignalsPosted DEF StopInv, FindShardFinds
  <2>8. LiveConns' = LiveConns /\ \A m : LiveOn(m)' = LiveOn(m)
    BY <1>3, <1>6, <2>1 DEF LiveConns, LiveOn, Live
  <2>9. CountInv'
    BY <1>1, <2>1, <2>8 DEF CountInv
  <2> QED
    BY <2>4, <2>5, <2>6, <2>7, <2>9
<1> QED
  BY <1>7, <1>8

LEMMA AddTaskInv == ASSUME IInv, NEW l \in Loops, AddTask(l) PROVE IInv'
<1> USE DEF IInv
<1>1. PICK c : c = Head(tasks[l]).conn
  OBVIOUS
<1>2. /\ Take(l, "add") /\ AddConnection(l, c) /\ Runs(l)
      /\ UNCHANGED <<running, acceptor, accepting, ready, loopOf, pool, stopBy, pc, todo, exited>>
  BY <1>1 DEF AddTask, Take, serverVars, stopVars
<1>3. /\ tasks' \in [Loops -> Seq(Task)] /\ c \in Conns /\ loopOf[c] = l /\ state[c] = "accepted"
  BY <1>1, <1>2, HeadTaken
<1>4. state' = [state EXCEPT ![c] = "connected"]
  BY <1>2 DEF AddConnection
<1>5. QueueInv'
  <2>1. \A d \in Conns : state[d] = "accepted" => state'[d] = "accepted" \/ d = c
    BY <1>4 DEF TypeInv
  <2> QED
    BY <1>1, <1>2, <2>1, HeadTaken
<1>6. l \in Serving
  BY <1>3, NamesAssumption DEF PlaceInv
<1>7. /\ state' \in [Conns -> States] /\ shard' \in [Loops -> SUBSET Conns]
      /\ load' \in [Loops -> 0..Cardinality(Conns)] /\ total' \in 0..(Wrap - 1)
      /\ strayed' \in BOOLEAN /\ cleared' = cleared
      /\ CountInv' /\ FindShardFinds'
  BY <1>2, <1>3, <1>6, Added
<1>8. TypeInv'
  BY <1>2, <1>3, <1>7 DEF TypeInv
<1>9. PlaceInv'
  BY <1>2, <1>3, <1>4, <1>6, NamesAssumption DEF TypeInv, PlaceInv, Serving
<1>10. SignalInv' /\ StopInv'
  BY <1>2, <1>7, SignalsTaken DEF StopInv, SignalOps
<1> QED
  BY <1>5, <1>7, <1>8, <1>9, <1>10

-----------------------------------------------------------------------------
(* Connections end                                                           *)

LEMMA RemoveInv ==
    ASSUME IInv, NEW l \in Loops, NEW S \in SUBSET LiveOn(l), Remove(l, S), Runs(l),
           UNCHANGED <<serverVars, loopOf, stopVars>>,
           tasks' = tasks \/ Take(l, "close")
    PROVE  IInv'
<1> USE DEF IInv
<1>1. UNCHANGED <<running, acceptor, accepting, ready, loopOf, pool, stopBy, pc, todo, exited>>
  BY DEF serverVars, stopVars
<1>2. /\ state' \in [Conns -> States] /\ shard' \in [Loops -> SUBSET Conns]
      /\ load' \in [Loops -> 0..Cardinality(Conns)] /\ total' \in 0..(Wrap - 1)
      /\ strayed' \in BOOLEAN /\ cleared' = cleared
      /\ CountInv' /\ FindShardFinds'
  BY <1>1, Removed
<1>3. /\ \A c \in Conns : state[c] = "accepted" => state'[c] = "accepted"
      /\ \A c \in Conns : state'[c] \in Live => state[c] \in Live
      /\ \A c \in Conns : state'[c] = "none" => state[c] = "none"
  BY <1>1, Ended DEF Remove
<1>4. tasks' \in [Loops -> Seq(Task)] /\ QueueInv' /\ SignalInv'
  <2>1. CASE tasks' = tasks
    BY <1>1, <1>3, <2>1, QueuesKept, SignalsKept DEF TypeInv
  <2>2. CASE Take(l, "close")
    BY <1>1, <1>3, <2>2, HeadTaken, SignalsTaken DEF SignalOps
  <2> QED
    BY <2>1, <2>2
<1>5. TypeInv'
  BY <1>1, <1>2, <1>4 DEF TypeInv
<1>6. PlaceInv'
  BY <1>1, <1>3 DEF TypeInv, PlaceInv, Serving
<1>7. StopInv'
  BY <1>1, <1>2 DEF StopInv
<1> QED
  BY <1>2, <1>4, <1>5, <1>6, <1>7

LEMMA PeerClosesInv == ASSUME IInv, NEW c \in Conns, PeerCloses(c) PROVE IInv'
<1>1. loopOf[c] \in Loops /\ {c} \in SUBSET LiveOn(loopOf[c])
  BY DEF IInv, TypeInv, PlaceInv, PeerCloses, LiveOn
<1> QED
  BY <1>1, RemoveInv DEF PeerCloses

LEMMA CloseTaskInv == ASSUME IInv, NEW l \in Loops, CloseTask(l) PROVE IInv'
<1>1. PICK c : c = Head(tasks[l]).conn
  OBVIOUS
<1>2. Take(l, "close") /\ loopOf[c] = l
  BY <1>1, HeadTaken DEF IInv, CloseTask
<1>3. PICK S : S = {c} \cap {d \in Conns : state[d] \in Live}
  OBVIOUS
<1>4. S \in SUBSET LiveOn(l)
  BY <1>2, <1>3 DEF LiveOn
<1>5. Remove(l, S) /\ Runs(l) /\ UNCHANGED <<serverVars, loopOf, stopVars>>
  BY <1>1, <1>3 DEF CloseTask, Take
<1> QED
  BY <1>2, <1>4, <1>5, RemoveInv

LEMMA ClosableLive ==
    ASSUME IInv, ~cleared, NEW l \in Loops
    PROVE  Closable(l) \subseteq LiveOn(l)
  BY DEF IInv, CountInv, Closable

LEMMA IdleCheckInv == ASSUME IInv, NEW l \in Loops, IdleCheck(l) PROVE IInv'
<1>1. ~cleared
  BY DEF IInv, StopInv, IdleCheck
<1>2. PICK S \in SUBSET Closable(l) : Remove(l, S)
  BY DEF IdleCheck
<1>3. S \in SUBSET LiveOn(l)
  BY <1>1, ClosableLive
<1> QED
  BY <1>2, <1>3, RemoveInv DEF IdleCheck

LEMMA UserCallsInv == ASSUME IInv, NEW c \in Conns, UserCalls(c) PROVE IInv'
<1> USE DEF IInv
<1>1. /\ state[c] = "connected" /\ state' = [state EXCEPT ![c] = "disconnecting"]
      /\ UNCHANGED <<running, acceptor, accepting, ready, loopOf, shard, cleared, total, load,
                     strayed, pool, stopBy, pc, todo, exited>>
  BY DEF UserCalls, serverVars, shardVars, stopVars
<1>2. /\ \A d \in Conns : state[d] = "accepted" => state'[d] = "accepted"
      /\ \A d \in Conns : state'[d] \in Live <=> state[d] \in Live
      /\ \A d \in Conns : state'[d] = "none" => state[d] = "none"
      /\ state' \in [Conns -> States]
  BY <1>1 DEF TypeInv, Live, States
<1>3. tasks' \in [Loops -> Seq(Task)] /\ QueueInv' /\ SignalInv'
  <2>1. CASE tasks' = tasks
    BY <1>1, <1>2, <2>1, QueuesKept, SignalsKept DEF TypeInv
  <2>2. CASE Post(loopOf[c], [op |-> "close", conn |-> c])
    <3>1. PICK t : t = [op |-> "close", conn |-> c]
      OBVIOUS
    <3>2. t \in Task /\ t.op = "close" /\ t.conn = c /\ t.op \notin SignalOps
      BY <3>1 DEF Task, SignalOps
    <3>3. loopOf[c] \in Loops
      BY <1>1 DEF TypeInv, PlaceInv, Live
    <3> QED
      BY <1>1, <1>2, <2>2, <3>1, <3>2, <3>3, TaskPosted, SignalsPosted
  <2> QED
    BY <2>1, <2>2 DEF UserCalls
<1>4. TypeInv'
  BY SMTT(60), <1>1, <1>2, <1>3 DEF TypeInv
<1>5. PlaceInv'
  BY <1>1, <1>2 DEF TypeInv, PlaceInv, Serving
<1>6. StopInv' /\ FindShardFinds'
  BY <1>1 DEF StopInv, FindShardFinds
<1>7. LiveConns' = LiveConns /\ \A l : LiveOn(l)' = LiveOn(l)
  BY <1>1, <1>2 DEF LiveConns, LiveOn
<1>8. CountInv'
  BY <1>1, <1>7 DEF CountInv
<1> QED
  BY <1>3, <1>4, <1>5, <1>6, <1>8

-----------------------------------------------------------------------------
(* stop()                                                                    *)

\* Steps that touch no connection and no counter.
LEMMA ServerKept ==
    ASSUME IInv, UNCHANGED <<ready, state, loopOf, shard, cleared, load, strayed, pool>>,
           running' => running /\ total' = total
    PROVE  PlaceInv' /\ CountInv' /\ FindShardFinds'
<1>1. LiveConns' = LiveConns /\ \A l : LiveOn(l)' = LiveOn(l)
  BY DEF LiveConns, LiveOn
<1> QED
  BY <1>1 DEF IInv, PlaceInv, Serving, CountInv, FindShardFinds

LEMMA StopBeginInv == ASSUME IInv, NEW t \in Stoppers, StopBegin(t) PROVE IInv'
<1> USE DEF IInv
<1>1. /\ running /\ running' = FALSE /\ stopBy' = t
      /\ UNCHANGED <<accepting, ready, state, loopOf, shard, cleared, total, load, strayed,
                     pool, todo, exited>>
  BY DEF StopBegin, connVars, shardVars
<1>2. pc = "idle" /\ ~cleared /\ Signalled = {}
  BY <1>1 DEF StopInv, SignalInv
<1>3. PlaceInv' /\ CountInv' /\ FindShardFinds'
  BY <1>1, ServerKept
<1>4. /\ acceptor' \in {"open", "closed"} /\ pc' \in {"shards", "wait"}
      /\ tasks' \in [Loops -> Seq(Task)] /\ QueueInv' /\ SignalInv'
  <2>1. CASE tasks' = tasks /\ acceptor' = "closed" /\ pc' = "shards"
    BY <1>1, <1>2, <2>1, QueuesKept, SignalsKept DEF TypeInv
  <2>2. CASE Post(Base, [op |-> "acceptor"]) /\ pc' = "wait" /\ acceptor' = acceptor
    <3>1. PICK s : s = [op |-> "acceptor"]
      OBVIOUS
    <3>2. s \in Task /\ s.op = "acceptor" /\ Base \in Loops
      BY <3>1 DEF Task, SignalOps, Loops
    <3>3. Post(Base, s)
      BY <2>2, <3>1
    <3>4. tasks' \in [Loops -> Seq(Task)] /\ QueueInv'
      BY <1>1, <3>2, <3>3, TaskPosted
    <3>5. SignalInv'
      BY <1>2, <2>2, <3>2, <3>3, SignalsPosted
    <3> QED
      BY <2>2, <3>4, <3>5 DEF TypeInv
  <2> QED
    BY <2>1, <2>2 DEF StopBegin
<1>5. TypeInv'
  <2>1. pc' \in {"idle", "wait", "shards", "join", "done"} /\ stopBy' \in Stoppers \cup {None}
    BY <1>1, <1>4
  <2> QED
    BY <1>1, <1>4, <2>1 DEF TypeInv
<1>6. StopInv'
  BY <1>1, <1>2 DEF StopInv
<1> QED
  BY <1>3, <1>4, <1>5, <1>6

LEMMA StopAcceptorTaskInv == ASSUME IInv, StopAcceptorTask PROVE IInv'
<1> USE DEF IInv
<1>1. /\ Take(Base, "acceptor") /\ acceptor' = "closed" /\ pc' = "shards" /\ Base \in Loops
      /\ UNCHANGED <<running, accepting, ready, state, loopOf, shard, cleared, total, load,
                     strayed, pool, stopBy, todo, exited>>
  BY DEF StopAcceptorTask, connVars, shardVars, Loops
<1>2. pc = "wait" /\ SignalInv'
  BY <1>1, SignalsTaken DEF SignalOps
<1>3. tasks' \in [Loops -> Seq(Task)] /\ QueueInv'
  BY <1>1, HeadTaken
<1>4. PlaceInv' /\ CountInv' /\ FindShardFinds'
  BY <1>1, ServerKept
<1>5. TypeInv' /\ StopInv'
  BY <1>1, <1>2, <1>3 DEF TypeInv, StopInv
<1> QED
  BY <1>2, <1>3, <1>4, <1>5

\* forEachConnection of a shard: what is closed is closed, the shard is empty.
LEMMA ShardClosed ==
    ASSUME IInv, NEW l \in Loops, CloseShard(l), pc \in {"shards", "wait"}, loopOf' = loopOf,
           UNCHANGED <<running, pool, ready>>
    PROVE  /\ state' \in [Conns -> States] /\ shard' \in [Loops -> SUBSET Conns]
           /\ load' \in [Loops -> 0..Cardinality(Conns)] /\ total' \in 0..(Wrap - 1)
           /\ todo' \subseteq Loops /\ UNCHANGED <<strayed, cleared>>
           /\ \A c \in Conns : state[c] = "accepted" => state'[c] = "accepted"
           /\ ~cleared /\ ~running /\ PlaceInv' /\ CountInv' /\ FindShardFinds'
<1> USE DEF IInv
<1>1. ~cleared /\ ~running
  BY DEF StopInv
<1>2. PICK S : S = Closable(l)
  OBVIOUS
<1>3. S \in SUBSET LiveOn(l)
  BY <1>1, <1>2, ClosableLive
<1>4. /\ state' = [c \in Conns |-> IF c \in S THEN "disconnected" ELSE state[c]]
      /\ shard' = [shard EXCEPT ![l] = {}] /\ total' = (total - Cardinality(S)) % Wrap
      /\ load' = [load EXCEPT ![l] = @ - Cardinality(S)] /\ todo' = todo \ {l}
      /\ UNCHANGED <<cleared, strayed>>
  BY <1>2 DEF CloseShard
<1>5. /\ state' \in [Conns -> States]
      /\ \A c \in Conns : state[c] = "accepted" => state'[c] = "accepted"
      /\ \A c \in Conns : state'[c] \in Live => state[c] \in Live
      /\ \A c \in Conns : state'[c] = "none" => state[c] = "none"
      /\ \A m \in Loops : m # l => LiveOn(m)' = LiveOn(m)
      /\ Cardinality(S) \in Nat
      /\ Cardinality(LiveOn(l)') = Cardinality(LiveOn(l)) - Cardinality(S)
      /\ Cardinality(LiveOn(l)') \in 0..Cardinality(Conns)
  BY SMTT(60), <1>3, <1>4, Ended
<1>6. load[l] = Cardinality(LiveOn(l)) /\ load'[l] = Cardinality(LiveOn(l)')
  BY <1>1, <1>4, <1>5 DEF CountInv, TypeInv
<1>7. load' \in [Loops -> 0..Cardinality(Conns)] /\ shard' \in [Loops -> SUBSET Conns]
  BY <1>4, <1>5, <1>6 DEF TypeInv
<1>8. total' \in 0..(Wrap - 1)
  <2>1. total - Cardinality(S) \in Int /\ Wrap \in Nat /\ Wrap > 0
    BY SMTT(60), <1>5, LiveFinite, WrapAssumption DEF TypeInv
  <2> QED
    BY <1>4, <2>1, Unsigned
<1>9. ASSUME NEW m \in Loops
      PROVE  shard'[m] \subseteq LiveOn(m)' /\ load'[m] = Cardinality(LiveOn(m)')
  <2>1. CASE m = l
    BY <1>4, <1>6, <2>1 DEF TypeInv
  <2>2. CASE m # l
    BY SMTT(60), <1>1, <1>4, <1>5, <2>2 DEF CountInv, TypeInv
  <2> QED
    BY <2>1, <2>2
<1>10. CountInv'
  BY <1>1, <1>9 DEF CountInv
<1>11. PlaceInv'
  BY <1>5 DEF TypeInv, PlaceInv, Serving
<1> QED
  BY <1>1, <1>4, <1>5, <1>7, <1>8, <1>10, <1>11 DEF TypeInv, FindShardFinds

LEMMA StopShardInv == ASSUME IInv, StopShard PROVE IInv'
<1> USE DEF IInv
<1>1. /\ pc = "shards"
      /\ UNCHANGED <<running, acceptor, accepting, ready, loopOf, pool, stopBy, exited>>
  BY DEF StopShard, serverVars
<1>2. PICK l \in Loops :
         \/ CloseShard(l) /\ UNCHANGED <<tasks, pc>>
         \/ Post(l, [op |-> "shard"]) /\ pc' = "wait" /\ UNCHANGED <<state, shardVars, todo>>
  BY DEF StopShard, TypeInv, Loops
<1>3. ~cleared /\ ~running /\ Signalled = {}
  BY <1>1 DEF StopInv, SignalInv
<1>4. CASE CloseShard(l) /\ UNCHANGED <<tasks, pc>>
  <2>1. /\ state' \in [Conns -> States] /\ shard' \in [Loops -> SUBSET Conns]
        /\ load' \in [Loops -> 0..Cardinality(Conns)] /\ total' \in 0..(Wrap - 1)
        /\ todo' \subseteq Loops /\ UNCHANGED <<strayed, cleared>>
        /\ \A c \in Conns : state[c] = "accepted" => state'[c] = "accepted"
        /\ PlaceInv' /\ CountInv' /\ FindShardFinds'
    BY <1>1, <1>4, ShardClosed
  <2>2. QueueInv' /\ SignalInv'
    BY <1>1, <1>4, <2>1, QueuesKept, SignalsKept
  <2>3. TypeInv' /\ StopInv'
    BY <1>1, <1>3, <1>4, <2>1 DEF TypeInv, StopInv
  <2> QED
    BY <2>1, <2>2, <2>3
<1>5. CASE Post(l, [op |-> "shard"]) /\ pc' = "wait" /\ UNCHANGED <<state, shardVars, todo>>
  <2>1. UNCHANGED <<state, shard, cleared, total, load, strayed, todo>>
    BY <1>5 DEF shardVars
  <2>2. PICK s : s = [op |-> "shard"]
    OBVIOUS
  <2>3. s \in Task /\ s.op = "shard"
    BY <2>2 DEF Task, SignalOps
  <2>4. tasks' \in [Loops -> Seq(Task)] /\ QueueInv' /\ SignalInv'
    BY <1>1, <1>3, <1>5, <2>1, <2>2, <2>3, TaskPosted, SignalsPosted
  <2>5. PlaceInv' /\ CountInv' /\ FindShardFinds'
    BY <1>1, <2>1, ServerKept
  <2>6. TypeInv' /\ StopInv'
    BY <1>1, <1>3, <1>5, <2>1, <2>4 DEF TypeInv, StopInv
  <2> QED
    BY <2>4, <2>5, <2>6
<1> QED
  BY <1>2, <1>4, <1>5

LEMMA StopShardTaskInv == ASSUME IInv, NEW l \in Loops, StopShardTask(l) PROVE IInv'
<1> USE DEF IInv
<1>1. /\ Take(l, "shard") /\ CloseShard(l) /\ pc' = "shards"
      /\ UNCHANGED <<running, acceptor, accepting, ready, loopOf, pool, stopBy, exited>>
  BY DEF StopShardTask, serverVars
<1>2. pc = "wait" /\ SignalInv'
  BY <1>1, SignalsTaken DEF SignalOps
<1>3. /\ state' \in [Conns -> States] /\ shard' \in [Loops -> SUBSET Conns]
      /\ load' \in [Loops -> 0..Cardinality(Conns)] /\ total' \in 0..(Wrap - 1)
      /\ todo' \subseteq Loops /\ UNCHANGED <<strayed, cleared>>
      /\ \A c \in Conns : state[c] = "accepted" => state'[c] = "accepted"
      /\ ~cleared /\ ~running /\ PlaceInv' /\ CountInv' /\ FindShardFinds'
  BY <1>1, <1>2, ShardClosed
<1>4. tasks' \in [Loops -> Seq(Task)] /\ QueueInv'
  BY <1>1, <1>3, HeadTaken
<1>5. TypeInv' /\ StopInv'
  BY <1>1, <1>3, <1>4 DEF TypeInv, StopInv
<1> QED
  BY <1>2, <1>3, <1>4, <1>5

LEMMA StopEndInv ==
    ASSUME IInv, StopPool \/ StopClear \/ AcceptAborted \/ \E l \in Loops : Exit(l)
    PROVE  IInv'
<1> USE DEF IInv
<1>1. /\ UNCHANGED <<running, acceptor, ready, state, loopOf, tasks, load, strayed, pool, stopBy, todo>>
      /\ \/ /\ pc = "shards" /\ total' = 0 /\ pc' = "join"
            /\ UNCHANGED <<accepting, shard, cleared, exited>>
         \/ /\ pc = "join" /\ exited = pool /\ cleared' = TRUE /\ shard' = [l \in Loops |-> {}]
            /\ pc' = "done" /\ UNCHANGED <<accepting, total, exited>>
         \/ accepting' = FALSE /\ UNCHANGED <<shard, cleared, total, pc, exited>>
         \/ /\ pc = "join" /\ pc' = pc /\ exited \subseteq exited' /\ exited' \subseteq exited \cup pool
            /\ UNCHANGED <<accepting, shard, cleared, total>>
  BY DEF StopPool, StopClear, AcceptAborted, Exit, serverVars, connVars, shardVars, stopVars
<1>2. TypeInv'
  <2>1. 0 \in 0..(Wrap - 1)
    BY SMTT(60), LiveFinite, WrapAssumption
  <2>2. total' \in 0..(Wrap - 1) /\ accepting' \in BOOLEAN /\ cleared' \in BOOLEAN
    BY <1>1, <2>1 DEF TypeInv
  <2>3. shard' \in [Loops -> SUBSET Conns]
    BY <1>1 DEF TypeInv
  <2>4. exited' \subseteq IoLoops /\ pc' \in {"idle", "wait", "shards", "join", "done"}
    BY <1>1 DEF TypeInv
  <2> QED
    BY <1>1, <2>2, <2>3, <2>4 DEF TypeInv
<1>3. StopInv'
  BY SMTT(60), <1>1 DEF StopInv
<1>4. QueueInv' /\ SignalInv'
  BY <1>1, QueuesKept, SignalsKept DEF SignalInv
<1>5. LiveConns' = LiveConns /\ \A l : LiveOn(l)' = LiveOn(l)
  BY <1>1 DEF LiveConns, LiveOn
<1>6. CountInv'
  BY <1>1, <1>5 DEF CountInv, StopInv
<1>7. PlaceInv' /\ FindShardFinds'
  BY <1>1 DEF PlaceInv, Serving, FindShardFinds
<1> QED
  BY <1>2, <1>3, <1>4, <1>6, <1>7

-----------------------------------------------------------------------------
(* The theorem                                                               *)

LEMMA InitInv == Init => IInv
<1> SUFFICES ASSUME Init PROVE IInv
  OBVIOUS
<1> USE DEF Init
<1>1. LiveConns = {} /\ \A l : LiveOn(l) = {}
  BY DEF LiveConns, LiveOn, Live
<1>2. \A l \in Loops : Len(tasks[l]) = 0 /\ Signals(tasks[l]) = {}
  BY SMTT(60) DEF Signals
<1>3. TypeInv
  <2>1. 0 \in 0..(Wrap - 1) /\ 0 \in 0..Cardinality(Conns)
    BY SMTT(60), LiveFinite, WrapAssumption
  <2>2. /\ state \in [Conns -> States] /\ loopOf \in [Conns -> Loops \cup {None}]
        /\ tasks \in [Loops -> Seq(Task)] /\ shard \in [Loops -> SUBSET Conns]
        /\ load \in [Loops -> 0..Cardinality(Conns)]
    BY SMTT(60), <2>1 DEF States
  <2>3. todo \subseteq Loops /\ exited \subseteq IoLoops
    BY DEF Loops
  <2>4. total \in 0..(Wrap - 1) /\ pc \in {"idle", "wait", "shards", "join", "done"}
    BY <2>1
  <2> QED
    BY <2>2, <2>3, <2>4 DEF TypeInv
<1>4. PlaceInv /\ StopInv /\ FindShardFinds
  BY DEF PlaceInv, StopInv, FindShardFinds, Live
<1>5. QueueInv /\ SignalInv
  BY SMTT(60), <1>2 DEF QueueInv, Fine, Once, SignalInv, Signalled
<1>6. CountInv
  <2>1. Cardinality({}) = 0
    BY FS_EmptySet
  <2>2. \A l \in Loops : shard[l] = {} /\ load[l] = 0
    OBVIOUS
  <2> QED
    BY <1>1, <2>1, <2>2 DEF CountInv
<1> QED
  BY <1>3, <1>4, <1>5, <1>6 DEF IInv

LEMMA StepInv == IInv /\ [Next]_vars => IInv'
<1> SUFFICES ASSUME IInv, [Next]_vars PROVE IInv'
  OBVIOUS
<1>1. CASE BaseStep
  BY <1>1, AcceptedInv, StopEndInv, StopAcceptorTaskInv DEF BaseStep
<1>2. ASSUME NEW l \in Loops, LoopStep(l) \/ IdleCheck(l) PROVE IInv'
  BY <1>2, AddTaskInv, CloseTaskInv, StopShardTaskInv, StopEndInv, IdleCheckInv DEF LoopStep
<1>3. ASSUME NEW c \in Conns, Arrive(c) \/ PeerCloses(c) \/ UserCalls(c) PROVE IInv'
  BY <1>3, ArriveInv, PeerClosesInv, UserCallsInv
<1>4. ASSUME NEW t \in Stoppers, StopBegin(t) PROVE IInv'
  BY <1>4, StopBeginInv
<1>5. CASE StopStep
  BY <1>5, StopShardInv, StopEndInv DEF StopStep
<1>6. CASE UNCHANGED vars
  <2>1. UNCHANGED <<running, acceptor, accepting, ready, state, loopOf, tasks, shard, cleared, total,
                    load, strayed, pool, stopBy, pc, todo, exited>>
    BY <1>6 DEF vars, serverVars, connVars, shardVars, stopVars
  <2>2. PlaceInv' /\ CountInv' /\ FindShardFinds'
    BY <2>1, ServerKept
  <2>3. QueueInv' /\ SignalInv'
    BY <2>1, QueuesKept, SignalsKept DEF IInv
  <2>4. TypeInv' /\ StopInv'
    BY <2>1 DEF IInv, TypeInv, StopInv
  <2> QED
    BY <2>2, <2>3, <2>4 DEF IInv
<1> QED
  BY <1>1, <1>2, <1>3, <1>4, <1>5, <1>6 DEF Next

LEMMA InvImplies == IInv => ShardsSound
<1> SUFFICES ASSUME IInv PROVE ShardsSound
  OBVIOUS
<1>1. TypeOK
  <2>1. \A l \in Loops : \A i \in 1..Len(tasks[l]) : tasks[l][i].op \in {"add", "close", "acceptor", "shard"}
    <3> TAKE l \in Loops
    <3>1. tasks[l] \in Seq(Task)
      BY DEF IInv, TypeInv
    <3> QED
      BY <3>1, QueueTypes
  <2> QED
    BY <2>1 DEF IInv, TypeInv, TypeOK, States
<1>2. Registered
  <2> SUFFICES ASSUME running PROVE Registered
    BY DEF Registered
  <2>1. ~cleared
    BY DEF IInv, StopInv
  <2>2. \A l \in Loops : shard[l] = LiveOn(l) /\ load[l] = Cardinality(LiveOn(l))
    BY <2>1 DEF IInv, CountInv
  <2>3. total = Cardinality(LiveConns)
    BY DEF IInv, CountInv
  <2> QED
    BY <2>2, <2>3 DEF Registered, LiveOn, LiveConns
<1> QED
  BY <1>1, <1>2 DEF IInv, ShardsSound

\* Until stop() every shard and both counters agree with the live connections, the
\* counters never leave their range, and with a pool no loop ever looks for its
\* shard after shards_ was cleared: for any connections, loops and stopping threads
\* (addConnection, removeConnection, stop, findShard).
THEOREM ShardsAgree == Spec => []ShardsSound
<1>1. Spec => []IInv
  BY InitInv, StepInv, PTL DEF Spec
<1> QED
  BY <1>1, InvImplies, PTL
=============================================================================
