-------------------------- MODULE WriteQueueProofs --------------------------
(* Two writeLoop() coroutines never write to one socket, for any number of   *)
(* producers, of sends and any size of a batch.  The argument is about who   *)
(* owns writing_: it is set exactly while one coroutine, spawned or running, *)
(* drains and writes; a coroutine that has given it up (and looks once more, *)
(* or purges) owns nothing, whatever others have started meanwhile.          *)
EXTENDS WriteQueue, SeqFacts, FiniteSetTheorems, TLAPS

\* The time a leaf may take.
USE ZenonT(60)

\* writeLoop() runs and has not given writing_ up.
Owns ==
    \/ loop \in {"pop", "poptail", "popstub", "poplink"} /\ goal = "drain"
    \/ loop \in {"drained", "write", "failed"}

\* writing_ has exactly one owner, or is clear and has none.
OwnerInv ==
    /\ writing \in BOOLEAN
    /\ spawned = IF writing /\ ~Owns THEN 1 ELSE 0
    /\ Owns => writing
    /\ loop \in {"drained", "write", "failed"} => goal = "drain"
    /\ loop \in {"again", "againlink", "restart"} => goal = "recheck"

LEMMA SendKeeps ==
    ASSUME OwnerInv, NEW p \in Producers, Send(p) \/ Push(p)
    PROVE  OwnerInv'
<1>1. CASE Start(p)
  BY SMTT(60), <1>1 DEF OwnerInv, Owns, Start, TryStartWrite, popVars
<1>2. CASE Send(p) \/ Count(p) \/ Exchange(p) \/ Link(p)
  BY SMTT(60), <1>2 DEF OwnerInv, Owns, Send, Count, Exchange, Link, popVars
<1> QED
  BY <1>1, <1>2 DEF Push

\* A pop stays the owner's, or ends in a state where the owner decides.
LEMMA PopKeeps == ASSUME OwnerInv, PopStep PROVE OwnerInv'
<1>1. /\ loop \in {"pop", "poptail", "popstub", "poplink"}
      /\ UNCHANGED <<writing, goal, spawned>>
      /\ \/ loop' \in {"pop", "poptail", "popstub", "poplink"}
         \/ goal = "drain" /\ loop' = "drained"
         \/ goal = "recheck" /\ loop' = "again"
         \/ goal # "drain" /\ loop' = "off"
  <2>1. CASE PopHead
    BY <2>1 DEF PopHead, Popped, PoppedNothing
  <2>2. CASE PopTail
    BY <2>2 DEF PopTail, PoppedNothing
  <2>3. CASE PopStubExchange
    BY <2>3 DEF PopStubExchange
  <2>4. CASE PopStubLink
    BY <2>4 DEF PopStubLink, Popped, PoppedNothing
  <2> QED
    BY <2>1, <2>2, <2>3, <2>4 DEF PopStep
<1> QED
  BY <1>1 DEF OwnerInv, Owns

LEMMA WriteLoopKeeps == ASSUME OwnerInv, WriteLoop PROVE OwnerInv'
<1>1. CASE PopStep
  BY <1>1, PopKeeps
<1>2. CASE LoopStart
  BY SMTT(60), <1>2 DEF OwnerInv, Owns, LoopStart
<1>3. CASE GiveUp
  BY <1>3 DEF OwnerInv, Owns, GiveUp
<1>4. CASE PushBackExchange \/ PushBackLink
  BY SMTT(60), <1>4 DEF OwnerInv, Owns, PushBackExchange, PushBackLink
<1>5. CASE Restart
  BY SMTT(60), <1>5 DEF OwnerInv, Owns, Restart, TryStartWrite, popVars
<1>6. CASE BeginWrite \/ WriteFails
  BY <1>6 DEF OwnerInv, Owns, BeginWrite, WriteFails, popVars
<1>7. CASE WriteOk
  <2>1. loop = "write" /\ loop' \in {"pop", "write"} /\ goal' = "drain" /\ UNCHANGED <<writing, spawned>>
    BY <1>7 DEF WriteOk
  <2> QED
    BY <2>1 DEF OwnerInv, Owns
<1>8. CASE FailedReset
  BY <1>8 DEF OwnerInv, Owns, FailedReset
<1> QED
  BY <1>1, <1>2, <1>3, <1>4, <1>5, <1>6, <1>7, <1>8 DEF WriteLoop

LEMMA OwnerKept == ASSUME OwnerInv, [Next]_vars PROVE OwnerInv'
<1>1. CASE UNCHANGED vars
  BY <1>1 DEF OwnerInv, Owns, vars, popVars
<1>2. CASE WriteLoop
  BY <1>2, WriteLoopKeeps
<1>3. CASE \E p \in Producers : Send(p) \/ Push(p)
  BY <1>3, SendKeeps
<1> QED
  BY <1>1, <1>2, <1>3 DEF Next

\* While one writeLoop() drains or is suspended in async_write no other is spawned, for
\* every number of producers and messages: writing_ has one owner.
THEOREM OneWriter == Spec => []SingleWriter
<1>1. Init => OwnerInv
  BY DEF Init, OwnerInv, Owns
<1>2. OwnerInv /\ [Next]_vars => OwnerInv'
  BY OwnerKept
<1>3. OwnerInv => SingleWriter
  BY SMTT(60) DEF OwnerInv, Owns, SingleWriter
<1> QED
  BY <1>1, <1>2, <1>3, PTL DEF Spec

-----------------------------------------------------------------------------
(* What Delivered needs: the queue, as a sequence of its nodes.              *)

\* nx links the nodes of q from h to t, but for the pairs of P, whose push has exchanged
\* tail_ and not yet stored prev->next.
Chain(q, h, t, nx, P) ==
    /\ q \in Seq(Nodes) /\ q # <<>>
    /\ \A i, j \in 1..Len(q) : q[i] = q[j] => i = j
    /\ q[1] = h /\ q[Len(q)] = t /\ nx[t] = Null
    /\ \A i \in 1..Len(q) - 1 : nx[q[i]] = IF <<q[i], q[i + 1]>> \in P THEN Null ELSE q[i + 1]
    /\ \A e \in P : \E i \in 1..Len(q) - 1 : e = <<q[i], q[i + 1]>>

At(at) == {p \in Producers : pc[p] \in at}

\* The links still to be stored: each pusher's, and the one of writeLoop() itself.
LoopPending ==
    IF loop = "poplink" THEN {<<cur, Stub>>}
    ELSE IF loop = "againlink" THEN {<<cur, back>>} ELSE {}

PushPending == {<<prev[p], Mine(p)>> : p \in At({"link"})}

Pending == PushPending \cup LoopPending

\* acc is divided into five parts.
Split(acc, A, B, C, D, E) ==
    /\ acc = A \cup B \cup C \cup D \cup E
    /\ A \cap B = {} /\ A \cap C = {} /\ A \cap D = {} /\ A \cap E = {}
    /\ B \cap C = {} /\ B \cap D = {} /\ B \cap E = {}
    /\ C \cap D = {} /\ C \cap E = {} /\ D \cap E = {}

Unpushed == {Mine(p) : p \in At({"count", "exchange"})}

Held == IF loop = "again" THEN {back} ELSE {}

\* Where writeLoop() and the producers are, each on its own.
LocalInv ==
    /\ \A p \in Producers : pc[p] # "out" => sends[p] > 0
    /\ \A p \in Producers : pc[p] # "link" => prev[p] = Null
    /\ \A m \in accepted : m[2] <= sends[m[1]]
    /\ IsFiniteSet(At({"exchange"}))
    /\ loop \in {"poptail", "popstub"} => cur = head
    /\ loop \in {"poptail", "popstub", "poplink"} => head # Stub
    /\ loop \in {"again", "againlink"} => back \in Messages
    /\ loop = "againlink" => \A p \in At({"link"}) : Mine(p) # back
    /\ loop = "off" \/ goal # "drain" => batch = <<>>

WireInv ==
    /\ IsInjective(batch) /\ IsInjective(wire)
    /\ Range(wire) \subseteq freed
    /\ open => freed = Range(wire)
    /\ goal = "purge" \/ loop = "failed" => ~open

\* Every accepted message is in one place.
Placed(q) == Split(accepted, Unpushed, Range(q) \ {Stub}, Range(batch), Held, freed)

\* queuedBytes_ counts what is queued, drained and not yet being written, or held.
Mark(q) == IF Stub \in Range(q) THEN 1 ELSE 0
Drained == IF loop \in {"write", "failed"} THEN 0 ELSE Len(batch)
HeldCount == IF loop = "again" THEN 1 ELSE 0
Counted(q) == queued = Cardinality(At({"exchange"})) + Len(q) - Mark(q) + Drained + HeldCount

\* A loop that rests has left nothing behind that no pusher will start it for.
Rested(q) ==
    /\ loop = "popstub" => Stub \notin Range(q)
    /\ loop = "off" /\ ~writing => q = <<Stub>> \/ At({"link", "start"}) # {}
    /\ loop = "poptail" /\ ~writing => next[head] = Null \/ At({"link", "start"}) # {}

QueueInv(q) == Chain(q, head, tail, next, Pending) /\ Placed(q) /\ Counted(q) /\ Rested(q)

DeliveryInv == TypeOK /\ LocalInv /\ WireInv /\ \E q \in Seq(Nodes) : QueueInv(q)

IInv == OwnerInv /\ DeliveryInv

-----------------------------------------------------------------------------
(* The queue as a sequence: what push() and pop() do to it.                  *)

LEMMA NodeFacts ==
    Stub \in Nodes /\ Stub \notin Messages /\ Null \notin Nodes /\ Messages \subseteq Nodes
  BY SMTT(60), StubAssumption, BoundAssumption DEF Nodes, Messages

\* The exchange of tail_: n is the last node, its link still to be stored.
LEMMA ChainPush ==
    ASSUME NEW q, NEW h, NEW t, NEW nx \in [Nodes -> Nodes \cup {Null}], NEW P, NEW n \in Nodes,
           Chain(q, h, t, nx, P), n \notin Range(q)
    PROVE  Chain(Append(q, n), h, n, [nx EXCEPT ![n] = Null], P \cup {<<t, n>>})
<1> DEFINE r == Append(q, n)
           ny == [nx EXCEPT ![n] = Null]
<1>1. q \in Seq(Nodes) /\ Len(q) \in Nat \ {0}
  BY SMTT(60) DEF Chain
<1>2. r \in Seq(Nodes) /\ Len(r) = Len(q) + 1 /\ r[Len(q) + 1] = n
      /\ \A i \in 1..Len(q) : r[i] = q[i] /\ r[i] \in Nodes /\ r[i] # n
  BY SMTT(60), <1>1 DEF Range
<1> HIDE DEF r
<1>3. \A i, j \in 1..Len(r) : r[i] = r[j] => i = j
  BY SMTT(60), <1>1, <1>2 DEF Chain
<1>4. r # <<>> /\ r[1] = h /\ r[Len(r)] = n /\ ny[n] = Null
  BY SMTT(60), <1>1, <1>2 DEF Chain
<1>5. ASSUME NEW i \in 1..Len(r) - 1
      PROVE  ny[r[i]] = IF <<r[i], r[i + 1]>> \in P \cup {<<t, n>>} THEN Null ELSE r[i + 1]
  <2>1. i \in 1..Len(q) /\ ny[r[i]] = nx[q[i]] /\ r[i] = q[i]
    BY SMTT(60), <1>1, <1>2
  <2>2. CASE i = Len(q)
    BY <1>1, <1>2, <2>1, <2>2 DEF Chain
  <2>3. CASE i # Len(q)
    <3>1. i \in 1..Len(q) - 1 /\ r[i + 1] = q[i + 1] /\ q[i + 1] # n
      BY SMTT(60), <1>1, <1>2, <2>1, <2>3
    <3>2. nx[q[i]] = IF <<q[i], q[i + 1]>> \in P THEN Null ELSE q[i + 1]
      BY <3>1 DEF Chain
    <3>3. <<q[i], q[i + 1]>> # <<t, n>>
      BY <3>1
    <3> QED
      BY <2>1, <3>1, <3>2, <3>3
  <2> QED
    BY <2>2, <2>3
<1>6. ASSUME NEW e \in P \cup {<<t, n>>}
      PROVE  \E i \in 1..Len(r) - 1 : e = <<r[i], r[i + 1]>>
  <2>1. CASE e \in P
    <3>1. PICK i \in 1..Len(q) - 1 : e = <<q[i], q[i + 1]>>
      BY <2>1 DEF Chain
    <3>2. i \in 1..Len(r) - 1 /\ r[i] = q[i] /\ r[i + 1] = q[i + 1]
      BY SMTT(60), <1>1, <1>2, <3>1
    <3> QED
      BY <3>1, <3>2
  <2>2. CASE e = <<t, n>>
    <3>1. Len(q) \in 1..Len(r) - 1 /\ r[Len(q)] = t /\ r[Len(q) + 1] = n
      BY SMTT(60), <1>1, <1>2 DEF Chain
    <3> QED
      BY <2>2, <3>1
  <2> QED
    BY <2>1, <2>2
<1> HIDE DEF ny
<1>7. Chain(r, h, n, ny, P \cup {<<t, n>>})
  BY <1>2, <1>3, <1>4, <1>5, <1>6 DEF Chain
<1> QED
  BY <1>7 DEF r, ny

\* The link is stored.
LEMMA ChainLink ==
    ASSUME NEW q, NEW h, NEW t, NEW nx \in [Nodes -> Nodes \cup {Null}], NEW P, NEW a, NEW b,
           Chain(q, h, t, nx, P), <<a, b>> \in P
    PROVE  /\ Chain(q, h, t, [nx EXCEPT ![a] = b], P \ {<<a, b>>})
           /\ a \in Range(q) /\ b \in Range(q)
<1> DEFINE ny == [nx EXCEPT ![a] = b]
<1>1. q \in Seq(Nodes) /\ Len(q) \in Nat \ {0}
  BY SMTT(60) DEF Chain
<1>2. PICK k \in 1..Len(q) - 1 : a = q[k] /\ b = q[k + 1]
  BY DEF Chain
<1>3. k \in 1..Len(q) /\ k + 1 \in 1..Len(q) /\ q[k] \in Nodes /\ q[k] # t
  BY SMTT(60), <1>1, <1>2 DEF Chain
<1>4. ny[t] = Null
  BY SMTT(60), <1>1, <1>2, <1>3 DEF Chain
<1>5. ASSUME NEW i \in 1..Len(q) - 1
      PROVE  ny[q[i]] = IF <<q[i], q[i + 1]>> \in P \ {<<a, b>>} THEN Null ELSE q[i + 1]
  <2>1. i \in 1..Len(q) /\ q[i] \in Nodes
    BY SMTT(60), <1>1
  <2>2. CASE i = k
    BY <1>2, <1>3, <2>2
  <2>3. CASE i # k
    <3>1. q[i] # a
      BY <1>2, <1>3, <2>1, <2>3 DEF Chain
    <3> QED
      BY <2>1, <3>1 DEF Chain
  <2> QED
    BY <2>2, <2>3
<1>6. a \in Range(q) /\ b \in Range(q)
  BY SMTT(60), <1>1, <1>2, <1>3 DEF Range
<1> HIDE DEF ny
<1>7. Chain(q, h, t, ny, P \ {<<a, b>>})
  BY <1>4, <1>5 DEF Chain
<1> QED
  BY <1>6, <1>7 DEF ny

\* head_ moves on once its link is there.
LEMMA ChainPop ==
    ASSUME NEW q, NEW h, NEW t, NEW nx, NEW P, Chain(q, h, t, nx, P), nx[h] # Null
    PROVE  /\ Chain(Tail(q), nx[h], t, nx, P)
           /\ h \in Range(q) /\ Range(Tail(q)) = Range(q) \ {h} /\ Len(Tail(q)) = Len(q) - 1
<1> DEFINE r == Tail(q)
<1>1. q \in Seq(Nodes) /\ Len(q) \in Nat \ {0} /\ q[1] = h /\ Len(q) # 1
  BY SMTT(60) DEF Chain
<1>2. r \in Seq(Nodes) /\ Len(r) = Len(q) - 1 /\ \A i \in 1..Len(r) : r[i] = q[i + 1]
  BY SMTT(60), <1>1
<1>3. 1 \in 1..Len(q) - 1 /\ nx[h] = q[2] /\ <<q[1], q[2]>> \notin P
  BY SMTT(60), <1>1 DEF Chain
<1> HIDE DEF r
<1>4. \A i, j \in 1..Len(r) : r[i] = r[j] => i = j
  BY SMTT(60), <1>1, <1>2 DEF Chain
<1>5. r # <<>> /\ r[1] = nx[h] /\ r[Len(r)] = t /\ nx[t] = Null
  BY SMTT(60), <1>1, <1>2, <1>3 DEF Chain
<1>6. ASSUME NEW i \in 1..Len(r) - 1
      PROVE  nx[r[i]] = IF <<r[i], r[i + 1]>> \in P THEN Null ELSE r[i + 1]
  <2> DEFINE j == i + 1
  <2>1. j \in 1..Len(q) - 1 /\ r[i] = q[j] /\ r[i + 1] = q[j + 1]
    BY SMTT(60), <1>1, <1>2
  <2>2. nx[q[j]] = IF <<q[j], q[j + 1]>> \in P THEN Null ELSE q[j + 1]
    BY <2>1 DEF Chain
  <2> QED
    BY <2>1, <2>2
<1>7. ASSUME NEW e \in P PROVE \E i \in 1..Len(r) - 1 : e = <<r[i], r[i + 1]>>
  <2>1. PICK i \in 1..Len(q) - 1 : e = <<q[i], q[i + 1]>>
    BY DEF Chain
  <2>2. i # 1
    BY SMTT(60), <1>3, <2>1
  <2>3. i - 1 \in 1..Len(r) - 1 /\ i - 1 + 1 = i
    BY SMTT(60), <1>1, <1>2, <2>2
  <2>4. r[i - 1] = q[i] /\ r[i - 1 + 1] = q[i + 1]
    BY SMTT(60), <1>1, <1>2, <2>3
  <2> QED
    BY <2>1, <2>3, <2>4
<1>8. Range(r) = Range(q) \ {h} /\ h \in Range(q)
  <2>1. ASSUME NEW x \in Range(r) PROVE x \in Range(q) /\ x # h
    <3>1. PICK i \in 1..Len(r) : x = q[i + 1]
      BY SMTT(60), <1>2 DEF Range
    <3>2. i + 1 \in 1..Len(q) /\ 1 \in 1..Len(q) /\ i + 1 # 1
      BY SMTT(60), <1>1, <1>2
    <3> QED
      BY SMTT(60), <1>1, <3>1, <3>2 DEF Range, Chain
  <2>2. ASSUME NEW x \in Range(q), x # h PROVE x \in Range(r)
    <3>1. PICK i \in 1..Len(q) : x = q[i]
      BY SMTT(60), <1>1 DEF Range
    <3>2. i - 1 \in 1..Len(r) /\ r[i - 1] = x
      BY SMTT(60), <1>1, <1>2, <2>2, <3>1
    <3> QED
      BY SMTT(60), <1>2, <3>2 DEF Range
  <2>3. h \in Range(q)
    BY SMTT(60), <1>1 DEF Range
  <2> QED
    BY <2>1, <2>2, <2>3
<1>9. Chain(r, nx[h], t, nx, P)
  BY <1>2, <1>4, <1>5, <1>6, <1>7 DEF Chain
<1> QED
  BY <1>2, <1>8, <1>9 DEF r

LEMMA ChainLength ==
    ASSUME NEW q, NEW h, NEW t, NEW nx, NEW P, Chain(q, h, t, nx, P)
    PROVE  Len(q) \in Nat /\ (Len(q) = 1 \/ Len(q) >= 2)
<1>1. Len(q) \in Nat /\ Len(q) # 0
  BY SMTT(60) DEF Chain
<1>2. \A n \in Nat : n = 0 \/ n = 1 \/ n >= 2
  BY SMTT(60)
<1> QED
  BY <1>1, <1>2

\* A null link is the last node's, or a push is still to store it.
LEMMA ChainEnd ==
    ASSUME NEW q, NEW h, NEW t, NEW nx, NEW P, Chain(q, h, t, nx, P), nx[h] = Null
    PROVE  \/ q = <<h>> /\ h = t
           \/ h # t /\ \E b : <<h, b>> \in P
<1>1. q \in Seq(Nodes) /\ Len(q) \in Nat /\ Len(q) > 0 /\ q[1] = h
  BY SMTT(60) DEF Chain
<1>2. CASE Len(q) = 1
  <2>1. h = t
    BY <1>1, <1>2 DEF Chain
  <2>2. q = <<h>>
    BY SMTT(60), <1>1, <1>2
  <2> QED
    BY <2>1, <2>2
<1>3. CASE Len(q) >= 2
  <2>1. q[2] # Null /\ q[1] # q[Len(q)]
    BY SMTT(60), <1>1, <1>3, NodeFacts DEF Chain
  <2>2. <<q[1], q[1 + 1]>> \in P
    BY SMTT(60), <1>1, <1>3, <2>1 DEF Chain
  <2> QED
    BY <1>1, <2>1, <2>2 DEF Chain
<1> QED
  BY <1>2, <1>3, ChainLength

-----------------------------------------------------------------------------
(* The producers' steps.                                                     *)

LEMMA MineFacts ==
    ASSUME TypeOK, LocalInv, NEW p \in Producers, pc[p] # "out"
    PROVE  Mine(p) \in Messages /\ Mine(p) \in Nodes /\ Mine(p) # Stub
<1>1. sends[p] \in 1..MaxSends
  BY SMTT(60), BoundAssumption DEF TypeOK, LocalInv
<1> QED
  BY SMTT(60), <1>1, NodeFacts DEF Mine, Messages

LEMMA CountTypes ==
    ASSUME TypeOK, LocalInv, NEW q \in Seq(Nodes)
    PROVE  /\ Cardinality(At({"exchange"})) \in Nat /\ Len(q) \in Nat /\ Mark(q) \in {0, 1}
           /\ Drained \in Nat /\ HeldCount \in {0, 1} /\ Len(batch) \in Nat
  BY SMTT(60), FS_CardinalityType DEF TypeOK, LocalInv, Mark, Drained, HeldCount

LEMMA MineKept == ASSUME sends' = sends PROVE \A o : Mine(o)' = Mine(o)
  BY DEF Mine

LEMMA PushPendingKept ==
    ASSUME At({"link"})' = At({"link"}),
           \A o \in At({"link"}) : prev'[o] = prev[o] /\ Mine(o)' = Mine(o)
    PROVE  PushPending' = PushPending
  BY DEF PushPending

LEMMA SendStep == ASSUME IInv, NEW p \in Producers, Send(p) PROVE DeliveryInv'
<1> TypeOK /\ LocalInv /\ WireInv
  BY DEF IInv, DeliveryInv
<1>1. PICK q \in Seq(Nodes) : QueueInv(q)
  BY DEF IInv, DeliveryInv
<1> DEFINE n == <<p, sends[p] + 1>>
<1>2. /\ sends' = [sends EXCEPT ![p] = @ + 1] /\ sends[p] \in 0..MaxSends /\ sends[p] + 1 \in 1..MaxSends
      /\ n \in Messages
  BY SMTT(60), BoundAssumption DEF Send, TypeOK, Messages
<1>3. n \notin accepted
  BY SMTT(60), <1>2 DEF LocalInv
<1>4. \A r \in Producers \ {p} : Mine(r)' = Mine(r) /\ pc'[r] = pc[r]
  BY DEF Mine, Send, TypeOK
<1>5. Mine(p)' = n
  BY <1>2 DEF Mine, TypeOK
<1>6. pc[p] = "out" /\ pc'[p] \in {"out", "count"} /\ (pc'[p] = "count" <=> open)
      /\ accepted' = IF open THEN accepted \cup {n} ELSE accepted
  BY DEF Send, TypeOK
<1>7. pc' \in [Producers -> {"out", "count", "exchange", "link", "start"}]
  BY DEF Send, TypeOK
<1>8. /\ At({"link"})' = At({"link"}) /\ p \notin At({"link"})
      /\ At({"exchange"})' = At({"exchange"})
      /\ At({"link", "start"})' = At({"link", "start"})
  BY <1>4, <1>6, <1>7 DEF At, TypeOK
<1>9. At({"count", "exchange"})' = IF open THEN At({"count", "exchange"}) \cup {p} ELSE At({"count", "exchange"})
  BY <1>4, <1>6, <1>7 DEF At, TypeOK
<1>10. Pending' = Pending
  <2>1. LoopPending' = LoopPending /\ prev' = prev
    BY DEF LoopPending, Send, popVars
  <2>2. PushPending' = PushPending
    <3>1. \A o \in At({"link"}) : Mine(o)' = Mine(o)
      BY <1>4, <1>8 DEF At
    <3> QED
      BY <1>8, <2>1, <3>1, PushPendingKept
  <2> QED
    BY <2>1, <2>2 DEF Pending
<1>11. Unpushed' = IF open THEN Unpushed \cup {n} ELSE Unpushed
  BY <1>4, <1>5, <1>6, <1>9 DEF Unpushed, At
<1> HIDE DEF n
<1>12. QueueInv(q)'
  <2>1. Chain(q, head, tail, next, Pending)'
    BY <1>1, <1>10 DEF QueueInv, Send
  <2>2. Held' = Held
    BY DEF Held, Send, popVars
  <2>3. Placed(q)'
    BY SMTT(60), <1>1, <1>3, <1>6, <1>11, <2>2 DEF QueueInv, Placed, Split, Send
  <2>4. Counted(q)'
    BY <1>1, <1>8 DEF QueueInv, Counted, Mark, Drained, HeldCount, Send
  <2>5. Rested(q)'
    BY <1>1, <1>8 DEF QueueInv, Rested, Send
  <2> QED
    BY <2>1, <2>3, <2>4, <2>5 DEF QueueInv
<1>13. TypeOK'
  <2>1. sends' \in [Producers -> 0..MaxSends]
    BY SMTT(60), <1>2 DEF TypeOK
  <2>2. accepted' \subseteq Messages
    <3>1. accepted \subseteq Messages /\ n \in Messages
      BY <1>2 DEF TypeOK
    <3> QED
      BY <1>6, <3>1
  <2> QED
    BY <1>7, <2>1, <2>2 DEF TypeOK, Send, popVars
<1>14. LocalInv'
  <2>1. \A r \in Producers : pc'[r] # "out" => sends'[r] > 0
    BY SMTT(60), <1>2, <1>4, <1>6 DEF LocalInv, TypeOK
  <2>2. \A r \in Producers : pc'[r] # "link" => prev'[r] = Null
    BY <1>4, <1>6 DEF LocalInv, Send
  <2>3. \A m \in accepted' : m[2] <= sends'[m[1]]
    <3> SUFFICES ASSUME NEW m \in accepted' PROVE m[2] <= sends'[m[1]]
      OBVIOUS
    <3>1. CASE m = n
      BY SMTT(60), <1>2, <3>1 DEF n, TypeOK
    <3>2. CASE m \in accepted
      <4>1. m[1] \in Producers /\ m[2] \in Nat /\ m[2] <= sends[m[1]]
        BY SMTT(60), <3>2 DEF LocalInv, TypeOK, Messages
      <4> QED
        BY SMTT(60), <1>2, <4>1 DEF TypeOK
    <3> QED
      BY <1>6, <3>1, <3>2
  <2>4. loop' = "againlink" => \A r \in At({"link"})' : Mine(r)' # back'
    BY <1>4, <1>8 DEF LocalInv, Send, popVars, At
  <2> QED
    BY <1>8, <2>1, <2>2, <2>3, <2>4 DEF LocalInv, Send, popVars
<1>15. WireInv'
  BY DEF WireInv, Send, popVars
<1> QED
  BY <1>12, <1>13, <1>14, <1>15 DEF DeliveryInv

LEMMA CountStep == ASSUME IInv, NEW p \in Producers, Count(p) PROVE DeliveryInv'
<1> TypeOK /\ LocalInv /\ WireInv
  BY DEF IInv, DeliveryInv
<1>1. PICK q \in Seq(Nodes) : QueueInv(q)
  BY DEF IInv, DeliveryInv
<1>2. pc[p] = "count" /\ pc' = [pc EXCEPT ![p] = "exchange"] /\ \A r \in Producers : Mine(r)' = Mine(r)
  BY MineKept DEF Count
<1>3. /\ p \in At({"count", "exchange"}) /\ p \notin At({"exchange"})
      /\ p \notin At({"link", "start"}) /\ p \notin At({"link"})
  BY <1>2 DEF At
<1>4. /\ At({"count", "exchange"})' = At({"count", "exchange"})
      /\ At({"exchange"})' = At({"exchange"}) \cup {p}
      /\ At({"link", "start"})' = At({"link", "start"})
      /\ At({"link"})' = At({"link"})
  BY <1>2, <1>3 DEF At, TypeOK
<1>5. Pending' = Pending /\ Held' = Held
  <2>1. LoopPending' = LoopPending /\ Held' = Held /\ prev' = prev
    BY DEF LoopPending, Held, Count, popVars
  <2>2. PushPending' = PushPending
    <3>1. \A o \in At({"link"}) : Mine(o)' = Mine(o)
      BY <1>2 DEF At
    <3> QED
      BY <1>4, <2>1, <3>1, PushPendingKept
  <2> QED
    BY <2>1, <2>2 DEF Pending
<1>6. Unpushed' = Unpushed
  BY SMTT(60), <1>2, <1>4 DEF Unpushed, At
<1>7. /\ IsFiniteSet(At({"exchange"})') /\ Cardinality(At({"exchange"})) \in Nat
      /\ Cardinality(At({"exchange"})') = Cardinality(At({"exchange"})) + 1
  BY SMTT(60), <1>3, <1>4, FS_AddElement, FS_CardinalityType DEF LocalInv
<1>8. QueueInv(q)'
  <2>1. Chain(q, head, tail, next, Pending)'
    BY <1>1, <1>5 DEF QueueInv, Count
  <2>2. Placed(q)'
    BY <1>1, <1>5, <1>6 DEF QueueInv, Placed, Count
  <2>3. Counted(q)'
    <3>1. Mark(q)' = Mark(q) /\ Drained' = Drained /\ HeldCount' = HeldCount /\ queued' = queued + 1
      BY DEF Mark, Drained, HeldCount, Count
    <3>2. queued = Cardinality(At({"exchange"})) + Len(q) - Mark(q) + Drained + HeldCount
      BY <1>1 DEF QueueInv, Counted
    <3>3. /\ Len(q) \in Nat /\ Mark(q) \in Nat /\ Drained \in Nat /\ HeldCount \in Nat
      BY SMTT(60), CountTypes
    <3>4. queued' = Cardinality(At({"exchange"})') + Len(q) - Mark(q) + Drained + HeldCount
      BY SMTT(60), <1>7, <3>1, <3>2, <3>3
    <3> QED
      BY <3>1, <3>4 DEF Counted
  <2>4. Rested(q)'
    BY <1>1, <1>4 DEF QueueInv, Rested, Count
  <2> QED
    BY <2>1, <2>2, <2>3, <2>4 DEF QueueInv
<1>9. TypeOK'
  BY SMTT(60) DEF TypeOK, Count, popVars
<1>10. LocalInv'
  <2>1. \A r \in Producers : pc'[r] # "out" => sends'[r] > 0
    BY <1>2 DEF LocalInv, Count, TypeOK
  <2>2. \A r \in Producers : pc'[r] # "link" => prev'[r] = Null
    BY <1>2 DEF LocalInv, Count, TypeOK
  <2>3. loop' = "againlink" => \A r \in At({"link"})' : Mine(r)' # back'
    BY <1>2, <1>4 DEF LocalInv, Count, popVars, At
  <2> QED
    BY <1>7, <2>1, <2>2, <2>3 DEF LocalInv, Count, popVars
<1>11. WireInv'
  BY DEF WireInv, Count, popVars
<1> QED
  BY <1>8, <1>9, <1>10, <1>11 DEF DeliveryInv

LEMMA ExchangeStep == ASSUME IInv, NEW p \in Producers, Exchange(p) PROVE DeliveryInv'
<1> TypeOK /\ LocalInv /\ WireInv
  BY DEF IInv, DeliveryInv
<1>1. PICK q \in Seq(Nodes) : QueueInv(q)
  BY DEF IInv, DeliveryInv
<1> PICK n : n = Mine(p)
  OBVIOUS
<1> DEFINE r == Append(q, n)
<1>2. pc[p] = "exchange" /\ pc' = [pc EXCEPT ![p] = "link"] /\ \A o \in Producers : Mine(o)' = Mine(o)
  BY MineKept DEF Exchange
<1>3. n \in Messages /\ n \in Nodes /\ n # Stub
  BY <1>2, MineFacts
<1>4. \A o \in Producers : Mine(o) = n => o = p
  BY DEF Mine
<1>5. /\ p \in At({"count", "exchange"}) /\ p \in At({"exchange"}) /\ p \notin At({"link"})
      /\ At({"count", "exchange"})' = At({"count", "exchange"}) \ {p}
      /\ At({"exchange"})' = At({"exchange"}) \ {p}
      /\ At({"link", "start"})' = At({"link", "start"}) \cup {p}
      /\ At({"link"})' = At({"link"}) \cup {p}
  <2>1. p \in At({"count", "exchange"}) /\ p \in At({"exchange"}) /\ p \notin At({"link"})
    BY <1>2 DEF At
  <2> QED
    BY <1>2, <2>1 DEF At, TypeOK
<1>6. Unpushed' = Unpushed \ {n} /\ n \in Unpushed
  BY SMTT(60), <1>2, <1>4, <1>5 DEF Unpushed, At
<1>7. Pending' = Pending \cup {<<tail, n>>}
  <2>1. \A o \in At({"link"}) : prev'[o] = prev[o]
    BY <1>5 DEF Exchange, TypeOK, At
  <2>2. prev'[p] = tail
    BY DEF Exchange, TypeOK
  <2>3. LoopPending' = LoopPending
    BY DEF LoopPending, Exchange, popVars
  <2>4. \A o \in At({"link"}) : Mine(o)' = Mine(o)
    BY <1>2 DEF At
  <2> QED
    BY SMTT(60), <1>2, <1>5, <2>1, <2>2, <2>3, <2>4 DEF Pending, PushPending
<1> HIDE DEF r
<1>8. n \notin Range(q) /\ Range(r) = Range(q) \cup {n} /\ Len(r) = Len(q) + 1 /\ r \in Seq(Nodes)
  <2>1. n \notin Range(q)
    BY <1>1, <1>3, <1>6 DEF QueueInv, Placed, Split
  <2> QED
    BY SMTT(60), <1>3, <2>1, AppendElems DEF r
<1>9. /\ IsFiniteSet(At({"exchange"})') /\ Cardinality(At({"exchange"})) \in Nat
      /\ Cardinality(At({"exchange"})') = Cardinality(At({"exchange"})) - 1
  BY SMTT(60), <1>5, FS_RemoveElement, FS_CardinalityType DEF LocalInv
<1>10. QueueInv(r)'
  <2>1. Chain(r, head, n, [next EXCEPT ![n] = Null], Pending \cup {<<tail, n>>})
    BY <1>1, <1>3, <1>8, ChainPush DEF QueueInv, TypeOK, r
  <2>2. Chain(r, head, tail, next, Pending)'
    BY <1>7, <2>1 DEF Exchange
  <2>3. Held' = Held
    BY DEF Held, Exchange, popVars
  <2>4. Placed(r)'
    BY SMTT(60), <1>1, <1>3, <1>6, <1>8, <2>3 DEF QueueInv, Placed, Split, Exchange
  <2>5. Counted(r)'
    <3>1. Mark(r)' = Mark(q) /\ queued' = queued /\ Drained' = Drained /\ HeldCount' = HeldCount
      BY <1>3, <1>8 DEF Mark, Drained, HeldCount, Exchange
    <3>2. queued = Cardinality(At({"exchange"})) + Len(q) - Mark(q) + Drained + HeldCount
      BY <1>1 DEF QueueInv, Counted
    <3>3. /\ Len(q) \in Nat /\ Mark(q) \in Nat /\ Drained \in Nat /\ HeldCount \in Nat
      BY SMTT(60), CountTypes
    <3>4. queued' = Cardinality(At({"exchange"})') + Len(r) - Mark(q) + Drained + HeldCount
      BY SMTT(60), <1>8, <1>9, <3>1, <3>2, <3>3
    <3> QED
      BY <3>1, <3>4 DEF Counted
  <2>6. Rested(r)'
    BY <1>1, <1>3, <1>5, <1>8 DEF QueueInv, Rested, Exchange
  <2> QED
    BY <2>2, <2>4, <2>5, <2>6 DEF QueueInv
<1>11. TypeOK'
  BY <1>2, <1>3, NodeFacts DEF TypeOK, Exchange, popVars
<1>12. LocalInv'
  <2>1. \A o \in Producers : pc'[o] # "out" => sends'[o] > 0
    BY <1>2 DEF LocalInv, Exchange, TypeOK
  <2>2. \A o \in Producers : pc'[o] # "link" => prev'[o] = Null
    BY <1>2 DEF LocalInv, Exchange, TypeOK
  <2>3. loop' = "againlink" => \A o \in At({"link"})' : Mine(o)' # back'
    <3> SUFFICES ASSUME loop = "againlink" PROVE n # back
      BY SMTT(60), <1>2, <1>5 DEF LocalInv, Exchange, popVars, At
    <3>1. <<cur, back>> \in Pending
      BY DEF Pending, LoopPending
    <3>2. back \in Range(q)
      BY <1>1, <3>1, ChainLink DEF QueueInv, TypeOK
    <3> QED
      BY <1>8, <3>2
  <2> QED
    BY <1>9, <2>1, <2>2, <2>3 DEF LocalInv, Exchange, popVars
<1>13. WireInv'
  BY DEF WireInv, Exchange, popVars
<1> QED
  BY <1>8, <1>10, <1>11, <1>12, <1>13 DEF DeliveryInv

LEMMA LinkStep == ASSUME IInv, NEW p \in Producers, Link(p) PROVE DeliveryInv'
<1> TypeOK /\ LocalInv /\ WireInv
  BY DEF IInv, DeliveryInv
<1>1. PICK q \in Seq(Nodes) : QueueInv(q)
  BY DEF IInv, DeliveryInv
<1>2. PICK n, a : n = Mine(p) /\ a = prev[p]
  OBVIOUS
<1>3. pc[p] = "link" /\ pc' = [pc EXCEPT ![p] = "start"] /\ \A o \in Producers : Mine(o)' = Mine(o)
  BY MineKept DEF Link
<1>4. n \in Messages /\ n \in Nodes /\ n # Stub
  BY <1>2, <1>3, MineFacts
<1>5. \A o \in Producers : Mine(o) = n => o = p
  BY <1>2 DEF Mine
<1>6. /\ p \in At({"link"})
      /\ At({"count", "exchange"})' = At({"count", "exchange"})
      /\ At({"exchange"})' = At({"exchange"})
      /\ At({"link", "start"})' = At({"link", "start"})
      /\ At({"link"})' = At({"link"}) \ {p}
  BY <1>3 DEF At, TypeOK
<1>7. Unpushed' = Unpushed
  BY SMTT(60), <1>3, <1>6 DEF Unpushed, At
<1>8. <<a, n>> \in Pending
  BY <1>2, <1>6 DEF Pending, PushPending
<1>9. Pending' = Pending \ {<<a, n>>}
  <2>1. \A o \in At({"link"})' : prev'[o] = prev[o] /\ Mine(o)' = Mine(o) /\ Mine(o) # n
    BY <1>3, <1>5, <1>6 DEF Link, TypeOK, At
  <2>2. \A e \in LoopPending : e # <<a, n>>
    <3>1. CASE loop = "poplink"
      BY SMTT(60), <1>4, <3>1 DEF LoopPending
    <3>2. CASE loop = "againlink"
      <4>1. Mine(p) # back
        BY <1>6, <3>2 DEF LocalInv
      <4> QED
        BY SMTT(60), <1>2, <3>2, <4>1 DEF LoopPending
    <3> QED
      BY <3>1, <3>2 DEF LoopPending
  <2>3. LoopPending' = LoopPending
    BY DEF LoopPending, Link, popVars
  <2>4. PushPending' = PushPending \ {<<a, n>>}
    BY SMTT(60), <1>2, <1>6, <2>1 DEF PushPending
  <2> QED
    BY <2>2, <2>3, <2>4 DEF Pending
<1>10. Chain(q, head, tail, [next EXCEPT ![a] = n], Pending \ {<<a, n>>}) /\ a \in Range(q) /\ n \in Range(q)
  BY <1>1, <1>8, ChainLink DEF QueueInv, TypeOK
<1>11. QueueInv(q)'
  <2>1. Chain(q, head, tail, next, Pending)'
    BY <1>2, <1>9, <1>10 DEF Link
  <2>2. Held' = Held
    BY DEF Held, Link, popVars
  <2>3. Placed(q)'
    BY <1>1, <1>7, <2>2 DEF QueueInv, Placed, Link
  <2>4. Counted(q)'
    BY <1>1, <1>6 DEF QueueInv, Counted, Mark, Drained, HeldCount, Link
  <2>5. Rested(q)'
    <3>1. At({"link", "start"})' # {}
      BY <1>3 DEF At, TypeOK
    <3> QED
      BY <1>1, <3>1 DEF QueueInv, Rested, Link
  <2> QED
    BY <2>1, <2>3, <2>4, <2>5 DEF QueueInv
<1>12. TypeOK'
  <2>1. next' \in [Nodes -> Nodes \cup {Null}]
    BY <1>2, <1>4 DEF TypeOK, Link
  <2> QED
    BY <1>3, <2>1 DEF TypeOK, Link, popVars
<1>13. LocalInv'
  <2>1. \A o \in Producers : pc'[o] # "out" => sends'[o] > 0
    BY <1>3 DEF LocalInv, Link, TypeOK
  <2>2. \A o \in Producers : pc'[o] # "link" => prev'[o] = Null
    BY <1>3 DEF LocalInv, Link, TypeOK
  <2>3. loop' = "againlink" => \A o \in At({"link"})' : Mine(o)' # back'
    BY <1>3, <1>6 DEF LocalInv, Link, popVars, At
  <2> QED
    BY <1>6, <2>1, <2>2, <2>3 DEF LocalInv, Link, popVars
<1>14. WireInv'
  BY DEF WireInv, Link, popVars
<1> QED
  BY <1>11, <1>12, <1>13, <1>14 DEF DeliveryInv

LEMMA StartStep == ASSUME IInv, NEW p \in Producers, Start(p) PROVE DeliveryInv'
<1> TypeOK /\ LocalInv /\ WireInv
  BY DEF IInv, DeliveryInv
<1>1. PICK q \in Seq(Nodes) : QueueInv(q)
  BY DEF IInv, DeliveryInv
<1>2. pc[p] = "start" /\ pc' = [pc EXCEPT ![p] = "out"] /\ \A o \in Producers : Mine(o)' = Mine(o)
  BY MineKept DEF Start
<1>3. /\ At({"count", "exchange"})' = At({"count", "exchange"})
      /\ At({"exchange"})' = At({"exchange"})
      /\ At({"link"})' = At({"link"})
  BY <1>2 DEF At, TypeOK
<1>4. Pending' = Pending /\ Held' = Held
  <2>1. LoopPending' = LoopPending /\ Held' = Held /\ prev' = prev
    BY DEF LoopPending, Held, Start, popVars
  <2>2. PushPending' = PushPending
    <3>1. \A o \in At({"link"}) : Mine(o)' = Mine(o)
      BY <1>2 DEF At
    <3> QED
      BY <1>3, <2>1, <3>1, PushPendingKept
  <2> QED
    BY <2>1, <2>2 DEF Pending
<1>5. Unpushed' = Unpushed
  BY <1>2, <1>3 DEF Unpushed, At
<1>6. writing' = TRUE /\ spawned' \in Nat
  BY SMTT(60) DEF Start, TryStartWrite, TypeOK
<1>7. QueueInv(q)'
  <2>1. Chain(q, head, tail, next, Pending)'
    BY <1>1, <1>4 DEF QueueInv, Start
  <2>2. Placed(q)'
    BY <1>1, <1>4, <1>5 DEF QueueInv, Placed, Start
  <2>3. Counted(q)'
    BY <1>1, <1>3 DEF QueueInv, Counted, Mark, Drained, HeldCount, Start
  <2>4. Rested(q)'
    BY <1>1, <1>6 DEF QueueInv, Rested, Start
  <2> QED
    BY <2>1, <2>2, <2>3, <2>4 DEF QueueInv
<1>8. TypeOK'
  BY <1>2, <1>6 DEF TypeOK, Start, popVars
<1>9. LocalInv'
  <2>1. \A o \in Producers : pc'[o] # "out" => sends'[o] > 0
    BY <1>2 DEF LocalInv, Start, TypeOK
  <2>2. \A o \in Producers : pc'[o] # "link" => prev'[o] = Null
    BY <1>2 DEF LocalInv, Start, TypeOK
  <2>3. loop' = "againlink" => \A o \in At({"link"})' : Mine(o)' # back'
    BY <1>2, <1>3 DEF LocalInv, Start, popVars, At
  <2> QED
    BY <1>3, <2>1, <2>2, <2>3 DEF LocalInv, Start, popVars
<1>10. WireInv'
  BY DEF WireInv, Start, popVars
<1> QED
  BY <1>7, <1>8, <1>9, <1>10 DEF DeliveryInv
=============================================================================
