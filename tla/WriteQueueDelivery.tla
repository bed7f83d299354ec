------------------------- MODULE WriteQueueDelivery -------------------------
(* The invariant of WriteQueueProofs under the steps of writeLoop(), and     *)
(* what follows from it: no message is lost, written twice or touched after  *)
(* it was freed.                                                             *)
EXTENDS WriteQueueProofs

\* The time a leaf may take.
USE ZenonT(60)

LEMMA ProducersKept ==
    ASSUME UNCHANGED producerVars
    PROVE  /\ \A S : At(S)' = At(S)
           /\ Unpushed' = Unpushed /\ PushPending' = PushPending
           /\ At({"link"})' = At({"link"}) /\ At({"exchange"})' = At({"exchange"})
           /\ At({"link", "start"})' = At({"link", "start"})
           /\ \A p : Mine(p)' = Mine(p)
  BY DEF producerVars, At, Unpushed, PushPending, Mine

\* What the producers' part of LocalInv needs of a step of writeLoop().
LEMMA LocalKept ==
    ASSUME LocalInv, UNCHANGED producerVars, accepted' = accepted
    PROVE  /\ \A p \in Producers : pc'[p] # "out" => sends'[p] > 0
           /\ \A p \in Producers : pc'[p] # "link" => prev'[p] = Null
           /\ \A m \in accepted' : m[2] <= sends'[m[1]]
           /\ IsFiniteSet(At({"exchange"}))'
  BY ProducersKept DEF LocalInv, producerVars

\* pop() has taken n off the queue, which is r now; writeLoop() does its part with n.
LEMMA PoppedStep ==
    ASSUME IInv, loop \in {"pop", "poplink"}, NEW n \in Messages, NEW r \in Seq(Nodes),
           n \notin Range(r),
           Chain(r, head', tail', next', PushPending),
           Split(accepted, Unpushed, (Range(r) \ {Stub}) \cup {n}, Range(batch), {}, freed),
           queued = Cardinality(At({"exchange"})) + Len(r) + 1 - Mark(r) + Len(batch),
           next' \in [Nodes -> Nodes \cup {Null}],
           Popped(n),
           UNCHANGED <<writing, open, producerVars, goal, spawned, wire, accepted>>
    PROVE  DeliveryInv'
<1> USE DEF IInv, DeliveryInv
<1>1. /\ cur' = Null /\ loop' \in {"pop", "drained", "again"} /\ loop' # "off"
      /\ goal \in {"drain", "recheck", "purge"} /\ batch \in Seq(Messages)
  BY DEF Popped, TypeOK
<1>2. Pending' = PushPending
  BY <1>1, ProducersKept DEF Pending, LoopPending
<1>3. /\ Len(r) \in Nat /\ Len(batch) \in Nat /\ Mark(r) \in Nat /\ Mark(r) <= Len(r)
      /\ Cardinality(At({"exchange"})) \in Nat
  <2>1. Mark(r) \in {0, 1} /\ Cardinality(At({"exchange"})) \in Nat
    BY CountTypes
  <2>2. Len(r) \in Nat /\ Len(r) >= 1
    BY SMTT(60) DEF Chain
  <2> QED
    BY SMTT(60), <1>1, <2>1, <2>2
<1>4. /\ Len(Append(batch, n)) = Len(batch) + 1 /\ Range(Append(batch, n)) = Range(batch) \cup {n}
      /\ IsInjective(Append(batch, n)) /\ Append(batch, n) \in Seq(Messages)
  <2>1. n \notin Range(batch)
    BY DEF Split
  <2> QED
    BY SMTT(60), <1>1, <2>1, AppendElems DEF WireInv
<1>5. Placed(r)'
  <2>1. CASE goal = "drain"
    <3>1. Range(batch)' = Range(batch) \cup {n} /\ Held' = {} /\ freed' = freed
      BY <1>4, <2>1 DEF Popped, Held
    <3> QED
      BY <3>1, ProducersKept DEF Placed, Split
  <2>2. CASE goal = "recheck"
    <3>1. batch' = batch /\ Held' = {n} /\ freed' = freed
      BY <2>2 DEF Popped, Held
    <3> QED
      BY <3>1, ProducersKept DEF Placed, Split
  <2>3. CASE goal = "purge"
    <3>1. batch' = batch /\ Held' = {} /\ freed' = freed \cup {n}
      BY <2>3 DEF Popped, Held
    <3> QED
      BY <3>1, ProducersKept DEF Placed, Split
  <2> QED
    BY <1>1, <2>1, <2>2, <2>3
<1>6. Counted(r)' /\ queued' \in Nat
  <2>1. Mark(r)' = Mark(r) /\ Cardinality(At({"exchange"}))' = Cardinality(At({"exchange"}))
    BY ProducersKept DEF Mark
  <2>2. CASE goal = "drain"
    <3>1. Drained' = Len(batch) + 1 /\ HeldCount' = 0 /\ queued' = queued
      BY <1>1, <1>4, <2>2 DEF Popped, Drained, HeldCount
    <3> HIDE DEF IInv, DeliveryInv
    <3> QED
      BY SMTT(60), <1>3, <2>1, <3>1 DEF Counted
  <2>3. CASE goal = "recheck"
    <3>1. Drained' = Len(batch) /\ HeldCount' = 1 /\ queued' = queued
      BY <1>1, <2>3 DEF Popped, Drained, HeldCount
    <3> HIDE DEF IInv, DeliveryInv
    <3> QED
      BY SMTT(60), <1>3, <2>1, <3>1 DEF Counted
  <2>4. CASE goal = "purge"
    <3>1. Drained' = Len(batch) /\ HeldCount' = 0 /\ queued' = queued - 1
      BY <1>1, <2>4 DEF Popped, Drained, HeldCount
    <3> HIDE DEF IInv, DeliveryInv
    <3> QED
      BY SMTT(60), <1>3, <2>1, <3>1 DEF Counted
  <2> QED
    BY <1>1, <2>2, <2>3, <2>4
<1>7. QueueInv(r)'
  BY <1>1, <1>2, <1>5, <1>6 DEF QueueInv, Rested
<1>8. TypeOK'
  <2>1. head' \in Nodes /\ tail' \in Nodes
    BY SMTT(60), <1>3 DEF Chain
  <2>2. batch' \in Seq(Messages) /\ back' \in Messages \cup {Null} /\ freed' \subseteq Messages
    BY <1>1, <1>4 DEF Popped, TypeOK
  <2> QED
    BY <1>1, <1>6, <2>1, <2>2 DEF TypeOK, producerVars
<1>9. LocalInv'
  <2>1. loop' = "again" => back' \in Messages
    BY <1>1 DEF Popped
  <2>2. goal' # "drain" => batch' = <<>>
    BY DEF Popped, LocalInv
  <2> QED
    BY <1>1, <2>1, <2>2, LocalKept DEF LocalInv
<1>10. WireInv'
  BY <1>1, <1>4 DEF WireInv, Popped
<1> QED
  BY <1>7, <1>8, <1>9, <1>10

\* pop() returns nullptr: the queue is empty, or a pusher has yet to link and will start.
LEMMA NothingStep ==
    ASSUME IInv, loop \in {"pop", "poptail", "poplink"}, NEW q \in Seq(Nodes),
           Chain(q, head', tail', next', PushPending), Placed(q), Counted(q),
           q = <<Stub>> \/ At({"link", "start"}) # {} \/ writing,
           next' \in [Nodes -> Nodes \cup {Null}],
           PoppedNothing,
           UNCHANGED <<writing, open, producerVars, goal, spawned, wire, accepted>>
    PROVE  DeliveryInv'
<1> USE DEF IInv, DeliveryInv
<1>1. /\ cur' = Null /\ loop' \in {"drained", "off"} /\ (loop' = "off" => goal # "drain")
      /\ UNCHANGED <<back, batch, queued, freed>>
  BY DEF PoppedNothing, TypeOK
<1>2. Pending' = PushPending
  BY <1>1, ProducersKept DEF Pending, LoopPending
<1>3. Placed(q)'
  BY <1>1, ProducersKept DEF Placed, Held
<1>4. Counted(q)'
  BY <1>1, ProducersKept DEF Counted, Mark, Drained, HeldCount
<1>5. Rested(q)'
  BY <1>1, ProducersKept DEF Rested
<1>6. QueueInv(q)'
  BY <1>2, <1>3, <1>4, <1>5 DEF QueueInv
<1>7. TypeOK'
  <2>1. head' \in Nodes /\ tail' \in Nodes
    <3>1. Len(q) \in Nat /\ Len(q) >= 1
      BY SMTT(60) DEF Chain
    <3> QED
      BY SMTT(60), <3>1 DEF Chain
  <2> QED
    BY <1>1, <2>1 DEF TypeOK, producerVars
<1>8. LocalInv'
  BY <1>1, LocalKept DEF LocalInv
<1>9. WireInv'
  BY <1>1 DEF WireInv
<1> QED
  BY <1>6, <1>7, <1>8, <1>9

\* Taking the stub off the front changes no message's place and no count.
LEMMA StubSkipped ==
    ASSUME IInv, NEW q \in Seq(Nodes), QueueInv(q), head = Stub, next[Stub] # Null
    PROVE  /\ Tail(q) \in Seq(Nodes) /\ Chain(Tail(q), next[Stub], tail, next, Pending)
           /\ Placed(Tail(q)) /\ Counted(Tail(q)) /\ Stub \notin Range(Tail(q))
<1>1. PICK r : r = Tail(q)
  OBVIOUS
<1>2. /\ Chain(r, next[Stub], tail, next, Pending) /\ Stub \in Range(q)
      /\ Range(r) = Range(q) \ {Stub} /\ Len(r) = Len(q) - 1
  BY <1>1, ChainPop DEF QueueInv
<1>3. r \in Seq(Nodes)
  BY <1>2 DEF Chain
<1>4. Range(r) \ {Stub} = Range(q) \ {Stub} /\ Stub \notin Range(r)
  BY <1>2
<1>5. Placed(r)
  BY <1>4 DEF QueueInv, Placed
<1>6. Counted(r)
  <2>1. Mark(q) = 1 /\ Mark(r) = 0
    BY <1>2, <1>4 DEF Mark
  <2>2. /\ Cardinality(At({"exchange"})) \in Nat /\ Len(q) \in Nat
        /\ Drained \in Nat /\ HeldCount \in Nat
    BY SMTT(60), CountTypes DEF IInv, DeliveryInv
  <2> QED
    BY SMTT(60), <1>2, <2>1, <2>2 DEF QueueInv, Counted
<1> QED
  BY <1>1, <1>2, <1>3, <1>4, <1>5, <1>6

LEMMA PopHeadStep == ASSUME IInv, PopHead PROVE DeliveryInv'
<1>1. PICK q \in Seq(Nodes) : QueueInv(q)
  BY DEF IInv, DeliveryInv
<1>2. /\ loop = "pop" /\ next' = next /\ tail' = tail
      /\ UNCHANGED <<writing, open, producerVars, goal, spawned, wire, accepted>>
      /\ TypeOK /\ LocalInv
  BY DEF PopHead, IInv, DeliveryInv
<1>3. Pending = PushPending /\ Held = {} /\ Drained = Len(batch) /\ HeldCount = 0
  BY <1>2 DEF Pending, LoopPending, Held, Drained, HeldCount
<1> DEFINE skip == head = Stub /\ next[Stub] # Null
<1> PICK h : h = IF skip THEN next[Stub] ELSE head
  OBVIOUS
<1>4. PICK r \in Seq(Nodes) :
           Chain(r, h, tail, next, Pending) /\ Placed(r) /\ Counted(r) /\ (skip => Stub \notin Range(r))
  <2>1. CASE skip
    BY <1>1, <2>1, StubSkipped
  <2>2. CASE ~skip
    BY <1>1, <2>2 DEF QueueInv
  <2> QED
    BY <2>1, <2>2
<1>5. \/ h = Stub /\ PoppedNothing /\ UNCHANGED head
      \/ h # Stub /\ next[h] # Null /\ head' = next[h] /\ Popped(h)
      \/ /\ h # Stub /\ next[h] = Null /\ head' = h /\ cur' = h /\ loop' = "poptail"
         /\ UNCHANGED <<back, batch, queued, freed>>
  BY <1>4 DEF PopHead
<1>6. CASE h = Stub /\ PoppedNothing /\ UNCHANGED head
  <2>1. head = Stub /\ next[Stub] = Null
    <3>1. ~skip
      <4>1. Len(r) \in Nat /\ Len(r) >= 1 /\ r[1] = Stub
        BY SMTT(60), <1>4, <1>6 DEF Chain
      <4> QED
        BY SMTT(60), <1>4, <4>1 DEF Range
    <3> QED
      BY <1>4, <1>6, <3>1
  <2>2. Chain(r, head', tail', next', PushPending)
    BY <1>2, <1>3, <1>4, <1>6, <2>1
  <2>3. r = <<Stub>> \/ At({"link", "start"}) # {}
    BY <1>3, <1>4, <1>6, <2>1, ChainEnd DEF PushPending, At
  <2> QED
    BY <1>2, <1>4, <1>6, <2>2, <2>3, NothingStep DEF TypeOK
<1>7. CASE h # Stub /\ next[h] # Null /\ head' = next[h] /\ Popped(h)
  <2>1. PICK s : s = Tail(r)
    OBVIOUS
  <2>2. /\ Chain(s, next[h], tail, next, Pending) /\ h \in Range(r)
        /\ Range(s) = Range(r) \ {h} /\ Len(s) = Len(r) - 1
    BY <1>4, <1>7, <2>1, ChainPop
  <2>3. s \in Seq(Nodes) /\ h \in Messages /\ h \notin Range(s)
    <3>1. \A x \in Range(r) : x \in Nodes
      BY SMTT(60), <1>4 DEF Range
    <3> QED
      BY <1>7, <2>2, <3>1 DEF Chain, Nodes
  <2>4. Split(accepted, Unpushed, (Range(s) \ {Stub}) \cup {h}, Range(batch), {}, freed)
    <3>1. (Range(s) \ {Stub}) \cup {h} = Range(r) \ {Stub}
      BY <1>7, <2>2
    <3> QED
      BY <1>3, <1>4, <3>1 DEF Placed
  <2>5. queued = Cardinality(At({"exchange"})) + Len(s) + 1 - Mark(s) + Len(batch)
    <3>1. Mark(s) = Mark(r)
      BY <1>7, <2>2 DEF Mark
    <3>2. /\ Cardinality(At({"exchange"})) \in Nat /\ Len(r) \in Nat /\ Mark(r) \in Nat
          /\ Len(batch) \in Nat
      BY SMTT(60), <1>2, CountTypes
    <3> QED
      BY SMTT(60), <1>3, <1>4, <2>2, <3>1, <3>2 DEF Counted
  <2>6. Chain(s, head', tail', next', PushPending)
    BY <1>2, <1>3, <1>7, <2>2
  <2>7. next' \in [Nodes -> Nodes \cup {Null}] /\ loop \in {"pop", "poplink"}
    BY <1>2 DEF TypeOK
  <2> QED
    BY <1>2, <1>7, <2>3, <2>4, <2>5, <2>6, <2>7, PoppedStep
<1>8. CASE /\ h # Stub /\ next[h] = Null /\ head' = h /\ cur' = h /\ loop' = "poptail"
           /\ UNCHANGED <<back, batch, queued, freed>>
  <2>1. Pending' = PushPending
    BY <1>2, <1>8, ProducersKept DEF Pending, LoopPending
  <2>2. Placed(r)'
    <3>1. Held' = {}
      BY <1>8 DEF Held
    <3> QED
      BY <1>2, <1>3, <1>4, <1>8, <3>1, ProducersKept DEF Placed
  <2>3. Counted(r)'
    <3>1. Drained' = Len(batch) /\ HeldCount' = 0 /\ Mark(r)' = Mark(r)
      BY <1>8 DEF Drained, HeldCount, Mark
    <3> QED
      BY <1>2, <1>3, <1>4, <1>8, <3>1, ProducersKept DEF Counted
  <2>4. QueueInv(r)'
    BY <1>2, <1>3, <1>4, <1>8, <2>1, <2>2, <2>3 DEF QueueInv, Rested
  <2>5. h \in Nodes
    <3>1. Len(r) \in Nat /\ Len(r) >= 1
      BY SMTT(60), <1>4 DEF Chain
    <3> QED
      BY SMTT(60), <1>4, <3>1 DEF Chain
  <2>6. TypeOK'
    BY <1>2, <1>8, <2>5 DEF TypeOK, producerVars
  <2>7. LocalInv'
    BY <1>2, <1>8, LocalKept DEF LocalInv
  <2>8. WireInv'
    BY <1>2, <1>8 DEF WireInv, IInv, DeliveryInv
  <2> QED
    BY <2>4, <2>6, <2>7, <2>8 DEF DeliveryInv
<1> QED
  BY <1>5, <1>6, <1>7, <1>8

LEMMA PopTailStep == ASSUME IInv, PopTail PROVE DeliveryInv'
<1>1. PICK q \in Seq(Nodes) : QueueInv(q)
  BY DEF IInv, DeliveryInv
<1>2. /\ loop = "poptail" /\ next' = next /\ head' = head /\ tail' = tail
      /\ UNCHANGED <<writing, open, producerVars, goal, spawned, wire, accepted>>
      /\ TypeOK /\ LocalInv /\ WireInv /\ cur = head /\ head # Stub
  BY DEF PopTail, IInv, DeliveryInv, LocalInv
<1>3. Pending = PushPending
  BY <1>2 DEF Pending, LoopPending
<1>4. CASE cur # tail /\ PoppedNothing
  <2>1. Chain(q, head', tail', next', PushPending) /\ Placed(q) /\ Counted(q)
    BY <1>1, <1>2, <1>3 DEF QueueInv
  <2>2. At({"link", "start"}) # {} \/ writing
    <3>1. CASE next[head] = Null
      BY <1>1, <1>2, <1>3, <1>4, <3>1, ChainEnd DEF QueueInv, PushPending, At
    <3> QED
      BY <1>1, <1>2, <3>1 DEF QueueInv, Rested
  <2> QED
    BY <1>2, <1>4, <2>1, <2>2, NothingStep DEF TypeOK
<1>5. CASE cur = tail /\ loop' = "popstub" /\ UNCHANGED <<cur, back, batch, queued, freed>>
  <2>1. Stub \notin Range(q)
    <3>1. q = <<head>>
      <4>1. next[head] = Null /\ Chain(q, head, tail, next, Pending)
        BY <1>1, <1>2, <1>5 DEF QueueInv, Chain
      <4> QED
        BY <1>2, <1>5, <4>1, ChainEnd
    <3> QED
      BY SMTT(60), <1>2, <3>1 DEF Range
  <2>2. Pending' = Pending
    BY <1>2, <1>3, <1>5, ProducersKept DEF Pending, LoopPending
  <2>3. Placed(q)'
    <3>1. Held' = Held
      BY <1>2, <1>5 DEF Held
    <3> QED
      BY <1>1, <1>2, <1>5, <3>1, ProducersKept DEF QueueInv, Placed
  <2>4. Counted(q)'
    <3>1. Drained' = Drained /\ HeldCount' = HeldCount /\ Mark(q)' = Mark(q)
      BY <1>2, <1>5 DEF Drained, HeldCount, Mark
    <3> QED
      BY <1>1, <1>2, <1>5, <3>1, ProducersKept DEF QueueInv, Counted
  <2>5. QueueInv(q)'
    BY <1>1, <1>2, <1>5, <2>1, <2>2, <2>3, <2>4 DEF QueueInv, Rested
  <2>6. TypeOK'
    BY <1>2, <1>5 DEF TypeOK, producerVars
  <2>7. LocalInv'
    BY <1>2, <1>5, LocalKept DEF LocalInv
  <2>8. WireInv'
    BY <1>2, <1>5 DEF WireInv
  <2> QED
    BY <2>5, <2>6, <2>7, <2>8 DEF DeliveryInv
<1> QED
  BY <1>4, <1>5 DEF PopTail

\* push(&stub) and the push of the node held: writeLoop() exchanges tail_ like a producer.
LEMMA LoopExchanges ==
    ASSUME IInv, NEW q \in Seq(Nodes), QueueInv(q), NEW n \in Nodes, n \notin Range(q),
           LoopPending = {}, LoopPending' = {<<tail, n>>}, UNCHANGED producerVars,
           next' = [next EXCEPT ![n] = Null], tail' = n, head' = head
    PROVE  /\ Chain(Append(q, n), head, tail, next, Pending)'
           /\ Range(Append(q, n)) = Range(q) \cup {n} /\ Len(Append(q, n)) = Len(q) + 1
           /\ Append(q, n) \in Seq(Nodes) /\ next' \in [Nodes -> Nodes \cup {Null}]
<1>1. next \in [Nodes -> Nodes \cup {Null}] /\ Chain(q, head, tail, next, Pending)
  BY DEF IInv, DeliveryInv, TypeOK, QueueInv
<1>2. Pending' = Pending \cup {<<tail, n>>}
  BY ProducersKept DEF Pending
<1>3. PICK r : r = Append(q, n)
  OBVIOUS
<1>4. Chain(r, head, n, [next EXCEPT ![n] = Null], Pending \cup {<<tail, n>>})
  BY <1>1, <1>3, ChainPush
<1>5. Chain(r, head', tail', next', Pending')
  BY <1>2, <1>4
<1> QED
  BY SMTT(60), <1>1, <1>3, <1>5, AppendElems

LEMMA PopStubExchangeStep == ASSUME IInv, PopStubExchange PROVE DeliveryInv'
<1>1. PICK q \in Seq(Nodes) : QueueInv(q)
  BY DEF IInv, DeliveryInv
<1>2. /\ loop = "popstub" /\ loop' = "poplink" /\ cur' = tail /\ head' = head /\ tail' = Stub
      /\ next' = [next EXCEPT ![Stub] = Null]
      /\ UNCHANGED <<writing, queued, open, producerVars, goal, back, batch, spawned, wire, freed, accepted>>
      /\ TypeOK /\ LocalInv /\ WireInv /\ head # Stub
  BY DEF PopStubExchange, IInv, DeliveryInv, LocalInv
<1>3. Stub \notin Range(q) /\ Stub \in Nodes
  BY <1>1, <1>2, NodeFacts DEF QueueInv, Rested
<1>4. LoopPending = {} /\ LoopPending' = {<<tail, Stub>>}
  BY <1>2 DEF LoopPending
<1>5. PICK r : r = Append(q, Stub)
  OBVIOUS
<1>6. /\ Chain(r, head, tail, next, Pending)'
      /\ Range(r) = Range(q) \cup {Stub} /\ Len(r) = Len(q) + 1
      /\ r \in Seq(Nodes) /\ next' \in [Nodes -> Nodes \cup {Null}]
  BY <1>1, <1>2, <1>3, <1>4, <1>5, LoopExchanges
<1>7. Placed(r)'
  <2>1. Range(r) \ {Stub} = Range(q) \ {Stub}
    BY <1>6
  <2>2. Held' = Held
    BY <1>2 DEF Held
  <2> QED
    BY <1>1, <1>2, <2>1, <2>2, ProducersKept DEF QueueInv, Placed
<1>8. Counted(r)'
  <2>1. Drained' = Drained /\ HeldCount' = HeldCount /\ Mark(q) = 0 /\ Mark(r)' = 1
    BY <1>2, <1>3, <1>6 DEF Drained, HeldCount, Mark
  <2>2. /\ Cardinality(At({"exchange"})) \in Nat /\ Len(q) \in Nat
        /\ Drained \in Nat /\ HeldCount \in Nat
    BY SMTT(60), <1>2, CountTypes
  <2>3. queued = Cardinality(At({"exchange"})) + Len(q) - Mark(q) + Drained + HeldCount
    BY <1>1 DEF QueueInv, Counted
  <2>4. queued' = Cardinality(At({"exchange"})) + Len(r) - 1 + Drained + HeldCount
    BY SMTT(60), <1>2, <1>6, <2>1, <2>2, <2>3
  <2> QED
    BY <1>2, <2>1, <2>4, ProducersKept DEF Counted
<1>9. QueueInv(r)'
  BY <1>2, <1>6, <1>7, <1>8 DEF QueueInv, Rested
<1>10. TypeOK'
  BY <1>2, <1>3, <1>6 DEF TypeOK, producerVars
<1>11. LocalInv'
  BY <1>2, LocalKept DEF LocalInv
<1>12. WireInv'
  BY <1>2 DEF WireInv
<1> QED
  BY <1>6, <1>9, <1>10, <1>11, <1>12 DEF DeliveryInv

LEMMA PopStubLinkStep == ASSUME IInv, PopStubLink PROVE DeliveryInv'
<1>1. PICK q \in Seq(Nodes) : QueueInv(q)
  BY DEF IInv, DeliveryInv
<1>2. /\ loop = "poplink" /\ tail' = tail /\ next' = [next EXCEPT ![cur] = Stub]
      /\ UNCHANGED <<writing, open, producerVars, goal, spawned, wire, accepted>>
      /\ TypeOK /\ LocalInv /\ head # Stub
  BY DEF PopStubLink, IInv, DeliveryInv, LocalInv
<1>3. Pending = PushPending \cup {<<cur, Stub>>} /\ Held = {} /\ Drained = Len(batch) /\ HeldCount = 0
  BY <1>2 DEF Pending, LoopPending, Held, Drained, HeldCount
<1>4. Pending \ {<<cur, Stub>>} = PushPending
  <2>1. \A p \in At({"link"}) : Mine(p) # Stub
    BY <1>2, MineFacts DEF At
  <2>2. \A e \in PushPending : e # <<cur, Stub>>
    BY SMTT(60), <2>1 DEF PushPending
  <2> QED
    BY <1>3, <2>2
<1>5. Chain(q, head, tail, next', PushPending) /\ next' \in [Nodes -> Nodes \cup {Null}]
  <2>1. Chain(q, head, tail, [next EXCEPT ![cur] = Stub], Pending \ {<<cur, Stub>>})
    BY <1>1, <1>2, <1>3, ChainLink DEF QueueInv, TypeOK
  <2> QED
    BY <1>2, <1>4, <2>1, NodeFacts DEF TypeOK
<1>6. CASE next'[head] # Null /\ head' = next'[head] /\ Popped(head)
  <2>1. PICK s, h, nx : s = Tail(q) /\ h = head /\ nx = next'
    OBVIOUS
  <2>2. /\ Chain(s, nx[h], tail, nx, PushPending) /\ h \in Range(q)
        /\ Range(s) = Range(q) \ {h} /\ Len(s) = Len(q) - 1
    BY <1>5, <1>6, <2>1, ChainPop
  <2>3. s \in Seq(Nodes) /\ h \in Messages /\ h \notin Range(s)
    BY <1>2, <2>1, <2>2 DEF Chain, TypeOK, Nodes
  <2>4. Split(accepted, Unpushed, (Range(s) \ {Stub}) \cup {h}, Range(batch), {}, freed)
    <3>1. (Range(s) \ {Stub}) \cup {h} = Range(q) \ {Stub}
      BY <1>2, <2>1, <2>2
    <3> QED
      BY <1>1, <1>3, <3>1 DEF QueueInv, Placed
  <2>5. queued = Cardinality(At({"exchange"})) + Len(s) + 1 - Mark(s) + Len(batch)
    <3>1. Mark(s) = Mark(q)
      BY <1>2, <2>1, <2>2 DEF Mark
    <3>2. /\ Cardinality(At({"exchange"})) \in Nat /\ Len(q) \in Nat /\ Mark(q) \in Nat
          /\ Len(batch) \in Nat
      BY SMTT(60), <1>2, CountTypes
    <3> QED
      BY SMTT(60), <1>1, <1>3, <2>2, <3>1, <3>2 DEF QueueInv, Counted
  <2>6. Chain(s, head', tail', next', PushPending)
    BY <1>2, <1>6, <2>1, <2>2
  <2> QED
    BY <1>2, <1>5, <1>6, <2>1, <2>3, <2>4, <2>5, <2>6, PoppedStep
<1>7. CASE next'[head] = Null /\ UNCHANGED head /\ PoppedNothing
  <2>1. Chain(q, head', tail', next', PushPending) /\ Placed(q) /\ Counted(q)
    BY <1>1, <1>2, <1>5, <1>7 DEF QueueInv
  <2>2. At({"link", "start"}) # {}
    <3>1. Stub \in Range(q)
      BY <1>1, <1>2, <1>3, ChainLink DEF QueueInv, TypeOK
    <3>2. q # <<head>>
      BY SMTT(60), <1>2, <3>1 DEF Range
    <3>3. \E b : <<head, b>> \in PushPending
      BY <1>5, <1>7, <3>2, ChainEnd
    <3> QED
      BY <3>3 DEF PushPending, At
  <2> QED
    BY <1>2, <1>5, <1>7, <2>1, <2>2, NothingStep
<1> QED
  BY <1>2, <1>6, <1>7 DEF PopStubLink

\* The steps that leave the queue itself alone.
LEMMA QueueKept ==
    ASSUME IInv, NEW q \in Seq(Nodes), QueueInv(q), LoopPending = {}, LoopPending' = {},
           UNCHANGED <<next, head, tail, producerVars>>
    PROVE  Chain(q, head, tail, next, Pending)'
  BY ProducersKept DEF QueueInv, Pending

LEMMA QuietSteps ==
    ASSUME IInv, LoopStart \/ GiveUp \/ Restart \/ WriteFails
    PROVE  DeliveryInv'
<1>1. PICK q \in Seq(Nodes) : QueueInv(q)
  BY DEF IInv, DeliveryInv
<1>2. /\ UNCHANGED <<next, head, tail, producerVars, cur, back, queued, wire, freed, accepted>>
      /\ TypeOK /\ LocalInv /\ WireInv
  BY DEF LoopStart, GiveUp, Restart, WriteFails, popVars, IInv, DeliveryInv
<1>3. /\ loop \in {"off", "drained", "restart", "write"} /\ loop' \in {"pop", "off", "failed"}
      /\ (loop = "write" <=> loop' = "failed") /\ (loop' = "off" => writing')
      /\ batch' = batch /\ (loop' # "off" /\ goal' # "drain" => batch' = <<>>)
      /\ (loop' = "off" => batch' = <<>>)
  BY <1>2 DEF LoopStart, GiveUp, Restart, WriteFails, TryStartWrite, LocalInv, IInv, OwnerInv, popVars
<1>4. Placed(q)'
  <2>1. Held' = Held
    BY <1>3 DEF Held
  <2> QED
    BY <1>1, <1>2, <1>3, <2>1, ProducersKept DEF QueueInv, Placed
<1>5. Counted(q)'
  <2>1. Drained' = Drained /\ HeldCount' = HeldCount /\ Mark(q)' = Mark(q)
    BY <1>3 DEF Drained, HeldCount, Mark
  <2> QED
    BY <1>1, <1>2, <2>1, ProducersKept DEF QueueInv, Counted
<1>6. QueueInv(q)'
  <2>1. LoopPending = {} /\ LoopPending' = {}
    BY <1>3 DEF LoopPending
  <2>2. Chain(q, head, tail, next, Pending)'
    BY <1>1, <1>2, <2>1, QueueKept
  <2> QED
    BY <1>3, <1>4, <1>5, <2>2 DEF QueueInv, Rested
<1>7. TypeOK'
  <2>1. writing' \in BOOLEAN /\ open' \in BOOLEAN
    BY <1>2 DEF LoopStart, GiveUp, Restart, WriteFails, TryStartWrite, TypeOK
  <2>2. spawned' \in Nat
    BY SMTT(60), <1>2 DEF LoopStart, GiveUp, Restart, WriteFails, TryStartWrite, TypeOK
  <2>3. goal' \in {"drain", "recheck", "purge"}
    BY <1>2 DEF LoopStart, GiveUp, Restart, WriteFails, TypeOK, popVars
  <2> QED
    BY <1>2, <1>3, <2>1, <2>2, <2>3 DEF TypeOK, producerVars
<1>8. LocalInv'
  BY <1>2, <1>3, LocalKept DEF LocalInv
<1>9. WireInv'
  <2>1. (open' => open) /\ (goal' = "purge" \/ loop' = "failed" => ~open')
    BY SMTT(60), <1>2, <1>3 DEF LoopStart, GiveUp, Restart, WriteFails, WireInv, popVars
  <2> QED
    BY <1>2, <1>3, <2>1 DEF WireInv
<1> QED
  BY <1>6, <1>7, <1>8, <1>9 DEF DeliveryInv

LEMMA PushBackExchangeStep == ASSUME IInv, PushBackExchange PROVE DeliveryInv'
<1>1. PICK q \in Seq(Nodes) : QueueInv(q)
  BY DEF IInv, DeliveryInv
<1>2. /\ loop = "again" /\ loop' = "againlink" /\ cur' = tail /\ head' = head /\ tail' = back
      /\ next' = [next EXCEPT ![back] = Null]
      /\ UNCHANGED <<writing, queued, open, producerVars, goal, back, batch, spawned, wire, freed, accepted>>
      /\ TypeOK /\ LocalInv /\ WireInv /\ back \in Messages
  BY DEF PushBackExchange, IInv, DeliveryInv, LocalInv
<1>3. PICK n : n = back
  OBVIOUS
<1>4. n \in Nodes /\ n # Stub /\ n \notin Range(q) /\ Held = {n} /\ Held' = {}
  <2>1. n \in Nodes /\ n # Stub /\ Held = {n} /\ Held' = {}
    BY <1>2, <1>3, NodeFacts DEF Held
  <2> QED
    BY <1>1, <2>1 DEF QueueInv, Placed, Split
<1>5. LoopPending = {} /\ LoopPending' = {<<tail, n>>}
  BY <1>2, <1>3 DEF LoopPending
<1>6. PICK r : r = Append(q, n)
  OBVIOUS
<1>7. /\ Chain(r, head, tail, next, Pending)'
      /\ Range(r) = Range(q) \cup {n} /\ Len(r) = Len(q) + 1
      /\ r \in Seq(Nodes) /\ next' \in [Nodes -> Nodes \cup {Null}]
  BY <1>1, <1>2, <1>3, <1>4, <1>5, <1>6, LoopExchanges
<1>8. Placed(r)'
  BY SMTT(60), <1>1, <1>2, <1>4, <1>7, ProducersKept DEF QueueInv, Placed, Split
<1>9. Counted(r)'
  <2>1. Drained' = Drained /\ HeldCount = 1 /\ HeldCount' = 0 /\ Mark(r)' = Mark(q)
    BY <1>2, <1>4, <1>7 DEF Drained, HeldCount, Mark
  <2>2. /\ Cardinality(At({"exchange"})) \in Nat /\ Len(q) \in Nat
        /\ Drained \in Nat /\ Mark(q) \in Nat
    BY SMTT(60), <1>2, CountTypes
  <2>3. queued = Cardinality(At({"exchange"})) + Len(q) - Mark(q) + Drained + HeldCount
    BY <1>1 DEF QueueInv, Counted
  <2>4. queued' = Cardinality(At({"exchange"})) + Len(r) - Mark(q) + Drained + 0
    BY SMTT(60), <1>2, <1>7, <2>1, <2>2, <2>3
  <2> QED
    BY <1>2, <2>1, <2>4, ProducersKept DEF Counted
<1>10. QueueInv(r)'
  BY SMTT(60), <1>2, <1>7, <1>8, <1>9 DEF QueueInv, Rested
<1>11. TypeOK'
  BY SMTT(60), <1>2, <1>3, <1>4, <1>7 DEF TypeOK, producerVars
<1>12. LocalInv'
  <2>1. \A p \in At({"link"}) : Mine(p) # n
    <3> SUFFICES ASSUME NEW p \in At({"link"}) PROVE Mine(p) # n
      OBVIOUS
    <3>1. <<prev[p], Mine(p)>> \in Pending
      BY DEF Pending, PushPending
    <3>2. Mine(p) \in Range(q)
      BY <1>1, <1>2, <3>1, ChainLink DEF QueueInv, TypeOK
    <3> QED
      BY <1>4, <3>2
  <2>2. \A p \in At({"link"})' : Mine(p)' # back'
    BY <1>2, <1>3, <2>1, ProducersKept
  <2> QED
    BY <1>2, <2>2, LocalKept DEF LocalInv
<1>13. WireInv'
  BY <1>2 DEF WireInv
<1> QED
  BY <1>7, <1>10, <1>11, <1>12, <1>13 DEF DeliveryInv

LEMMA PushBackLinkStep == ASSUME IInv, PushBackLink PROVE DeliveryInv'
<1>1. PICK q \in Seq(Nodes) : QueueInv(q)
  BY DEF IInv, DeliveryInv
<1>2. /\ loop = "againlink" /\ loop' = "restart" /\ cur' = Null /\ back' = Null
      /\ next' = [next EXCEPT ![cur] = back]
      /\ UNCHANGED <<head, tail, writing, queued, open, producerVars, goal, batch, spawned, wire, freed, accepted>>
      /\ TypeOK /\ LocalInv /\ WireInv /\ back \in Messages
  BY DEF PushBackLink, IInv, DeliveryInv, LocalInv
<1>3. Pending = PushPending \cup {<<cur, back>>} /\ Pending' = PushPending
  BY <1>2, ProducersKept DEF Pending, LoopPending
<1>4. Pending \ {<<cur, back>>} = PushPending
  <2>1. \A e \in PushPending : e # <<cur, back>>
    BY SMTT(60), <1>2 DEF LocalInv, PushPending
  <2> QED
    BY <1>3, <2>1
<1>5. Chain(q, head, tail, next, Pending)' /\ next' \in [Nodes -> Nodes \cup {Null}]
  <2>1. Chain(q, head, tail, [next EXCEPT ![cur] = back], Pending \ {<<cur, back>>})
    BY <1>1, <1>2, <1>3, ChainLink DEF QueueInv, TypeOK
  <2>2. Chain(q, head', tail', next', Pending')
    BY <1>2, <1>3, <1>4, <2>1
  <2> QED
    BY <1>2, <2>2, NodeFacts DEF TypeOK
<1>6. Placed(q)'
  <2>1. Held = {} /\ Held' = {}
    BY <1>2 DEF Held
  <2> QED
    BY <1>1, <1>2, <2>1, ProducersKept DEF QueueInv, Placed
<1>7. Counted(q)'
  <2>1. Drained' = Drained /\ HeldCount' = HeldCount /\ Mark(q)' = Mark(q)
    BY <1>2 DEF Drained, HeldCount, Mark
  <2> QED
    BY <1>1, <1>2, <2>1, ProducersKept DEF QueueInv, Counted
<1>8. QueueInv(q)'
  BY <1>2, <1>5, <1>6, <1>7 DEF QueueInv, Rested
<1>9. TypeOK'
  BY SMTT(60), <1>2, <1>5 DEF TypeOK, producerVars
<1>10. LocalInv'
  BY <1>2, LocalKept DEF LocalInv
<1>11. WireInv'
  BY <1>2 DEF WireInv
<1> QED
  BY <1>8, <1>9, <1>10, <1>11 DEF DeliveryInv

LEMMA BeginWriteStep == ASSUME IInv, BeginWrite PROVE DeliveryInv'
<1>1. PICK q \in Seq(Nodes) : QueueInv(q)
  BY DEF IInv, DeliveryInv
<1>2. /\ loop = "drained" /\ loop' = "write" /\ queued' = queued - Len(batch)
      /\ UNCHANGED <<next, head, tail, writing, open, producerVars, goal, cur, back, batch, spawned, wire, freed, accepted>>
      /\ TypeOK /\ LocalInv /\ WireInv
  BY DEF BeginWrite, IInv, DeliveryInv, popVars
<1>3. Placed(q)'
  <2>1. Held = {} /\ Held' = {}
    BY <1>2 DEF Held
  <2> QED
    BY <1>1, <1>2, <2>1, ProducersKept DEF QueueInv, Placed
<1>4. Counted(q)' /\ queued' \in Nat
  <2>1. Drained = Len(batch) /\ Drained' = 0 /\ HeldCount = 0 /\ HeldCount' = 0 /\ Mark(q)' = Mark(q)
    BY <1>2 DEF Drained, HeldCount, Mark
  <2>2. /\ Cardinality(At({"exchange"})) \in Nat /\ Len(q) \in Nat /\ Mark(q) \in {0, 1} /\ Len(batch) \in Nat
    BY <1>2, CountTypes
  <2>3. Len(q) >= 1
    BY SMTT(60), <1>1 DEF QueueInv, Chain
  <2>4. queued = Cardinality(At({"exchange"})) + Len(q) - Mark(q) + Len(batch) + 0
    BY <1>1, <2>1 DEF QueueInv, Counted
  <2>5. queued' = Cardinality(At({"exchange"})) + Len(q) - Mark(q) + 0 + 0 /\ queued' \in Nat
    BY SMTT(60), <1>2, <2>2, <2>3, <2>4
  <2> QED
    BY <1>2, <2>1, <2>5, ProducersKept DEF Counted
<1>5. QueueInv(q)'
  <2>1. LoopPending = {} /\ LoopPending' = {}
    BY <1>2 DEF LoopPending
  <2>2. Chain(q, head, tail, next, Pending)'
    BY <1>1, <1>2, <2>1, QueueKept
  <2> QED
    BY <1>2, <1>3, <1>4, <2>2 DEF QueueInv, Rested
<1>6. TypeOK'
  BY SMTT(60), <1>2, <1>4 DEF TypeOK, producerVars
<1>7. LocalInv'
  BY <1>2, LocalKept DEF LocalInv
<1>8. WireInv'
  BY <1>2 DEF WireInv
<1> QED
  BY <1>5, <1>6, <1>7, <1>8 DEF DeliveryInv

LEMMA FailedResetStep == ASSUME IInv, FailedReset PROVE DeliveryInv'
<1>1. PICK q \in Seq(Nodes) : QueueInv(q)
  BY DEF IInv, DeliveryInv
<1>2. /\ loop = "failed" /\ loop' = "pop" /\ writing' = FALSE /\ goal' = "purge"
      /\ batch' = <<>> /\ freed' = freed \cup Range(batch)
      /\ UNCHANGED <<next, head, tail, queued, open, producerVars, cur, back, spawned, wire, accepted>>
      /\ TypeOK /\ LocalInv /\ WireInv
  BY DEF FailedReset, IInv, DeliveryInv
<1>3. batch' \in Seq(Messages) /\ Range(batch') = {} /\ IsInjective(batch') /\ Len(batch') = 0
  BY <1>2, EmptyElems
<1>4. Placed(q)'
  <2>1. Held = {} /\ Held' = {} /\ Range(batch)' = {}
    BY <1>2, <1>3 DEF Held
  <2> QED
    BY <1>1, <1>2, <2>1, ProducersKept DEF QueueInv, Placed, Split
<1>5. Counted(q)'
  <2>1. Drained' = Drained /\ HeldCount' = HeldCount /\ Mark(q)' = Mark(q)
    BY SMTT(60), <1>2, <1>3 DEF Drained, HeldCount, Mark
  <2> QED
    BY <1>1, <1>2, <2>1, ProducersKept DEF QueueInv, Counted
<1>6. QueueInv(q)'
  <2>1. LoopPending = {} /\ LoopPending' = {}
    BY <1>2 DEF LoopPending
  <2>2. Chain(q, head, tail, next, Pending)'
    BY <1>1, <1>2, <2>1, QueueKept
  <2> QED
    BY <1>2, <1>4, <1>5, <2>2 DEF QueueInv, Rested
<1>7. TypeOK'
  <2>1. freed' \subseteq Messages
    <3>1. Range(batch) \subseteq Messages /\ freed \subseteq Messages
      BY <1>2, ElemTypes DEF TypeOK
    <3> QED
      BY <1>2, <3>1
  <2> QED
    BY <1>2, <1>3, <2>1 DEF TypeOK, producerVars
<1>8. LocalInv'
  BY <1>2, LocalKept DEF LocalInv
<1>9. WireInv'
  BY <1>2, <1>3 DEF WireInv
<1> QED
  BY <1>6, <1>7, <1>8, <1>9 DEF DeliveryInv

\* The batch is written from the front.
LEMMA BatchSplit ==
    ASSUME NEW S, NEW b \in Seq(S), IsInjective(b), NEW k \in 1..Len(b)
    PROVE  LET a == SubSeq(b, 1, k)
               c == SubSeq(b, k + 1, Len(b))
           IN  /\ a \in Seq(S) /\ c \in Seq(S) /\ IsInjective(a) /\ IsInjective(c)
               /\ Range(b) = Range(a) \cup Range(c) /\ Range(a) \cap Range(c) = {}
               /\ k = Len(b) => c = <<>>
<1> DEFINE a == SubSeq(b, 1, k)
           c == SubSeq(b, k + 1, Len(b))
<1>1. a \in Seq(S) /\ Len(a) = k /\ \A i \in 1..k : a[i] = b[i]
  BY SMTT(60)
<1>2. c \in Seq(S) /\ Len(c) = Len(b) - k /\ \A i \in 1..Len(b) - k : c[i] = b[k + i]
  BY SMTT(60)
<1>3. DOMAIN a = 1..k /\ DOMAIN b = 1..Len(b) /\ DOMAIN c = 1..Len(b) - k /\ Len(b) \in Nat /\ k \in Nat
  BY SMTT(60), <1>1, <1>2
<1> HIDE DEF a, c
<1>4. \A i, j \in 1..Len(b) : b[i] = b[j] => i = j
  BY <1>3 DEF IsInjective
<1>5. IsInjective(a) /\ IsInjective(c)
  <2>1. IsInjective(a)
    BY SMTT(60), <1>1, <1>3, <1>4 DEF IsInjective
  <2>2. IsInjective(c)
    <3> SUFFICES ASSUME NEW i \in 1..Len(b) - k, NEW j \in 1..Len(b) - k, c[i] = c[j] PROVE i = j
      BY <1>3 DEF IsInjective
    <3>1. k + i \in 1..Len(b) /\ k + j \in 1..Len(b) /\ b[k + i] = b[k + j]
      BY SMTT(60), <1>2, <1>3
    <3>2. k + i = k + j
      BY <1>4, <3>1
    <3> QED
      BY SMTT(60), <1>3, <3>2
  <2> QED
    BY <2>1, <2>2
<1>6. \A x \in Range(b) : x \in Range(a) \/ x \in Range(c)
  <2> SUFFICES ASSUME NEW i \in 1..Len(b) PROVE b[i] \in Range(a) \/ b[i] \in Range(c)
    BY <1>3 DEF Range
  <2>1. CASE i <= k
    BY SMTT(60), <1>1, <1>3, <2>1 DEF Range
  <2>2. CASE i > k
    <3>1. i - k \in 1..Len(b) - k /\ c[i - k] = b[i]
      BY SMTT(60), <1>2, <1>3, <2>2
    <3> QED
      BY <1>3, <3>1 DEF Range
  <2> QED
    BY SMTT(60), <1>3, <2>1, <2>2
<1>7. \A x \in Range(a) : x \in Range(b)
  BY SMTT(60), <1>1, <1>3 DEF Range
<1>8. \A x \in Range(c) : x \in Range(b) /\ x \notin Range(a)
  <2> SUFFICES ASSUME NEW i \in 1..Len(b) - k PROVE c[i] \in Range(b) /\ c[i] \notin Range(a)
    BY <1>3 DEF Range
  <2>1. k + i \in 1..Len(b) /\ c[i] = b[k + i]
    BY SMTT(60), <1>2, <1>3
  <2>2. \A j \in 1..k : j \in 1..Len(b) /\ j # k + i
    BY SMTT(60), <1>3
  <2>3. \A j \in 1..k : a[j] # c[i]
    BY <1>1, <1>4, <2>1, <2>2
  <2> QED
    BY <1>3, <2>1, <2>3 DEF Range
<1>9. k = Len(b) => c = <<>>
  BY SMTT(60), <1>2, <1>3
<1> QED
  BY <1>1, <1>2, <1>5, <1>6, <1>7, <1>8, <1>9 DEF a, c

LEMMA WriteOkStep == ASSUME IInv, WriteOk PROVE DeliveryInv'
<1>1. PICK q \in Seq(Nodes) : QueueInv(q)
  BY DEF IInv, DeliveryInv
<1>2. PICK k \in 1..Len(batch) :
           /\ wire' = wire \o SubSeq(batch, 1, k)
           /\ freed' = freed \cup Range(SubSeq(batch, 1, k))
           /\ batch' = SubSeq(batch, k + 1, Len(batch))
           /\ loop' = IF k = Len(batch) THEN "pop" ELSE "write"
  BY DEF WriteOk
<1>3. /\ loop = "write" /\ open /\ goal' = "drain"
      /\ UNCHANGED <<next, head, tail, writing, queued, open, producerVars, cur, back, spawned, accepted>>
      /\ TypeOK /\ LocalInv /\ WireInv
  BY DEF WriteOk, IInv, DeliveryInv
<1>4. PICK a : a = SubSeq(batch, 1, k)
  OBVIOUS
<1>5. /\ a \in Seq(Messages) /\ batch' \in Seq(Messages) /\ IsInjective(a) /\ IsInjective(batch')
      /\ Range(batch) = Range(a) \cup Range(batch') /\ Range(a) \cap Range(batch') = {}
      /\ k = Len(batch) => batch' = <<>>
  BY <1>2, <1>3, <1>4, BatchSplit DEF TypeOK, WireInv
<1>6. loop' \in {"pop", "write"} /\ (loop' = "pop" => batch' = <<>>)
  BY <1>2, <1>5
<1>7. Range(batch) \cap freed = {}
  BY SMTT(60), <1>1 DEF QueueInv, Placed, Split
<1>8. Placed(q)'
  <2>1. Held = {} /\ Held' = {} /\ freed' = freed \cup Range(a)
    BY <1>2, <1>3, <1>4, <1>6 DEF Held
  <2> QED
    BY <1>1, <1>3, <1>5, <2>1, ProducersKept DEF QueueInv, Placed, Split
<1>9. Counted(q)'
  <2>1. Drained' = 0 /\ Drained = 0 /\ HeldCount' = HeldCount /\ Mark(q)' = Mark(q)
    BY <1>3, <1>6 DEF Drained, HeldCount, Mark
  <2> QED
    BY <1>1, <1>3, <2>1, ProducersKept DEF QueueInv, Counted
<1>10. QueueInv(q)'
  <2>1. LoopPending = {} /\ LoopPending' = {}
    BY <1>3, <1>6 DEF LoopPending
  <2>2. Chain(q, head, tail, next, Pending)'
    BY <1>1, <1>3, <2>1, QueueKept
  <2> QED
    BY <1>6, <1>8, <1>9, <2>2 DEF QueueInv, Rested
<1>11. wire' \in Seq(Messages) /\ Range(wire') = Range(wire) \cup Range(a) /\ IsInjective(wire')
  <2>1. Range(wire) \cap Range(a) = {}
    BY <1>3, <1>5, <1>7 DEF WireInv
  <2>2. wire' = wire \o a /\ wire \in Seq(Messages) /\ IsInjective(wire)
    BY <1>2, <1>3, <1>4 DEF TypeOK, WireInv
  <2>3. /\ wire \o a \in Seq(Messages) /\ Range(wire \o a) = Range(wire) \cup Range(a)
        /\ IsInjective(wire \o a)
    BY SMTT(60), <1>5, <2>1, <2>2, ConcatElems
  <2> QED
    BY <2>2, <2>3
<1>12. TypeOK'
  <2>1. freed' \subseteq Messages
    <3>1. Range(a) \subseteq Messages /\ freed \subseteq Messages
      BY <1>3, <1>5, ElemTypes DEF TypeOK
    <3> QED
      BY <1>2, <1>4, <3>1
  <2> QED
    BY <1>3, <1>5, <1>6, <1>11, <2>1 DEF TypeOK, producerVars
<1>13. LocalInv'
  BY <1>3, <1>6, LocalKept DEF LocalInv
<1>14. WireInv'
  BY <1>2, <1>3, <1>4, <1>5, <1>6, <1>11 DEF WireInv
<1> QED
  BY <1>10, <1>12, <1>13, <1>14 DEF DeliveryInv

LEMMA InitDelivers == Init => DeliveryInv
<1> SUFFICES ASSUME Init PROVE DeliveryInv
  OBVIOUS
<1> USE DEF Init
<1>1. At({"exchange"}) = {} /\ At({"link"}) = {} /\ At({"count", "exchange"}) = {}
  BY DEF At
<1>2. Pending = {} /\ Unpushed = {} /\ Held = {}
  BY <1>1 DEF Pending, PushPending, LoopPending, Unpushed, Held
<1>3. Range(batch) = {} /\ Range(wire) = {} /\ IsInjective(batch) /\ IsInjective(wire)
      /\ batch \in Seq(Messages) /\ wire \in Seq(Messages) /\ Len(batch) = 0
  BY EmptyElems
<1>4. PICK q : q = <<Stub>>
  OBVIOUS
<1>5. q \in Seq(Nodes) /\ Len(q) = 1 /\ q[1] = Stub /\ Range(q) = {Stub}
  BY SMTT(60), <1>4, NodeFacts DEF Range
<1>6. Chain(q, head, tail, next, Pending)
  BY SMTT(60), <1>2, <1>5, NodeFacts DEF Chain
<1>7. Placed(q) /\ Rested(q)
  BY <1>2, <1>3, <1>4, <1>5 DEF Placed, Split, Rested
<1>8. Counted(q)
  <2>1. Cardinality(At({"exchange"})) = 0 /\ Mark(q) = 1 /\ Drained = 0 /\ HeldCount = 0
    BY <1>1, <1>3, <1>5, FS_EmptySet DEF Mark, Drained, HeldCount
  <2> QED
    BY SMTT(60), <1>5, <2>1 DEF Counted
<1>9. TypeOK
  <2>1. /\ next \in [Nodes -> Nodes \cup {Null}] /\ sends \in [Producers -> 0..MaxSends]
        /\ prev \in [Producers -> Nodes \cup {Null}]
        /\ pc \in [Producers -> {"out", "count", "exchange", "link", "start"}]
    BY SMTT(60), BoundAssumption
  <2>2. head \in Nodes /\ tail \in Nodes /\ freed \subseteq Messages /\ accepted \subseteq Messages
    BY NodeFacts
  <2> QED
    BY <1>3, <2>1, <2>2 DEF TypeOK
<1>10. LocalInv
  BY <1>1, FS_EmptySet DEF LocalInv
<1>11. WireInv
  BY <1>3 DEF WireInv
<1> QED
  BY <1>5, <1>6, <1>7, <1>8, <1>9, <1>10, <1>11 DEF DeliveryInv, QueueInv

LEMMA NextDelivers == ASSUME IInv, Next PROVE DeliveryInv'
<1>1. ASSUME NEW p \in Producers, Send(p) \/ Push(p) PROVE DeliveryInv'
  BY <1>1, SendStep, CountStep, ExchangeStep, LinkStep, StartStep DEF Push
<1>2. CASE WriteLoop
  <2>1. CASE PopStep
    BY <2>1, PopHeadStep, PopTailStep, PopStubExchangeStep, PopStubLinkStep DEF PopStep
  <2>2. CASE LoopStart \/ GiveUp \/ Restart \/ WriteFails
    BY <2>2, QuietSteps
  <2>3. CASE PushBackExchange \/ PushBackLink
    BY <2>3, PushBackExchangeStep, PushBackLinkStep
  <2>4. CASE BeginWrite \/ WriteOk \/ FailedReset
    BY <2>4, BeginWriteStep, WriteOkStep, FailedResetStep
  <2> QED
    BY <1>2, <2>1, <2>2, <2>3, <2>4 DEF WriteLoop
<1> QED
  BY <1>1, <1>2 DEF Next

LEMMA StutterDelivers == ASSUME IInv, UNCHANGED vars PROVE DeliveryInv'
<1>1. PICK q \in Seq(Nodes) : QueueInv(q)
  BY DEF IInv, DeliveryInv
<1>2. QueueInv(q)'
  <2>1. Pending' = Pending /\ Held' = Held /\ LoopPending' = LoopPending
    BY ProducersKept DEF vars, popVars, Pending, LoopPending, Held
  <2>2. Placed(q)'
    BY <1>1, <2>1, ProducersKept DEF QueueInv, Placed, vars
  <2>3. Counted(q)'
    BY <1>1, ProducersKept DEF QueueInv, Counted, Mark, Drained, HeldCount, vars
  <2>4. Rested(q)'
    BY <1>1, ProducersKept DEF QueueInv, Rested, vars
  <2>5. Chain(q, head, tail, next, Pending)'
    BY <1>1, <2>1 DEF QueueInv, vars
  <2> QED
    BY <2>2, <2>3, <2>4, <2>5 DEF QueueInv
<1>3. TypeOK'
  BY DEF IInv, DeliveryInv, TypeOK, vars, producerVars, popVars
<1>4. LocalInv'
  <2>1. LocalInv /\ UNCHANGED producerVars /\ accepted' = accepted
    BY DEF IInv, DeliveryInv, vars
  <2>2. loop' = "againlink" => \A p \in At({"link"})' : Mine(p)' # back'
    BY <2>1, ProducersKept DEF LocalInv, vars, popVars
  <2> QED
    BY <2>1, <2>2, LocalKept DEF LocalInv, vars, popVars
<1>5. WireInv'
  BY DEF IInv, DeliveryInv, WireInv, vars, popVars
<1> QED
  BY <1>2, <1>3, <1>4, <1>5 DEF DeliveryInv

LEMMA InvDelivers == IInv => Delivered
<1> SUFFICES ASSUME IInv PROVE Delivered
  OBVIOUS
<1>1. PICK q \in Seq(Nodes) : QueueInv(q)
  BY DEF IInv, DeliveryInv
<1>2. TypeOK /\ LocalInv /\ WireInv /\ OwnerInv
  BY DEF IInv, DeliveryInv
<1>3. Range(q) \cap freed = {} /\ Null \notin freed
  BY SMTT(60), <1>1, <1>2, NodeFacts DEF QueueInv, Placed, Split, TypeOK
<1>4. \A a, b : <<a, b>> \in Pending => a \notin freed
  BY <1>1, <1>2, <1>3, ChainLink DEF QueueInv, TypeOK
<1>5. NoDanglingLink
  <2>1. \A p \in Producers : prev[p] \notin freed
    <3> SUFFICES ASSUME NEW p \in Producers PROVE prev[p] \notin freed
      OBVIOUS
    <3>1. CASE pc[p] = "link"
      BY <1>4, <3>1 DEF Pending, PushPending, At
    <3>2. CASE pc[p] # "link"
      BY <1>2, <1>3, <3>2 DEF LocalInv
    <3> QED
      BY <3>1, <3>2
  <2>2. loop \in {"poplink", "againlink"} => cur \notin freed
    BY <1>4 DEF Pending, LoopPending
  <2>3. head \notin freed
    <3>1. Len(q) \in Nat /\ Len(q) >= 1 /\ q[1] = head
      BY SMTT(60), <1>1 DEF QueueInv, Chain
    <3> QED
      BY SMTT(60), <1>3, <3>1 DEF Range
  <2> QED
    BY <2>1, <2>2, <2>3 DEF NoDanglingLink
<1>6. WrittenOnce
  BY <1>1, <1>2 DEF WrittenOnce, WireInv, QueueInv, Placed, Split
<1>7. NothingStranded
  <2> SUFFICES ASSUME Quiet PROVE queued = 0 /\ freed = accepted /\ (open => Range(wire) = accepted)
    BY DEF NothingStranded
  <2>1. ~writing /\ loop = "off" /\ batch = <<>>
    BY SMTT(60), <1>2 DEF Quiet, OwnerInv, Owns, LocalInv
  <2>2. At({"link", "start"}) = {} /\ At({"exchange"}) = {} /\ At({"count", "exchange"}) = {}
    BY DEF Quiet, At
  <2>3. q = <<Stub>>
    BY <1>1, <2>1, <2>2 DEF QueueInv, Rested
  <2>4. Range(q) = {Stub} /\ Len(q) = 1 /\ Range(batch) = {} /\ Len(batch) = 0
    BY SMTT(60), <2>1, <2>3, EmptyElems DEF Range
  <2>5. Unpushed = {} /\ Held = {}
    BY <2>1, <2>2 DEF Unpushed, Held
  <2>6. freed = accepted
    BY <1>1, <2>4, <2>5 DEF QueueInv, Placed, Split
  <2>7. Cardinality(At({"exchange"})) = 0 /\ Mark(q) = 1 /\ Drained = 0 /\ HeldCount = 0
    BY <2>1, <2>2, <2>4, FS_EmptySet DEF Mark, Drained, HeldCount
  <2>8. queued = 0
    BY SMTT(60), <1>1, <2>4, <2>7 DEF QueueInv, Counted
  <2> QED
    BY <1>2, <2>6, <2>8 DEF WireInv
<1> QED
  BY <1>2, <1>5, <1>6, <1>7 DEF Delivered

\* No message is lost, written twice or touched after it was freed, for any number of
\* producers and messages and any size of a batch: the nodes from head_ to tail_ are always
\* one sequence, linked but where a push is between its exchange and its store, and every
\* accepted message is in exactly one place.
THEOREM EveryMessageDelivered == Spec => []Delivered
<1>1. Init => IInv
  <2>1. Init => OwnerInv
    BY DEF Init, OwnerInv, Owns
  <2> QED
    BY <2>1, InitDelivers DEF IInv
<1>2. IInv /\ [Next]_vars => IInv'
  <2> SUFFICES ASSUME IInv, [Next]_vars PROVE IInv'
    OBVIOUS
  <2>1. DeliveryInv'
    BY NextDelivers, StutterDelivers
  <2>2. OwnerInv'
    BY OwnerKept DEF IInv
  <2> QED
    BY <2>1, <2>2 DEF IInv
<1> QED
  BY <1>1, <1>2, InvDelivers, PTL DEF Spec
=============================================================================
