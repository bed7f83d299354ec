----------------------- MODULE DbConnectionPoolProofs -----------------------
(* The safety of the connection pool for any number of clients, connections  *)
(* and faults: TypeOK, SingleOwner, CountExact and NoLostHandOver are        *)
(* invariants, proved together, because none is inductive alone.  From them  *)
(* follows that the pool implements ConnectionLeases, and that without a      *)
(* health checker nobody waits beside an idle connection, or for a place that *)
(* no fault has cost the pool.                                                *)
EXTENDS DbConnectionPool, SeqFacts, FiniteSetTheorems, TLAPS

\* The time a leaf may take.
USE ZenonT(60)

\* The waiting queue: no waiter is queued twice, a filled result slot belongs
\* to a client outside the queue, and whoever pings or holds has a connection.
WaitInv ==
    /\ NoLostHandOver
    /\ IsInjective(waiters)
    /\ \A c \in Clients : pc[c] \in {"ping", "hold"} => conn[c] # NoConn

\* The health checker holds connections only between taking and returning.
HealthInv ==
    /\ health \in {"next", "ping"} <=> checking # <<>>
    /\ health \notin {"next", "ping", "return"} => alive = <<>> /\ borrowed = 0
    /\ health = "create" => deficit > 0
    /\ initState = "filling" => health = "off"

IInv == TypeOK /\ SingleOwner /\ WaitInv /\ HealthInv /\ CountExact

-----------------------------------------------------------------------------
(* Counting                                                                  *)

\* Erasing one position.
LEMMA EraseElems ==
    ASSUME NEW S, NEW s \in Seq(S), NEW i \in 1..Len(s)
    PROVE  /\ Erase(s, i) \in Seq(S)
           /\ Range(Erase(s, i)) \subseteq Range(s)
           /\ IsInjective(s) => /\ IsInjective(Erase(s, i))
                               /\ s[i] \notin Range(Erase(s, i))
<1> DEFINE r == Erase(s, i)
<1>1. /\ r \in Seq(S) /\ Len(r) = Len(s) - 1
      /\ DOMAIN s = 1..Len(s) /\ DOMAIN r = 1..Len(r) /\ Len(s) \in Nat
      /\ \A j \in 1..Len(r) : r[j] = IF j < i THEN s[j] ELSE s[j + 1]
  <2> DEFINE a == SubSeq(s, 1, i - 1)
             b == SubSeq(s, i + 1, Len(s))
  <2>1. /\ a \in Seq(S) /\ Len(a) = i - 1
        /\ \A j \in 1..(i - 1) : a[j] = s[j]
    BY SMTT(60)
  <2>2. /\ b \in Seq(S) /\ Len(b) = Len(s) - i
        /\ \A j \in 1..(Len(s) - i) : b[j] = s[i + j]
    BY SMTT(60)
  <2>3. r = a \o b
    BY DEF Erase
  <2> HIDE DEF a, b, r
  <2>4. r \in Seq(S) /\ Len(r) = Len(s) - 1
    BY SMTT(60), <2>1, <2>2, <2>3
  <2>5. ASSUME NEW j \in 1..Len(r)
        PROVE  r[j] = IF j < i THEN s[j] ELSE s[j + 1]
    <3>1. CASE j < i
      BY SMTT(60), <2>1, <2>2, <2>3, <2>4, <3>1
    <3>2. CASE j >= i
      <4> DEFINE k == j - (i - 1)
      <4>1. r[j] = b[k] /\ k \in 1..(Len(s) - i) /\ i + k = j + 1
        BY SMTT(60), <2>1, <2>2, <2>3, <2>4, <3>2
      <4> HIDE DEF k
      <4> QED
        BY SMTT(60), <2>2, <3>2, <4>1
    <3> QED
      BY SMTT(60), <2>4, <3>1, <3>2
  <2> QED
    BY <2>4, <2>5, ElemIndex
<1> HIDE DEF r
<1>2. Range(r) \subseteq Range(s)
  BY SMTT(60), <1>1, ElemIndex
<1>3. ASSUME IsInjective(s) PROVE IsInjective(r) /\ s[i] \notin Range(r)
  <2> DEFINE pos(j) == IF j < i THEN j ELSE j + 1
  <2>1. \A j \in 1..Len(r) : pos(j) \in 1..Len(s) /\ pos(j) # i /\ r[j] = s[pos(j)]
    BY SMTT(60), <1>1
  <2>2. \A j, k \in 1..Len(r) : pos(j) = pos(k) => j = k
    BY SMTT(60)
  <2> HIDE DEF pos
  <2>3. \A j, k \in 1..Len(r) : r[j] = r[k] => j = k
    BY SMTT(60), <1>3, <2>1, <2>2, ElemIndex
  <2>4. \A j \in 1..Len(r) : r[j] # s[i]
    BY SMTT(60), <1>3, <2>1, ElemIndex
  <2> QED
    BY SMTT(60), <1>1, <2>3, <2>4, ElemIndex
<1> QED
  BY <1>1, <1>2, <1>3 DEF r

\* The sets that activeCount_ counts are finite.
LEMMA CountFinite ==
    ASSUME TypeOK
    PROVE  /\ IsFiniteSet(Counted) /\ Cardinality(Counted) \in Nat
           /\ IsFiniteSet(rolling) /\ Cardinality(rolling) \in Nat
  BY ClientsAssumption, ConnsAssumption, FS_Subset, FS_CardinalityType
     DEF TypeOK, Counted

LEMMA CountTypes ==
    ASSUME TypeOK
    PROVE  /\ activeCount \in Nat /\ borrowed \in Nat
           /\ Cardinality(Counted) \in Nat /\ Cardinality(rolling) \in Nat
  BY CountFinite DEF TypeOK

\* What a client's change of state does to the number of counted clients.
LEMMA CountedStep ==
    ASSUME TypeOK, NEW c \in Clients, NEW p \in ClientStates,
           pc' = [pc EXCEPT ![c] = p]
    PROVE  /\ pc[c] \in CountedStates /\ p \in CountedStates
                => Cardinality(Counted') = Cardinality(Counted)
           /\ pc[c] \notin CountedStates /\ p \notin CountedStates
                => Cardinality(Counted') = Cardinality(Counted)
           /\ pc[c] \notin CountedStates /\ p \in CountedStates
                => Cardinality(Counted') = Cardinality(Counted) + 1
           /\ pc[c] \in CountedStates /\ p \notin CountedStates
                => Cardinality(Counted') = Cardinality(Counted) - 1
<1>1. c \in Counted <=> pc[c] \in CountedStates
  BY DEF Counted
<1>2. IsFiniteSet(Counted)
  BY CountFinite
<1>3. CASE p \in CountedStates
  <2>1. Counted' = Counted \cup {c}
    BY <1>3 DEF TypeOK, Counted
  <2>2. Cardinality(Counted \cup {c})
          = IF c \in Counted THEN Cardinality(Counted) ELSE Cardinality(Counted) + 1
    BY <1>2, FS_AddElement
  <2> QED
    BY <1>1, <1>3, <2>1, <2>2
<1>4. CASE p \notin CountedStates
  <2>1. Counted' = Counted \ {c}
    BY <1>4 DEF TypeOK, Counted
  <2>2. Cardinality(Counted \ {c})
          = IF c \in Counted THEN Cardinality(Counted) - 1 ELSE Cardinality(Counted)
    BY <1>2, FS_RemoveElement
  <2> QED
    BY <1>1, <1>4, <2>1, <2>2
<1> QED
  BY <1>3, <1>4

\* A rollback that starts or ends.
LEMMA RollingStep ==
    ASSUME TypeOK, NEW n \in Conns
    PROVE  /\ n \in rolling => /\ Cardinality(rolling \ {n}) = Cardinality(rolling) - 1
                               /\ Cardinality(rolling) > 0
           /\ n \notin rolling => Cardinality(rolling \cup {n}) = Cardinality(rolling) + 1
<1>1. ASSUME n \in rolling
      PROVE  /\ Cardinality(rolling \ {n}) = Cardinality(rolling) - 1
             /\ Cardinality(rolling) > 0
  <2>1. IsFiniteSet(rolling \ {n}) /\ Cardinality(rolling \ {n}) = Cardinality(rolling) - 1
    BY <1>1, CountFinite, FS_RemoveElement
  <2>2. Cardinality(rolling \ {n}) \in Nat
    BY <2>1, FS_CardinalityType
  <2> QED
    BY SMTT(60), <2>1, <2>2, CountFinite
<1>2. ASSUME n \notin rolling
      PROVE  Cardinality(rolling \cup {n}) = Cardinality(rolling) + 1
  BY <1>2, CountFinite, FS_AddElement
<1> QED
  BY <1>1, <1>2

\* A counted client stands for at least one unit of activeCount_.
LEMMA CountedPositive ==
    ASSUME IInv, NEW c \in Counted
    PROVE  activeCount >= 1
<1>1. Cardinality(Counted) >= 1
  <2>1. Cardinality(Counted \ {c}) = Cardinality(Counted) - 1
    BY CountFinite, FS_RemoveElement DEF IInv
  <2>2. Cardinality(Counted \ {c}) \in Nat
    BY CountFinite, FS_RemoveElement, FS_CardinalityType DEF IInv
  <2> QED
    BY SMTT(60), <2>1, <2>2, CountFinite DEF IInv
<1> QED
  BY SMTT(60), <1>1, CountFinite DEF IInv, TypeOK, CountExact

-----------------------------------------------------------------------------
(* acquire()                                                                 *)

LEMMA AcquireEnterInv ==
    ASSUME IInv, NEW c \in Clients, AcquireEnter(c)
    PROVE  IInv'
<1> USE DEF IInv, AcquireEnter, healthVars, initVars
<1>1. TypeOK'
  BY DEF TypeOK, ClientStates
<1>2. SingleOwner'
  BY DEF TypeOK, SingleOwner, Holders
<1>3. WaitInv'
  BY DEF TypeOK, WaitInv, NoLostHandOver
<1>4. HealthInv'
  BY DEF HealthInv
<1>5. CountExact'
  <2>1. Cardinality(Counted') = Cardinality(Counted)
    BY CountedStep DEF CountedStates, ClientStates
  <2> QED
    BY <2>1, CountTypes DEF CountExact
<1> QED
  BY <1>1, <1>2, <1>3, <1>4, <1>5

\* Taking an idle connection, from the entry (active = activeCount) or after
\* a failed ping, whose count is given back first (active = activeCount - 1).
LEMMA TakeIdleInv ==
    ASSUME IInv, NEW c \in Clients, NEW active, NEW spent \in Nat,
           \/ pc[c] = "enter" /\ active = activeCount
           \/ pc[c] = "ping" /\ active = activeCount - 1,
           TakeIdle(c, active, spent),
           UNCHANGED <<shutdown, rolling, healthVars, initVars>>
    PROVE  IInv'
<1> USE DEF IInv, healthVars, initVars
<1>1. PICK k \in 0..(Len(idle) - 1) :
        /\ faults >= k + spent /\ faults' = faults - (k + spent)
        /\ idle' = SubSeq(idle, 1, Len(idle) - k - 1)
        /\ conn' = [conn EXCEPT ![c] = idle[Len(idle) - k]]
        /\ activeCount' = active + 1
        /\ waiters' = waiters
  BY DEF TakeIdle, Fault
<1>2. PICK p \in {"ping", "hold"} : pc' = [pc EXCEPT ![c] = p]
  BY DEF TakeIdle
<1> DEFINE x == idle[Len(idle) - k]
<1>3. /\ idle' \in Seq(Conns)
      /\ Range(idle') \subseteq Range(idle)
      /\ x \in Range(idle) /\ x \in Conns
      /\ IsInjective(idle') /\ x \notin Range(idle')
  BY <1>1, PrefixElems DEF TypeOK, SingleOwner
<1>4. conn' = [conn EXCEPT ![c] = x]
  BY <1>1
<1> HIDE DEF x
<1>5. c \notin Range(waiters)
  BY DEF WaitInv, NoLostHandOver
<1>6. activeCount' \in Nat /\ faults' \in Nat
  BY SMTT(60), <1>1, CountedPositive DEF TypeOK, Counted, CountedStates
<1>7. TypeOK'
  BY <1>1, <1>2, <1>3, <1>4, <1>6 DEF TypeOK, ClientStates
<1>8. SingleOwner'
  BY SMTT(60), <1>3, <1>4, NoConnAssumption DEF TypeOK, SingleOwner, Holders
<1>9. WaitInv'
  BY <1>1, <1>2, <1>3, <1>4, <1>5, NoConnAssumption DEF TypeOK, WaitInv, NoLostHandOver
<1>10. HealthInv'
  BY DEF HealthInv
<1>11. CountExact'
  <2>1. CASE pc[c] = "enter"
    <3>1. Cardinality(Counted') = Cardinality(Counted) + 1
      BY <1>2, <2>1, CountedStep DEF CountedStates, ClientStates
    <3>2. activeCount' = activeCount + 1
      BY <1>1, <2>1
    <3> QED
      BY SMTT(60), <3>1, <3>2, CountTypes DEF CountExact
  <2>2. CASE pc[c] = "ping"
    <3>1. Cardinality(Counted') = Cardinality(Counted)
      BY <1>2, <2>2, CountedStep DEF CountedStates, ClientStates
    <3>2. activeCount' = (activeCount - 1) + 1
      BY <1>1, <2>2
    <3> QED
      BY SMTT(60), <3>1, <3>2, CountTypes DEF CountExact
  <2> QED
    BY <2>1, <2>2
<1> QED
  BY <1>7, <1>8, <1>9, <1>10, <1>11

\* Reserving a slot for a new connection, or queueing up.
LEMMA ReserveOrWaitInv ==
    ASSUME IInv, NEW c \in Clients, NEW active, NEW spent \in Nat,
           \/ pc[c] = "enter" /\ active = activeCount
           \/ pc[c] = "ping" /\ active = activeCount - 1,
           ReserveOrWait(c, active, spent),
           UNCHANGED <<shutdown, rolling, healthVars, initVars>>
    PROVE  IInv'
<1> USE DEF IInv, healthVars, initVars
<1>1. /\ idle' = <<>>
      /\ conn' = [conn EXCEPT ![c] = NoConn]
      /\ faults >= Len(idle) + spent /\ faults' = faults - (Len(idle) + spent)
  BY DEF ReserveOrWait, Fault
<1>2. \/ /\ activeCount' = active + 1
         /\ pc' = [pc EXCEPT ![c] = "create"]
         /\ waiters' = waiters
      \/ /\ activeCount' = active
         /\ pc' = [pc EXCEPT ![c] = "wait"]
         /\ waiters' = Append(waiters, c)
  BY DEF ReserveOrWait
<1>3. c \notin Range(waiters)
  BY DEF WaitInv, NoLostHandOver
<1>4. active \in Nat /\ faults' \in Nat
  BY SMTT(60), <1>1, CountedPositive DEF TypeOK, Counted, CountedStates
<1>5. /\ waiters' \in Seq(Clients)
      /\ IsInjective(waiters')
      /\ \/ pc' = [pc EXCEPT ![c] = "create"] /\ Range(waiters') = Range(waiters)
         \/ pc' = [pc EXCEPT ![c] = "wait"] /\ Range(waiters') = Range(waiters) \cup {c}
  <2>1. /\ Append(waiters, c) \in Seq(Clients)
        /\ Range(Append(waiters, c)) = Range(waiters) \cup {c}
        /\ IsInjective(Append(waiters, c))
    BY SMTT(60), <1>3, AppendElems DEF TypeOK, WaitInv
  <2> QED
    BY <1>2, <2>1 DEF TypeOK, WaitInv
<1>6. TypeOK'
  <2>1. activeCount' \in Nat /\ idle' \in Seq(Conns)
    BY SMTT(60), <1>1, <1>2, <1>4, EmptyElems
  <2>2. pc' \in [Clients -> ClientStates]
    BY <1>5 DEF TypeOK, ClientStates
  <2>3. conn' \in [Clients -> Conns \cup {NoConn}]
    BY <1>1 DEF TypeOK
  <2> QED
    BY <1>4, <1>5, <2>1, <2>2, <2>3 DEF TypeOK
<1>7. SingleOwner'
  BY <1>1, EmptyElems DEF TypeOK, SingleOwner, Holders
<1>8. WaitInv'
  BY <1>1, <1>5 DEF TypeOK, WaitInv, NoLostHandOver
<1>9. HealthInv'
  BY DEF HealthInv
<1>10. CountExact'
  <2>1. CASE activeCount' = active + 1 /\ pc' = [pc EXCEPT ![c] = "create"]
    <3>1. \/ pc[c] = "enter" /\ Cardinality(Counted') = Cardinality(Counted) + 1
          \/ pc[c] = "ping" /\ Cardinality(Counted') = Cardinality(Counted)
      BY <2>1, CountedStep DEF CountedStates, ClientStates
    <3> QED
      BY SMTT(60), <2>1, <3>1, CountTypes DEF CountExact
  <2>2. CASE activeCount' = active /\ pc' = [pc EXCEPT ![c] = "wait"]
    <3>1. \/ pc[c] = "enter" /\ Cardinality(Counted') = Cardinality(Counted)
          \/ pc[c] = "ping" /\ Cardinality(Counted') = Cardinality(Counted) - 1
      BY <2>2, CountedStep DEF CountedStates, ClientStates
    <3> QED
      BY SMTT(60), <2>2, <3>1, CountTypes DEF CountExact
  <2> QED
    BY <1>2, <2>1, <2>2
<1> QED
  BY <1>6, <1>7, <1>8, <1>9, <1>10

LEMMA PingOkInv ==
    ASSUME IInv, NEW c \in Clients, PingOk(c)
    PROVE  IInv'
<1> USE DEF IInv, PingOk, healthVars, initVars
<1>1. TypeOK'
  BY DEF TypeOK, ClientStates
<1>2. SingleOwner'
  BY DEF TypeOK, SingleOwner, Holders
<1>3. WaitInv'
  BY DEF TypeOK, WaitInv, NoLostHandOver
<1>4. HealthInv'
  BY DEF HealthInv
<1>5. CountExact'
  <2>1. Cardinality(Counted') = Cardinality(Counted)
    BY CountedStep DEF CountedStates, ClientStates
  <2> QED
    BY <2>1, CountTypes DEF CountExact
<1> QED
  BY <1>1, <1>2, <1>3, <1>4, <1>5

LEMMA CreateOkInv ==
    ASSUME IInv, NEW c \in Clients, CreateOk(c)
    PROVE  IInv'
<1> USE DEF IInv, CreateOk, healthVars, initVars
<1>1. PICK n \in Fresh : conn' = [conn EXCEPT ![c] = n]
  OBVIOUS
<1>2. TypeOK'
  BY <1>1 DEF TypeOK, ClientStates, Fresh
<1>3. SingleOwner'
  BY SMTT(60), <1>1 DEF TypeOK, SingleOwner, Holders, Fresh, Referenced
<1>4. WaitInv'
  BY <1>1, NoConnAssumption DEF TypeOK, WaitInv, NoLostHandOver, Fresh
<1>5. HealthInv'
  BY DEF HealthInv
<1>6. CountExact'
  <2>1. Cardinality(Counted') = Cardinality(Counted)
    BY CountedStep DEF CountedStates, ClientStates
  <2> QED
    BY <2>1, CountTypes DEF CountExact
<1> QED
  BY <1>2, <1>3, <1>4, <1>5, <1>6

LEMMA CreateFailsInv ==
    ASSUME IInv, NEW c \in Clients, CreateFails(c)
    PROVE  IInv'
<1> USE DEF IInv, CreateFails, healthVars, initVars
<1>1. TypeOK'
  BY SMTT(60), CountedPositive DEF TypeOK, ClientStates, Counted, CountedStates, Fault
<1>2. SingleOwner'
  BY DEF TypeOK, SingleOwner, Holders
<1>3. WaitInv'
  BY DEF TypeOK, WaitInv, NoLostHandOver
<1>4. HealthInv'
  BY DEF HealthInv
<1>5. CountExact'
  <2>1. Cardinality(Counted') = Cardinality(Counted) - 1
    BY CountedStep DEF CountedStates, ClientStates
  <2> QED
    BY SMTT(60), <2>1, CountTypes DEF CountExact
<1> QED
  BY <1>1, <1>2, <1>3, <1>4, <1>5

\* A waiter that finds its result slot filled.
LEMMA ServedInv ==
    ASSUME IInv, NEW c \in Clients, pc[c] \in {"wait", "timedout"}, Served(c)
    PROVE  IInv'
<1> USE DEF IInv, Served, healthVars, initVars
<1>1. TypeOK'
  BY SMTT(60) DEF TypeOK, ClientStates
<1>2. SingleOwner'
  BY DEF TypeOK, SingleOwner, Holders
<1>3. WaitInv'
  BY DEF TypeOK, WaitInv, NoLostHandOver
<1>4. HealthInv'
  BY DEF HealthInv
<1>5. CountExact'
  <2>1. Cardinality(Counted') = Cardinality(Counted) + 1
    BY CountedStep DEF CountedStates, ClientStates
  <2> QED
    BY SMTT(60), <2>1, CountTypes DEF CountExact
<1> QED
  BY <1>1, <1>2, <1>3, <1>4, <1>5

\* A waiter that finds it empty: it goes on to leave the queue.
LEMMA UnservedInv ==
    ASSUME IInv, NEW c \in Clients, pc[c] = "wait",
           pc' = [pc EXCEPT ![c] = "timedout"],
           UNCHANGED <<idle, activeCount, waiters, shutdown, conn, rolling,
                       healthVars, initVars, faults>>
    PROVE  IInv'
<1> USE DEF IInv, healthVars, initVars
<1>1. TypeOK'
  BY DEF TypeOK, ClientStates
<1>2. SingleOwner'
  BY DEF TypeOK, SingleOwner, Holders
<1>3. WaitInv'
  BY DEF TypeOK, WaitInv, NoLostHandOver
<1>4. HealthInv'
  BY DEF HealthInv
<1>5. CountExact'
  <2>1. Cardinality(Counted') = Cardinality(Counted)
    BY CountedStep DEF CountedStates, ClientStates
  <2> QED
    BY <2>1, CountTypes DEF CountExact
<1> QED
  BY <1>1, <1>2, <1>3, <1>4, <1>5

LEMMA LeaveQueueInv ==
    ASSUME IInv, NEW c \in Clients, LeaveQueue(c)
    PROVE  IInv'
<1> USE DEF IInv, healthVars, initVars
<1>1. CASE Served(c)
  BY <1>1, ServedInv DEF LeaveQueue
<1>2. CASE ~Served(c)
  <2>1. /\ pc[c] = "timedout" /\ conn[c] = NoConn
        /\ pc' = [pc EXCEPT ![c] = "out"]
        /\ UNCHANGED <<idle, activeCount, shutdown, conn, rolling, healthVars,
                       initVars, faults>>
    BY <1>2 DEF LeaveQueue
  <2>2. /\ waiters' \in Seq(Clients)
        /\ Range(waiters') \subseteq Range(waiters)
        /\ IsInjective(waiters')
        /\ c \notin Range(waiters')
    BY SMTT(60), <1>2, EraseElems DEF LeaveQueue, TypeOK, WaitInv
  <2>3. TypeOK'
    BY <2>1, <2>2 DEF TypeOK, ClientStates
  <2>4. SingleOwner'
    BY <2>1 DEF TypeOK, SingleOwner, Holders
  <2>5. WaitInv'
    BY <2>1, <2>2 DEF TypeOK, WaitInv, NoLostHandOver
  <2>6. HealthInv'
    BY <2>1 DEF HealthInv
  <2>7. CountExact'
    <3>1. Cardinality(Counted') = Cardinality(Counted)
      BY <2>1, CountedStep DEF CountedStates, ClientStates
    <3> QED
      BY <2>1, <3>1, CountTypes DEF CountExact
  <2> QED
    BY <2>3, <2>4, <2>5, <2>6, <2>7
<1> QED
  BY <1>1, <1>2

-----------------------------------------------------------------------------
(* release()                                                                 *)

\* What HandBack does to a connection n nobody else refers to: it ends up with
\* one waiter, on the idle stack, or nowhere.
LEMMA HandBackFacts ==
    ASSUME TypeOK, NEW n \in Conns, NEW others \in [Clients -> Conns \cup {NoConn}],
           IsInjective(waiters), IsInjective(idle), n \notin Range(idle),
           HandBack(n, others)
    PROVE  /\ idle' \in Seq(Conns) /\ IsInjective(idle')
           /\ waiters' \in Seq(Clients) /\ IsInjective(waiters')
           /\ conn' \in [Clients -> Conns \cup {NoConn}]
           /\ \/ /\ \E d \in Range(waiters) :
                       /\ d \in Clients
                       /\ conn' = [others EXCEPT ![d] = n]
                       /\ Range(waiters') = Range(waiters) \ {d}
                 /\ idle' = idle
              \/ /\ conn' = others /\ waiters' = waiters
                 /\ Range(idle') \subseteq Range(idle) \cup {n}
<1>1. CASE waiters # <<>>
  <2>1. /\ waiters' = Tail(waiters)
        /\ conn' = [others EXCEPT ![Head(waiters)] = n]
        /\ idle' = idle
    BY <1>1 DEF HandBack
  <2>2. /\ Tail(waiters) \in Seq(Clients) /\ IsInjective(Tail(waiters))
        /\ Head(waiters) \in Clients
        /\ Range(waiters) = {Head(waiters)} \cup Range(Tail(waiters))
        /\ Head(waiters) \notin Range(Tail(waiters))
    BY <1>1, TailElems DEF TypeOK
  <2>3. /\ Head(waiters) \in Range(waiters)
        /\ Range(Tail(waiters)) = Range(waiters) \ {Head(waiters)}
    BY <2>2
  <2> HIDE DEF HandBack
  <2> QED
    BY <2>1, <2>2, <2>3 DEF TypeOK
<1>2. CASE waiters = <<>>
  <2>1. /\ waiters' = waiters /\ conn' = others
        /\ idle' = IF Stopping THEN idle ELSE Append(idle, n)
    BY <1>2 DEF HandBack
  <2>2. /\ Append(idle, n) \in Seq(Conns) /\ IsInjective(Append(idle, n))
        /\ Range(Append(idle, n)) = Range(idle) \cup {n}
    BY SMTT(60), AppendElems DEF TypeOK
  <2> QED
    BY <2>1, <2>2 DEF TypeOK
<1> QED
  BY <1>1, <1>2

LEMMA ReleaseInv ==
    ASSUME IInv, NEW c \in Clients, Release(c)
    PROVE  IInv'
<1> USE DEF IInv, healthVars, initVars
<1> DEFINE n == conn[c]
           others == [conn EXCEPT ![c] = NoConn]
<1>1. /\ pc[c] = "hold" /\ pc' = [pc EXCEPT ![c] = "out"]
      /\ activeCount' = IF activeCount > 0 THEN activeCount - 1 ELSE 0
      /\ HandBack(n, others)
      /\ UNCHANGED <<shutdown, rolling, healthVars, initVars, faults>>
  BY DEF Release
<1>2. n \in Conns /\ others \in [Clients -> Conns \cup {NoConn}]
  BY <1>1 DEF TypeOK, WaitInv
<1>3. /\ n \notin Range(idle) /\ n \notin rolling
      /\ n \notin Range(checking) /\ n \notin Range(alive)
      /\ \A d \in Clients : others[d] # n
      /\ \A d \in Clients : d # c => others[d] = conn[d]
      /\ others[c] = NoConn
  BY <1>2, NoConnAssumption DEF TypeOK, SingleOwner, Holders
<1>4. c \notin Range(waiters)
  BY <1>1 DEF WaitInv, NoLostHandOver
<1> HIDE DEF n, others
<1>5. /\ idle' \in Seq(Conns) /\ IsInjective(idle')
      /\ waiters' \in Seq(Clients) /\ IsInjective(waiters')
      /\ conn' \in [Clients -> Conns \cup {NoConn}]
      /\ \/ /\ \E d \in Range(waiters) :
                  /\ d \in Clients
                  /\ conn' = [others EXCEPT ![d] = n]
                  /\ Range(waiters') = Range(waiters) \ {d}
            /\ idle' = idle
         \/ /\ conn' = others /\ waiters' = waiters
            /\ Range(idle') \subseteq Range(idle) \cup {n}
  BY <1>1, <1>2, <1>3, HandBackFacts DEF WaitInv, SingleOwner
<1>6. TypeOK'
  <2>1. activeCount' \in Nat
    BY SMTT(60), <1>1 DEF TypeOK
  <2>2. pc' \in [Clients -> ClientStates]
    BY <1>1 DEF TypeOK, ClientStates
  <2> QED
    BY <1>1, <1>5, <2>1, <2>2 DEF TypeOK
<1>7. SingleOwner'
  <2>1. \A e \in Clients : conn'[e] \in {NoConn, n, conn[e]}
    BY <1>2, <1>3, <1>5 DEF TypeOK
  <2>2. \A e, f \in Clients : conn'[e] = n /\ conn'[f] = n => e = f
    BY <1>2, <1>3, <1>5, NoConnAssumption DEF TypeOK
  <2>3. \A e \in Clients : conn'[e] = n => n \notin Range(idle')
    BY <1>2, <1>3, <1>5 DEF TypeOK
  <2>4. Range(idle') \subseteq Range(idle) \cup {n}
    BY <1>2, <1>3, <1>5
  <2>5. \A e, f \in Holders' : conn'[e] = conn'[f] => e = f
    BY SMTT(60), <1>2, <1>3, <1>5, <2>1, <2>2 DEF SingleOwner, Holders
  <2>6. \A e \in Holders' : conn'[e] \notin Range(idle') \cup rolling
                                    \cup Range(checking) \cup Range(alive)
    BY <1>3, <1>5, <2>1, <2>3, <2>4 DEF SingleOwner, Holders
  <2>7. UNCHANGED <<rolling, checking, alive>>
    BY <1>1
  <2> QED
    BY SMTT(60), <1>3, <1>5, <2>4, <2>5, <2>6, <2>7 DEF SingleOwner
<1>8. WaitInv'
  BY <1>1, <1>2, <1>3, <1>4, <1>5, NoConnAssumption DEF TypeOK, WaitInv, NoLostHandOver
<1>9. HealthInv'
  BY <1>1 DEF HealthInv
<1>10. CountExact'
  <2>1. Cardinality(Counted') = Cardinality(Counted) - 1
    BY <1>1, CountedStep DEF CountedStates, ClientStates
  <2>2. activeCount >= 1
    BY <1>1, CountedPositive DEF Counted, CountedStates
  <2> QED
    BY SMTT(60), <1>1, <2>1, <2>2, CountTypes DEF CountExact
<1> QED
  BY <1>6, <1>7, <1>8, <1>9, <1>10

LEMMA ReleaseInTransactionInv ==
    ASSUME IInv, NEW c \in Clients, ReleaseInTransaction(c)
    PROVE  IInv'
<1> USE DEF IInv, ReleaseInTransaction, healthVars, initVars
<1>1. conn[c] \in Conns /\ conn[c] \notin rolling
  BY DEF TypeOK, WaitInv, SingleOwner, Holders
<1>2. TypeOK'
  BY <1>1 DEF TypeOK, ClientStates
<1>3. SingleOwner'
  BY SMTT(60), <1>1 DEF TypeOK, WaitInv, SingleOwner, Holders
<1>4. WaitInv'
  BY DEF TypeOK, WaitInv, NoLostHandOver
<1>5. HealthInv'
  BY DEF HealthInv
<1>6. CountExact'
  <2>1. Cardinality(Counted') = Cardinality(Counted) - 1
    BY CountedStep DEF CountedStates, ClientStates
  <2>2. Cardinality(rolling') = Cardinality(rolling) + 1
    BY <1>1, RollingStep
  <2> QED
    BY SMTT(60), <2>1, <2>2, CountTypes DEF CountExact
<1> QED
  BY <1>2, <1>3, <1>4, <1>5, <1>6

LEMMA RollbackOkInv ==
    ASSUME IInv, NEW n \in Conns, RollbackOk(n)
    PROVE  IInv'
<1> USE DEF IInv, healthVars, initVars
<1>1. /\ n \in rolling /\ rolling' = rolling \ {n}
      /\ activeCount' = IF activeCount > 0 THEN activeCount - 1 ELSE 0
      /\ UNCHANGED <<shutdown, pc, healthVars, initVars, faults>>
  BY DEF RollbackOk
<1>2. /\ n \notin Range(idle) /\ n \notin Range(checking) /\ n \notin Range(alive)
      /\ \A d \in Clients : conn[d] # n
  BY SMTT(60), <1>1, NoConnAssumption DEF TypeOK, SingleOwner, Holders
<1>3. /\ idle' \in Seq(Conns) /\ IsInjective(idle')
      /\ waiters' \in Seq(Clients) /\ IsInjective(waiters')
      /\ conn' \in [Clients -> Conns \cup {NoConn}]
      /\ \/ /\ \E d \in Range(waiters) :
                  /\ d \in Clients
                  /\ conn' = [conn EXCEPT ![d] = n]
                  /\ Range(waiters') = Range(waiters) \ {d}
            /\ idle' = idle
         \/ /\ conn' = conn /\ waiters' = waiters
            /\ Range(idle') \subseteq Range(idle) \cup {n}
  <2>1. CASE HandBack(n, conn)
    BY <1>2, <2>1, HandBackFacts DEF TypeOK, WaitInv, SingleOwner
  <2>2. CASE UNCHANGED <<idle, waiters, conn>>
    BY <2>2 DEF TypeOK, WaitInv, SingleOwner
  <2> QED
    BY <2>1, <2>2 DEF RollbackOk
<1>4. TypeOK'
  BY SMTT(60), <1>1, <1>3 DEF TypeOK
<1>5. SingleOwner'
  <2>1. \A e \in Clients : conn'[e] \in {NoConn, n, conn[e]}
    BY <1>2, <1>3 DEF TypeOK
  <2>2. \A e, f \in Clients : conn'[e] = n /\ conn'[f] = n => e = f
    BY <1>2, <1>3, NoConnAssumption DEF TypeOK
  <2>3. \A e \in Clients : conn'[e] = n => n \notin Range(idle')
    BY <1>2, <1>3 DEF TypeOK
  <2>4. Range(idle') \subseteq Range(idle) \cup {n}
    BY <1>2, <1>3
  <2>5. \A e, f \in Holders' : conn'[e] = conn'[f] => e = f
    BY <1>2, <1>3, <2>1, <2>2 DEF SingleOwner, Holders
  <2> QED
    BY SMTT(60), <1>1, <1>2, <1>3, <2>1, <2>3, <2>4, <2>5 DEF TypeOK, SingleOwner, Holders, healthVars
<1>6. WaitInv'
  BY <1>1, <1>2, <1>3, NoConnAssumption DEF TypeOK, WaitInv, NoLostHandOver
<1>7. HealthInv'
  BY <1>1 DEF HealthInv
<1>8. CountExact'
  <2>1. Counted' = Counted
    BY <1>1 DEF Counted
  <2>2. Cardinality(rolling') = Cardinality(rolling) - 1 /\ Cardinality(rolling) > 0
    BY <1>1, RollingStep
  <2> QED
    BY SMTT(60), <1>1, <2>1, <2>2, CountTypes DEF CountExact
<1> QED
  BY <1>4, <1>5, <1>6, <1>7, <1>8

LEMMA RollbackFailsInv ==
    ASSUME IInv, NEW n \in Conns, RollbackFails(n)
    PROVE  IInv'
<1> USE DEF IInv, RollbackFails, clientVars, healthVars, initVars
<1>1. TypeOK'
  BY SMTT(60) DEF TypeOK, Fault
<1>2. SingleOwner'
  BY DEF TypeOK, SingleOwner, Holders
<1>3. WaitInv'
  BY DEF WaitInv, NoLostHandOver
<1>4. HealthInv'
  BY DEF HealthInv
<1>5. CountExact'
  <2>1. Counted' = Counted
    BY DEF Counted
  <2>2. Cardinality(rolling') = Cardinality(rolling) - 1 /\ Cardinality(rolling) > 0
    BY RollingStep
  <2> QED
    BY SMTT(60), <2>1, <2>2, CountTypes DEF CountExact
<1> QED
  BY <1>1, <1>2, <1>3, <1>4, <1>5

-----------------------------------------------------------------------------
(* init(), shutdown(), idleCheckLoop() and healthCheckLoop()                 *)

LEMMA InitConnectionInv ==
    ASSUME IInv, InitConnection
    PROVE  IInv'
<1> USE DEF IInv, InitConnection, clientVars, healthVars
<1>1. TypeOK'
  BY SMTT(60), AppendElems DEF TypeOK, Fresh
<1>2. SingleOwner'
  BY SMTT(60), AppendElems DEF TypeOK, SingleOwner, Holders, Fresh, Referenced
<1>3. WaitInv'
  BY DEF WaitInv, NoLostHandOver
<1>4. HealthInv'
  BY DEF HealthInv
<1>5. CountExact'
  BY DEF CountExact, Counted
<1> QED
  BY <1>1, <1>2, <1>3, <1>4, <1>5

LEMMA InitEndInv ==
    ASSUME IInv, InitFails \/ InitFinish
    PROVE  IInv'
<1> USE DEF IInv, InitFails, InitFinish, clientVars, healthVars
<1>1. TypeOK'
  BY SMTT(60) DEF TypeOK, Fault
<1>2. SingleOwner'
  BY DEF TypeOK, SingleOwner, Holders
<1>3. WaitInv'
  BY DEF WaitInv, NoLostHandOver
<1>4. HealthInv'
  BY DEF HealthInv
<1>5. CountExact'
  BY DEF CountExact, Counted
<1> QED
  BY <1>1, <1>2, <1>3, <1>4, <1>5

LEMMA ShutdownInv ==
    ASSUME IInv, ShutdownStep
    PROVE  IInv'
<1> USE DEF IInv, ShutdownStep, ShutdownFlag, ShutdownClear, clientVars,
            healthVars, initVars
<1>1. TypeOK'
  BY EmptyElems DEF TypeOK
<1>2. SingleOwner'
  BY EmptyElems DEF TypeOK, SingleOwner, Holders
<1>3. WaitInv'
  BY EmptyElems DEF WaitInv, NoLostHandOver
<1>4. HealthInv'
  BY DEF HealthInv
<1>5. CountExact'
  BY DEF CountExact, Counted
<1> QED
  BY <1>1, <1>2, <1>3, <1>4, <1>5

\* A subsequence has only elements of the sequence, none of them twice.
LEMMA SubsequenceElems ==
    ASSUME NEW S, NEW s \in Seq(S), NEW n \in Nat, NEW e \in [1..n -> 1..Len(s)],
           \A i, j \in 1..n : i < j => e[i] < e[j]
    PROVE  /\ Subsequence(s, e) \in Seq(S)
           /\ Range(Subsequence(s, e)) \subseteq Range(s)
           /\ IsInjective(s) => IsInjective(Subsequence(s, e))
<1> DEFINE t == Subsequence(s, e)
<1>1. t = [j \in 1..n |-> s[e[j]]]
  BY DEF Subsequence
<1>2. t \in Seq(S) /\ Len(t) = n
  BY SMTT(60), <1>1
<1>3. \A j \in 1..n : t[j] = s[e[j]] /\ e[j] \in 1..Len(s)
  BY <1>1
<1> HIDE DEF t
<1>4. ASSUME NEW x \in Range(t) PROVE x \in Range(s)
  <2>1. PICK j \in 1..n : t[j] = x
    BY SMTT(60), <1>2, ElemIndex
  <2> QED
    BY <1>3, <2>1, ElemIndex
<1>5. ASSUME IsInjective(s) PROVE IsInjective(t)
  <2>1. ASSUME NEW i \in 1..n, NEW j \in 1..n, t[i] = t[j] PROVE i = j
    <3>1. e[i] = e[j]
      BY SMTT(60), <1>3, <1>5, <2>1, ElemIndex
    <3>2. ~(i < j) /\ ~(j < i)
      BY SMTT(60), <1>3, <3>1
    <3> QED
      BY SMTT(60), <3>2
  <2> QED
    BY <1>2, <2>1, ElemIndex
<1> QED
  BY <1>2, <1>4, <1>5 DEF t

LEMMA IdleCheckInv ==
    ASSUME IInv, IdleCheck
    PROVE  IInv'
<1> USE DEF IInv, IdleCheck, clientVars, healthVars, initVars
<1>1. PICK n \in MinConnections..(Len(idle) - 1) :
        \E e \in [1..n -> 1..Len(idle)] :
            /\ \A i, j \in 1..n : i < j => e[i] < e[j]
            /\ idle' = Subsequence(idle, e)
  OBVIOUS
<1>2. n \in Nat
  BY SMTT(60), <1>1, SizeAssumption
<1>3. /\ idle' \in Seq(Conns) /\ Range(idle') \subseteq Range(idle)
      /\ IsInjective(idle')
  <2>1. PICK e \in [1..n -> 1..Len(idle)] :
            /\ \A i, j \in 1..n : i < j => e[i] < e[j]
            /\ idle' = Subsequence(idle, e)
    BY <1>1
  <2>2. idle \in Seq(Conns) /\ IsInjective(idle)
    BY DEF TypeOK, SingleOwner
  <2> QED
    BY <1>2, <2>1, <2>2, SubsequenceElems
<1>4. TypeOK'
  BY <1>3 DEF TypeOK
<1>5. SingleOwner'
  BY <1>3 DEF TypeOK, SingleOwner, Holders
<1>6. WaitInv'
  BY DEF WaitInv, NoLostHandOver
<1>7. HealthInv'
  BY DEF HealthInv
<1>8. CountExact'
  BY DEF CountExact, Counted
<1> QED
  BY <1>4, <1>5, <1>6, <1>7, <1>8

\* The steps of healthCheckLoop() that only test a flag.
LEMMA HealthTestInv ==
    ASSUME IInv, HealthWake \/ HealthPing \/ HealthFill
    PROVE  IInv'
<1> USE DEF IInv, HealthWake, HealthPing, HealthFill, clientVars, initVars
<1>1. TypeOK'
  BY DEF TypeOK
<1>2. SingleOwner'
  BY DEF TypeOK, SingleOwner, Holders
<1>3. WaitInv'
  BY DEF WaitInv, NoLostHandOver
<1>4. HealthInv'
  BY DEF TypeOK, HealthInv
<1>5. CountExact'
  BY DEF CountExact, Counted
<1> QED
  BY <1>1, <1>2, <1>3, <1>4, <1>5

LEMMA HealthTakeInv ==
    ASSUME IInv, HealthTake
    PROVE  IInv'
<1> USE DEF IInv, HealthTake, clientVars, initVars
<1>1. TypeOK'
  BY SMTT(60), EmptyElems DEF TypeOK
<1>2. SingleOwner'
  BY EmptyElems DEF TypeOK, SingleOwner, Holders
<1>3. WaitInv'
  BY DEF WaitInv, NoLostHandOver
<1>4. HealthInv'
  BY DEF TypeOK, HealthInv
<1>5. CountExact'
  <2>1. Counted' = Counted /\ rolling' = rolling /\ borrowed = 0
    BY DEF Counted, HealthInv
  <2> QED
    BY SMTT(60), <2>1, CountTypes DEF CountExact
<1> QED
  BY <1>1, <1>2, <1>3, <1>4, <1>5

\* The borrowed connections go back to the idle stack.
LEMMA HealthBackInv ==
    ASSUME IInv, HealthAbandon \/ HealthReturn
    PROVE  IInv'
<1> USE DEF IInv, HealthAbandon, HealthReturn, clientVars, initVars
<1>1. activeCount' = activeCount - borrowed /\ activeCount' \in Nat /\ borrowed' = 0
  BY SMTT(60), CountTypes DEF CountExact, Unborrowed
<1>2. /\ idle' \in Seq(Conns)
      /\ Range(idle') = Range(idle) \cup Range(alive)
      /\ IsInjective(idle')
      /\ alive' = <<>>
      /\ checking' = <<>> \/ checking' = checking
      /\ UNCHANGED <<rolling, conn>>
  <2>1. /\ idle \o alive \in Seq(Conns)
        /\ Range(idle \o alive) = Range(idle) \cup Range(alive)
        /\ IsInjective(idle \o alive)
    BY SMTT(60), ConcatElems DEF TypeOK, SingleOwner
  <2> QED
    BY <2>1
<1>3. TypeOK'
  <2>1. deficit' \in Nat
    <3>1. CASE HealthAbandon
      BY <3>1 DEF TypeOK
    <3>2. CASE HealthReturn
      <4>1. Len(idle) \in Nat /\ Len(alive) \in Nat /\ Unborrowed \in Nat
        BY <1>1, <3>2, ElemIndex DEF TypeOK
      <4> QED
        BY SMTT(60), <3>2, <4>1, SizeAssumption
    <3> QED
      BY <3>1, <3>2
  <2>2. health' \in {"off", "fill"}
    OBVIOUS
  <2> QED
    BY <1>1, <1>2, <2>1, <2>2, EmptyElems DEF TypeOK
<1>4. SingleOwner'
  <2> HIDE DEF HealthAbandon, HealthReturn
  <2> QED
    BY <1>2, EmptyElems DEF SingleOwner, Holders
<1>5. WaitInv'
  BY DEF WaitInv, NoLostHandOver
<1>6. HealthInv'
  BY DEF TypeOK, HealthInv
<1>7. CountExact'
  <2>1. Counted' = Counted /\ rolling' = rolling
    BY DEF Counted
  <2> QED
    BY SMTT(60), <1>1, <2>1, CountTypes DEF CountExact
<1> QED
  BY <1>3, <1>4, <1>5, <1>6, <1>7

LEMMA HealthPingedInv ==
    ASSUME IInv, HealthPinged
    PROVE  IInv'
<1> USE DEF IInv, HealthPinged, clientVars, initVars
<1> DEFINE h == Head(checking)
           t == Tail(checking)
<1>1. /\ h \in Conns /\ t \in Seq(Conns) /\ Len(t) = Len(checking) - 1
      /\ Range(checking) = {h} \cup Range(t)
      /\ IsInjective(t) /\ h \notin Range(t)
  BY TailElems DEF TypeOK, HealthInv, SingleOwner
<1>2. /\ Append(alive, h) \in Seq(Conns)
      /\ Range(Append(alive, h)) = Range(alive) \cup {h}
      /\ IsInjective(Append(alive, h))
  BY SMTT(60), <1>1, AppendElems DEF TypeOK, SingleOwner
<1>3. /\ checking' = t
      /\ alive' = Append(alive, h) \/ alive' = alive
      /\ faults' \in Nat
  BY SMTT(60) DEF TypeOK, Fault
<1> HIDE DEF h, t
<1>4. t = <<>> <=> Len(checking) = 1
  <2>1. t = <<>> <=> Len(t) = 0
    BY SMTT(60), <1>1
  <2>2. Len(checking) \in Nat
    BY ElemIndex DEF TypeOK
  <2> QED
    BY SMTT(60), <1>1, <2>1, <2>2
<1>5. TypeOK'
  BY <1>1, <1>2, <1>3 DEF TypeOK
<1>6. SingleOwner'
  <2>1. /\ IsInjective(checking') /\ IsInjective(alive')
        /\ Range(checking') \subseteq Range(checking)
        /\ Range(alive') \subseteq Range(alive) \cup Range(checking)
        /\ Range(checking') \cap Range(alive') = {}
    <3> HIDE DEF HealthPinged
    <3>1. CASE alive' = alive
      BY <1>1, <1>3, <3>1 DEF SingleOwner
    <3>2. CASE alive' = Append(alive, h)
      BY SMTT(60), <1>1, <1>2, <1>3, <3>2 DEF SingleOwner
    <3> QED
      BY <1>3, <3>1, <3>2
  <2>2. UNCHANGED <<idle, rolling, conn>>
    BY DEF HealthPinged
  <2> HIDE DEF HealthPinged
  <2> QED
    BY <2>1, <2>2 DEF SingleOwner, Holders
<1>7. WaitInv'
  BY DEF WaitInv, NoLostHandOver
<1>8. HealthInv'
  BY <1>3, <1>4 DEF TypeOK, HealthInv
<1>9. CountExact'
  BY DEF CountExact, Counted
<1> QED
  BY <1>5, <1>6, <1>7, <1>8, <1>9

LEMMA HealthCreatedInv ==
    ASSUME IInv, HealthCreated
    PROVE  IInv'
<1> USE DEF IInv, clientVars, initVars
<1>1. /\ health = "create" /\ health' = "fill" /\ deficit' = deficit - 1
      /\ UNCHANGED <<activeCount, waiters, shutdown, clientVars, rolling,
                     checking, alive, borrowed, initVars>>
  BY DEF HealthCreated
<1>2. /\ idle' \in Seq(Conns) /\ IsInjective(idle') /\ faults' \in Nat
      /\ Range(idle') \subseteq Range(idle) \cup Fresh
  <2>1. CASE idle' = idle /\ Fault(1)
    BY SMTT(60), <2>1 DEF TypeOK, SingleOwner, Fault
  <2>2. CASE \E n \in Fresh : idle' = Append(idle, n) /\ UNCHANGED faults
    <3>1. PICK n \in Fresh : idle' = Append(idle, n) /\ UNCHANGED faults
      BY <2>2
    <3>2. n \in Conns /\ n \notin Range(idle)
      BY DEF Fresh, Referenced
    <3> QED
      BY SMTT(60), <3>1, <3>2, AppendElems DEF TypeOK, SingleOwner
  <2> QED
    BY <2>1, <2>2 DEF HealthCreated
<1>3. TypeOK'
  BY SMTT(60), <1>1, <1>2 DEF TypeOK, HealthInv
<1>4. SingleOwner'
  <2>1. Holders' = Holders /\ UNCHANGED <<conn, rolling, checking, alive>>
    BY <1>1 DEF Holders
  <2>2. \A n \in Range(idle') :
            /\ n \notin rolling \cup Range(checking) \cup Range(alive)
            /\ \A c \in Holders : conn[c] # n
    <3> SUFFICES ASSUME NEW n \in Range(idle')
                 PROVE  /\ n \notin rolling \cup Range(checking) \cup Range(alive)
                        /\ \A c \in Holders : conn[c] # n
      OBVIOUS
    <3>1. CASE n \in Range(idle)
      BY <3>1 DEF SingleOwner
    <3>2. CASE n \in Fresh
      BY <3>2 DEF Fresh, Referenced, Holders
    <3> QED
      BY <1>2, <3>1, <3>2
  <2> QED
    BY <1>2, <2>1, <2>2 DEF SingleOwner
<1>5. WaitInv'
  BY <1>1 DEF WaitInv, NoLostHandOver
<1>6. HealthInv'
  BY <1>1 DEF HealthInv
<1>7. CountExact'
  BY <1>1 DEF CountExact, Counted
<1> QED
  BY <1>3, <1>4, <1>5, <1>6, <1>7

-----------------------------------------------------------------------------
(* The theorems                                                              *)

LEMMA InitInv == Init => IInv
<1> SUFFICES ASSUME Init PROVE IInv
  OBVIOUS
<1> USE DEF Init
<1>1. TypeOK
  BY EmptyElems, SizeAssumption DEF TypeOK, ClientStates
<1>2. SingleOwner
  BY EmptyElems DEF SingleOwner, Holders
<1>3. WaitInv
  BY EmptyElems DEF WaitInv, NoLostHandOver
<1>4. HealthInv
  BY DEF HealthInv
<1>5. CountExact
  <2>1. Counted = {}
    BY DEF Counted, CountedStates
  <2> QED
    BY SMTT(60), <2>1, FS_EmptySet DEF CountExact
<1> QED
  BY <1>1, <1>2, <1>3, <1>4, <1>5 DEF IInv

LEMMA StepInv == IInv /\ [Next]_vars => IInv'
<1> SUFFICES ASSUME IInv, [Next]_vars PROVE IInv'
  OBVIOUS
<1>1. ASSUME NEW c \in Clients, AcquireEnter(c) PROVE IInv'
  BY <1>1, AcquireEnterInv
<1>2. ASSUME NEW c \in Clients, AcquireLocked(c) PROVE IInv'
  BY <1>2, TakeIdleInv, ReserveOrWaitInv DEF AcquireLocked
<1>3. ASSUME NEW c \in Clients, PingOk(c) PROVE IInv'
  BY <1>3, PingOkInv
<1>4. ASSUME NEW c \in Clients, PingFails(c) PROVE IInv'
  BY <1>4, TakeIdleInv, ReserveOrWaitInv DEF PingFails
<1>5. ASSUME NEW c \in Clients, CreateOk(c) \/ CreateFails(c) PROVE IInv'
  BY <1>5, CreateOkInv, CreateFailsInv
<1>6. ASSUME NEW c \in Clients, WaitCancelled(c) PROVE IInv'
  BY <1>6, ServedInv, UnservedInv DEF WaitCancelled
<1>7. ASSUME NEW c \in Clients, WaitExpires(c) PROVE IInv'
  BY <1>7, UnservedInv DEF WaitExpires
<1>8. ASSUME NEW c \in Clients, LeaveQueue(c) PROVE IInv'
  BY <1>8, LeaveQueueInv
<1>9. ASSUME NEW c \in Clients, ReleaseStep(c) PROVE IInv'
  BY <1>9, ReleaseInv, ReleaseInTransactionInv DEF ReleaseStep
<1>10. ASSUME NEW n \in Conns, RollbackStep(n) PROVE IInv'
  BY <1>10, RollbackOkInv, RollbackFailsInv DEF RollbackStep
<1>11. CASE InitStep
  BY <1>11, InitConnectionInv, InitEndInv DEF InitStep
<1>12. CASE ShutdownStep
  BY <1>12, ShutdownInv
<1>13. CASE IdleCheck
  BY <1>13, IdleCheckInv
<1>14. CASE HealthStep
  BY <1>14, HealthTestInv, HealthTakeInv, HealthBackInv, HealthPingedInv,
     HealthCreatedInv DEF HealthStep
<1>15. CASE UNCHANGED vars
  BY <1>15 DEF vars, clientVars, healthVars, initVars, IInv, TypeOK, SingleOwner,
     Holders, WaitInv, NoLostHandOver, HealthInv, CountExact, Counted
<1> QED
  BY <1>1, <1>2, <1>3, <1>4, <1>5, <1>6, <1>7, <1>8, <1>9, <1>10, <1>11, <1>12,
     <1>13, <1>14, <1>15 DEF Next, AcquireStep

LEMMA Invariance == Spec => []IInv
  BY InitInv, StepInv, PTL DEF Spec

\* Every field of the pool keeps its type; activeCount_, a size_t, never wraps.
THEOREM TypeSafety == Spec => []TypeOK
<1>1. IInv => TypeOK
  BY DEF IInv
<1> QED
  BY <1>1, Invariance, PTL

\* A connection is in at most one place: idle, with one client, handed to one
\* waiter, in a rollback or in the health checker.
THEOREM ExclusiveOwnership == Spec => []SingleOwner
<1>1. IInv => SingleOwner
  BY DEF IInv
<1> QED
  BY <1>1, Invariance, PTL

\* activeCount_ counts exactly the connections in use, on every error path.
THEOREM CountIsExact == Spec => []CountExact
<1>1. IInv => CountExact
  BY DEF IInv
<1> QED
  BY <1>1, Invariance, PTL

\* A time-out of acquire() racing release() never loses the connection.
THEOREM HandOverIsSafe == Spec => []NoLostHandOver
<1>1. IInv => NoLostHandOver
  BY DEF IInv, WaitInv
<1> QED
  BY <1>1, Invariance, PTL

-----------------------------------------------------------------------------
(* What the pool promises its users.  It implements ConnectionLeases: every   *)
(* step of the pool is a grant, a return, or nothing to them.                 *)

\* A step that gives client c, which held nothing, a connection.
LEMMA GrantStep ==
    ASSUME IInv, IInv', NEW c \in Clients, pc[c] # "hold",
           pc' = [pc EXCEPT ![c] = "hold"],
           \A d \in Clients : d # c => conn'[d] = conn[d]
    PROVE  \E n \in Conns : Leases!Grant(c, n)
<1> DEFINE n == conn'[c]
<1>1. n \in Conns
  BY DEF IInv, TypeOK, WaitInv
<1>2. leased' = [leased EXCEPT ![c] = n]
  BY DEF IInv, TypeOK, leased
<1>3. ASSUME NEW d \in Clients PROVE leased[d] # n
  <2>1. CASE d = c
    BY <1>1, <2>1, NoConnAssumption DEF leased
  <2>2. CASE d # c
    BY <1>1, <2>2, NoConnAssumption DEF IInv, SingleOwner, Holders, leased
  <2> QED
    BY <2>1, <2>2
<1> QED
  BY <1>1, <1>2, <1>3 DEF Leases!Grant, leased

\* A step that takes its connection from client c.
LEMMA ReturnStep ==
    ASSUME IInv, IInv', NEW c \in Clients, pc[c] = "hold",
           pc' = [pc EXCEPT ![c] = "out"],
           \A d \in Clients : pc[d] = "hold" /\ d # c => conn'[d] = conn[d]
    PROVE  Leases!Return(c)
<1>1. leased' = [leased EXCEPT ![c] = NoConn]
  BY DEF IInv, TypeOK, leased
<1>2. leased[c] # NoConn
  BY DEF IInv, WaitInv, leased
<1> QED
  BY <1>1, <1>2 DEF Leases!Return

\* A step that neither gives nor takes one.
LEMMA LeaseKept ==
    ASSUME IInv, IInv',
           \A d \in Clients : (pc'[d] = "hold" <=> pc[d] = "hold")
                                /\ (pc[d] = "hold" => conn'[d] = conn[d])
    PROVE  leased' = leased
  BY DEF leased

LEMMA LeaseStep == IInv /\ IInv' /\ [Next]_vars => [Leases!Next]_leased
<1> SUFFICES ASSUME IInv, IInv', [Next]_vars PROVE [Leases!Next]_leased
  OBVIOUS
<1> USE DEF clientVars, healthVars, initVars
<1>1. ASSUME NEW c \in Clients, AcquireEnter(c) \/ CreateFails(c) \/ WaitExpires(c)
      PROVE  leased' = leased
  BY <1>1, LeaseKept DEF AcquireEnter, CreateFails, WaitExpires, IInv, TypeOK
<1>2. ASSUME NEW c \in Clients, AcquireLocked(c) \/ PingFails(c)
      PROVE  leased' = leased \/ \E n \in Conns : Leases!Grant(c, n)
  <2>1. \E p \in ClientStates :
            pc' = [pc EXCEPT ![c] = p] /\ pc[c] # "hold"
    BY <1>2 DEF AcquireLocked, PingFails, TakeIdle, ReserveOrWait, ClientStates
  <2>2. \A d \in Clients : d # c => conn'[d] = conn[d]
    BY <1>2 DEF AcquireLocked, PingFails, TakeIdle, ReserveOrWait, IInv, TypeOK
  <2>3. CASE pc' = [pc EXCEPT ![c] = "hold"]
    BY <2>1, <2>2, <2>3, GrantStep
  <2>4. CASE pc' # [pc EXCEPT ![c] = "hold"]
    <3>1. pc'[c] # "hold" /\ \A d \in Clients : d # c => pc'[d] = pc[d]
      BY <2>1, <2>4 DEF IInv, TypeOK
    <3> QED
      BY <2>1, <2>2, <3>1, LeaseKept
  <2> QED
    BY <2>3, <2>4
<1>3. ASSUME NEW c \in Clients,
             PingOk(c) \/ CreateOk(c) \/ (pc[c] # "hold" /\ Served(c))
      PROVE  \E n \in Conns : Leases!Grant(c, n)
  <2>1. /\ pc[c] # "hold" /\ pc' = [pc EXCEPT ![c] = "hold"]
        /\ \A d \in Clients : d # c => conn'[d] = conn[d]
    BY <1>3 DEF PingOk, CreateOk, Served, IInv, TypeOK
  <2> QED
    BY <2>1, GrantStep
<1>4. ASSUME NEW c \in Clients, WaitCancelled(c) \/ LeaveQueue(c)
      PROVE  leased' = leased \/ \E n \in Conns : Leases!Grant(c, n)
  <2>1. CASE Served(c)
    BY <1>3, <1>4, <2>1 DEF WaitCancelled, LeaveQueue
  <2>2. CASE ~Served(c)
    BY <1>4, <2>2, LeaseKept DEF WaitCancelled, LeaveQueue, IInv, TypeOK
  <2> QED
    BY <2>1, <2>2
<1>5. ASSUME NEW n \in Conns, NEW others \in [Clients -> Conns \cup {NoConn}],
             HandBack(n, others), NEW d \in Clients, pc[d] = "hold"
      PROVE  conn'[d] = others[d]
  <2>1. CASE waiters # <<>>
    <3>1. Head(waiters) \in Range(waiters) /\ Head(waiters) \in Clients
      BY SMTT(60), <2>1, TailElems DEF IInv, TypeOK
    <3>2. Head(waiters) # d
      BY <1>5, <3>1 DEF IInv, WaitInv, NoLostHandOver
    <3> QED
      BY <1>5, <2>1, <3>1, <3>2 DEF HandBack
  <2>2. CASE waiters = <<>>
    BY <1>5, <2>2 DEF HandBack
  <2> QED
    BY <2>1, <2>2
<1>6. ASSUME NEW c \in Clients, ReleaseStep(c)
      PROVE  Leases!Return(c)
  <2>1. CASE Release(c)
    <3>1. conn[c] \in Conns /\ [conn EXCEPT ![c] = NoConn] \in [Clients -> Conns \cup {NoConn}]
      BY <2>1 DEF Release, IInv, TypeOK, WaitInv
    <3>2. \A d \in Clients : pc[d] = "hold" => conn'[d] = [conn EXCEPT ![c] = NoConn][d]
      BY <1>5, <2>1, <3>1 DEF Release
    <3>3. \A d \in Clients : pc[d] = "hold" /\ d # c => conn'[d] = conn[d]
      BY <3>2 DEF IInv, TypeOK
    <3> QED
      BY <2>1, <3>3, ReturnStep DEF Release
  <2>2. CASE ReleaseInTransaction(c)
    BY <2>2, ReturnStep DEF ReleaseInTransaction, IInv, TypeOK
  <2> QED
    BY <1>6, <2>1, <2>2 DEF ReleaseStep
<1>7. ASSUME NEW n \in Conns, RollbackStep(n)
      PROVE  leased' = leased
  <2>1. CASE HandBack(n, conn) /\ RollbackOk(n)
    BY <1>5, <2>1, LeaseKept DEF RollbackOk, IInv, TypeOK
  <2>2. CASE UNCHANGED <<pc, conn>>
    BY <2>2, LeaseKept
  <2> QED
    BY <1>7, <2>1, <2>2 DEF RollbackStep, RollbackOk, RollbackFails
<1>8. ASSUME InitStep \/ ShutdownStep \/ IdleCheck \/ HealthStep \/ UNCHANGED vars
      PROVE  leased' = leased
  <2>1. UNCHANGED <<pc, conn>>
    BY <1>8 DEF vars, InitStep, InitConnection, InitFails, InitFinish, ShutdownStep,
       ShutdownFlag, ShutdownClear, IdleCheck, HealthStep, HealthWake, HealthTake,
       HealthAbandon, HealthPing, HealthPinged, HealthReturn, HealthFill, HealthCreated
  <2> QED
    BY <2>1, LeaseKept
<1>9. ASSUME NEW c \in Clients,
             AcquireEnter(c) \/ AcquireStep(c) \/ WaitExpires(c) \/ ReleaseStep(c)
      PROVE  Leases!Next \/ leased' = leased
  <2>1. (\E n \in Conns : Leases!Grant(c, n)) \/ Leases!Return(c) \/ leased' = leased
    BY <1>1, <1>2, <1>3, <1>4, <1>6, <1>9 DEF AcquireStep
  <2> QED
    BY <2>1 DEF Leases!Next
<1> QED
  BY <1>7, <1>8, <1>9 DEF Next

\* What acquire() returns is nobody else's, and stays the caller's until it
\* calls release(): the pool implements ConnectionLeases.
THEOREM LeasesImplemented == Spec => LeasesKept
<1>1. Init => Leases!Init
  BY DEF Init, Leases!Init, leased
<1> QED
  BY <1>1, LeaseStep, Invariance, PTL DEF Spec, LeasesKept, Leases!Spec

-----------------------------------------------------------------------------
(* Who waits, waits for a reason                                             *)

\* Somebody waits for a place only when the places in use, the connections on
\* their way to a waiter and the faults so far make up maxConnections.
PlacesTaken ==
    waiters # <<>> /\ ~Stopping =>
        activeCount + Cardinality(HandedOver) + (MaxFaults - faults) >= MaxConnections

\* Without a health checker.  Nobody enters before init() has ended, so what
\* init() puts on the stack is never beside a waiter.
PlacesInv ==
    /\ health = "off"
    /\ initState = "filling" => \A c \in Clients : pc[c] = "out"
    /\ faults <= MaxFaults
    /\ waiters # <<>> => idle = <<>>
    /\ PlacesTaken

LEMMA HandedOverFinite ==
    ASSUME TypeOK
    PROVE  IsFiniteSet(HandedOver) /\ Cardinality(HandedOver) \in Nat
  BY ClientsAssumption, FS_Subset, FS_CardinalityType DEF HandedOver

LEMMA PlaceTypes ==
    ASSUME IInv
    PROVE  /\ activeCount \in Nat /\ faults \in Nat /\ Cardinality(HandedOver) \in Nat
           /\ MaxConnections \in Nat /\ MaxFaults \in Nat
  BY HandedOverFinite, SizeAssumption DEF IInv, TypeOK

\* The mutex section of acquire(), on entry or after a failed ping.  Whoever
\* finds others waiting finds the stack empty, so that only its own fault is
\* spent; whoever queues up has seen the places taken.
LEMMA SectionPlaces ==
    ASSUME IInv, IInv', PlacesInv, NEW c \in Clients, NEW active, NEW spent,
           \/ pc[c] = "enter" /\ active = activeCount /\ spent = 0
           \/ pc[c] = "ping" /\ active = activeCount - 1 /\ spent = 1,
           TakeIdle(c, active, spent) \/ ReserveOrWait(c, active, spent),
           UNCHANGED <<shutdown, rolling, healthVars, initVars>>
    PROVE  PlacesInv'
<1> USE DEF healthVars, initVars
<1>1. health' = "off" /\ initState' # "filling"
  BY DEF PlacesInv
<1>2. CASE TakeIdle(c, active, spent)
  <2>1. PICK k \in 0..(Len(idle) - 1) : faults' = faults - (k + spent) /\ waiters' = waiters
    BY <1>2 DEF TakeIdle, Fault
  <2>2. Len(idle) # 0 /\ faults' <= faults
    BY SMTT(60), <2>1, ElemIndex DEF IInv, TypeOK
  <2>3. waiters' = <<>>
    BY <2>1, <2>2, EmptyElems DEF PlacesInv
  <2> QED
    BY SMTT(60), <1>1, <2>2, <2>3, SizeAssumption DEF PlacesInv, PlacesTaken, IInv, TypeOK
<1>3. CASE ReserveOrWait(c, active, spent)
  <2>1. /\ idle' = <<>> /\ conn' = [conn EXCEPT ![c] = NoConn]
        /\ faults' = faults - (Len(idle) + spent) /\ Len(idle) \in Nat
    BY <1>3, ElemIndex DEF ReserveOrWait, Fault, IInv, TypeOK
  <2>2. HandedOver' = HandedOver
    <3>1. conn'[c] = NoConn /\ \A d \in Clients : d # c => conn'[d] = conn[d]
      BY <2>1 DEF IInv, TypeOK
    <3>2. \A d \in Clients : d # c => pc'[d] = pc[d]
      BY <1>3 DEF ReserveOrWait, IInv, TypeOK
    <3> QED
      BY <3>1, <3>2 DEF HandedOver
  <2>3. faults' <= MaxFaults
    BY SMTT(60), <2>1, SizeAssumption DEF PlacesInv, IInv, TypeOK
  <2>4. PlacesTaken'
    <3> SUFFICES ASSUME waiters' # <<>>, ~Stopping
                 PROVE  activeCount' + Cardinality(HandedOver) + (MaxFaults - faults')
                          >= MaxConnections
      BY <2>2 DEF PlacesTaken, Stopping
    <3>1. CASE activeCount' = active + 1 /\ waiters' = waiters
      <4>1. faults' = faults - spent
        BY SMTT(60), <2>1, <3>1, EmptyElems DEF PlacesInv, IInv, TypeOK
      <4> QED
        BY SMTT(60), <3>1, <4>1, PlaceTypes
           DEF PlacesInv, PlacesTaken
    <3>2. CASE active >= MaxConnections /\ activeCount' = active
      BY SMTT(60), <2>3, <3>2, HandedOverFinite, SizeAssumption DEF IInv, TypeOK
    <3> QED
      BY <1>3, <3>1, <3>2 DEF ReserveOrWait
  <2> QED
    BY <1>1, <2>1, <2>3, <2>4 DEF PlacesInv
<1> QED
  BY <1>2, <1>3

\* A client's step that leaves the stack and the connections on their way to a
\* waiter alone, and gives up at most the place that a fault costs.
LEMMA ClientPlaces ==
    ASSUME IInv, IInv', PlacesInv, NEW c \in Clients,
           \/ AcquireEnter(c) \/ PingOk(c) \/ CreateOk(c) \/ CreateFails(c)
           \/ WaitExpires(c) \/ ReleaseInTransaction(c)
           \/ (WaitCancelled(c) \/ LeaveQueue(c)) /\ conn[c] = NoConn
    PROVE  PlacesInv'
<1> USE DEF healthVars, initVars
<1>1. /\ idle' = idle /\ shutdown' = shutdown /\ health' = health
      /\ initState' = initState
      /\ waiters' # <<>> => waiters # <<>>
      /\ \/ activeCount' = activeCount /\ faults' = faults
         \/ activeCount' = activeCount - 1 /\ faults' = faults - 1
  <2>1. waiters = <<>> => waiters' = <<>>
    BY SMTT(60), EmptyElems DEF AcquireEnter, PingOk, CreateOk, CreateFails, WaitExpires,
       ReleaseInTransaction, WaitCancelled, LeaveQueue, Served
  <2> QED
    BY <2>1 DEF AcquireEnter, PingOk, CreateOk, CreateFails, WaitExpires,
       ReleaseInTransaction, WaitCancelled, LeaveQueue, Served, Fault
<1>2. HandedOver' = HandedOver
  <2>1. \A d \in Clients : d # c => pc'[d] = pc[d] /\ conn'[d] = conn[d]
    BY DEF AcquireEnter, PingOk, CreateOk, CreateFails, WaitExpires, IInv, TypeOK,
       ReleaseInTransaction, WaitCancelled, LeaveQueue, Served
  <2>2. c \notin HandedOver
    BY DEF AcquireEnter, PingOk, CreateOk, CreateFails, WaitExpires, IInv, TypeOK,
       ReleaseInTransaction, WaitCancelled, LeaveQueue, HandedOver, WaitInv, NoLostHandOver
  <2>3. pc'[c] \notin {"wait", "timedout"} \/ conn'[c] = NoConn
    BY DEF AcquireEnter, PingOk, CreateOk, CreateFails, WaitExpires, IInv, TypeOK,
       ReleaseInTransaction, WaitCancelled, LeaveQueue, Served, WaitInv, NoLostHandOver
  <2> QED
    BY <2>1, <2>2, <2>3 DEF HandedOver
<1>3. initState # "filling"
  BY DEF AcquireEnter, PingOk, CreateOk, CreateFails, WaitExpires, PlacesInv,
     ReleaseInTransaction, WaitCancelled, LeaveQueue
<1>4. PlacesTaken'
  BY SMTT(60), <1>1, <1>2, PlaceTypes
     DEF PlacesInv, PlacesTaken, Stopping
<1>5. faults' <= MaxFaults
  BY SMTT(60), <1>1, SizeAssumption DEF PlacesInv, IInv, TypeOK
<1> QED
  BY <1>1, <1>3, <1>4, <1>5 DEF PlacesInv

\* A waiter that finds its slot filled turns a connection on its way into a
\* place in use.
LEMMA ServedPlaces ==
    ASSUME IInv, IInv', PlacesInv, NEW c \in Clients,
           pc[c] \in {"wait", "timedout"}, Served(c)
    PROVE  PlacesInv'
<1> USE DEF healthVars, initVars
<1>1. c \in HandedOver /\ HandedOver' = HandedOver \ {c}
  BY DEF Served, HandedOver, IInv, TypeOK
<1>2. Cardinality(HandedOver \ {c}) = Cardinality(HandedOver) - 1
  <2>1. IsFiniteSet(HandedOver)
    BY HandedOverFinite DEF IInv
  <2> QED
    BY <1>1, <2>1, FS_RemoveElement
<1>3. initState # "filling"
  BY DEF PlacesInv
<1>4. PlacesTaken'
  BY SMTT(60), <1>1, <1>2, PlaceTypes
     DEF Served, PlacesInv, PlacesTaken, Stopping
<1> QED
  BY <1>3, <1>4 DEF Served, PlacesInv

\* A connection handed back goes to a waiter, and is then on its way, or to
\* the stack because nobody waits.
LEMMA HandBackPlaces ==
    ASSUME IInv, PlacesInv, NEW n \in Conns,
           NEW others \in [Clients -> Conns \cup {NoConn}], HandBack(n, others),
           \A d \in Clients : pc[d] \in {"wait", "timedout"} \/ pc'[d] \in {"wait", "timedout"}
                                => pc'[d] = pc[d] /\ others[d] = conn[d],
           initState = "filling" => pc' = pc,
           activeCount' = IF activeCount > 0 THEN activeCount - 1 ELSE 0,
           UNCHANGED <<shutdown, healthVars, initVars, faults>>
    PROVE  PlacesInv'
<1> USE DEF healthVars, initVars
<1>1. CASE waiters = <<>>
  BY <1>1 DEF HandBack, PlacesInv, PlacesTaken
<1>2. CASE waiters # <<>>
  <2> DEFINE h == Head(waiters)
  <2>1. h \in Range(waiters) /\ h \in Clients
    BY SMTT(60), <1>2, TailElems DEF IInv, TypeOK
  <2> HIDE DEF h
  <2>2. conn' = [others EXCEPT ![h] = n] /\ idle' = idle
    BY <1>2 DEF HandBack, h
  <2>3. pc[h] \in {"wait", "timedout"} /\ conn[h] = NoConn
    BY <2>1 DEF IInv, WaitInv, NoLostHandOver
  <2>4. h \notin HandedOver /\ HandedOver' = HandedOver \cup {h}
    BY <2>1, <2>2, <2>3, NoConnAssumption DEF HandedOver
  <2>5. Cardinality(HandedOver \cup {h}) = Cardinality(HandedOver) + 1
    <3>1. IsFiniteSet(HandedOver)
      BY HandedOverFinite DEF IInv
    <3> QED
      BY <2>4, <3>1, FS_AddElement
  <2>6. PlacesTaken'
    BY SMTT(60), <1>2, <2>4, <2>5, PlaceTypes
       DEF PlacesInv, PlacesTaken, Stopping
  <2> QED
    BY <1>2, <2>2, <2>6 DEF PlacesInv
<1> QED
  BY <1>1, <1>2

LEMMA ReleasePlaces ==
    ASSUME IInv, PlacesInv, NEW c \in Clients, Release(c)
    PROVE  PlacesInv'
<1> DEFINE others == [conn EXCEPT ![c] = NoConn]
<1>1. conn[c] \in Conns /\ others \in [Clients -> Conns \cup {NoConn}]
  BY DEF Release, IInv, TypeOK, WaitInv
<1>2. \A d \in Clients : pc[d] \in {"wait", "timedout"} \/ pc'[d] \in {"wait", "timedout"}
                           => pc'[d] = pc[d] /\ others[d] = conn[d]
  BY DEF Release, IInv, TypeOK
<1>3. initState # "filling"
  BY DEF Release, PlacesInv
<1>4. /\ HandBack(conn[c], others)
      /\ activeCount' = IF activeCount > 0 THEN activeCount - 1 ELSE 0
      /\ UNCHANGED <<shutdown, healthVars, initVars, faults>>
  BY DEF Release
<1> HIDE DEF others
<1> QED
  BY <1>1, <1>2, <1>3, <1>4, HandBackPlaces

LEMMA RollbackPlaces ==
    ASSUME IInv, IInv', PlacesInv, NEW n \in Conns, RollbackStep(n)
    PROVE  PlacesInv'
<1> USE DEF clientVars, healthVars, initVars
<1>1. CASE RollbackOk(n) /\ ~Stopping
  BY <1>1, HandBackPlaces DEF RollbackOk, IInv, TypeOK
<1>2. CASE RollbackOk(n) /\ Stopping
  BY <1>2 DEF RollbackOk, PlacesInv, PlacesTaken, Stopping
<1>3. CASE RollbackFails(n)
  <2>1. HandedOver' = HandedOver
    BY <1>3 DEF RollbackFails, HandedOver
  <2>2. PlacesTaken'
    BY SMTT(60), <1>3, <2>1, HandedOverFinite, SizeAssumption
       DEF RollbackFails, Fault, PlacesInv, PlacesTaken, Stopping, IInv, TypeOK
  <2>3. faults' <= MaxFaults
    BY SMTT(60), <1>3, SizeAssumption DEF RollbackFails, Fault, PlacesInv, IInv, TypeOK
  <2> QED
    BY <1>3, <2>2, <2>3 DEF RollbackFails, PlacesInv
<1> QED
  BY <1>1, <1>2, <1>3 DEF RollbackStep

\* init() runs before anyone waits, idleCheckLoop() finds an empty stack when
\* someone does, shutdown() ends the promise, and no health checker runs.
LEMMA LoopPlaces ==
    ASSUME HealthCheck = FALSE, IInv, IInv', PlacesInv,
           InitStep \/ ShutdownStep \/ IdleCheck \/ HealthStep \/ UNCHANGED vars
    PROVE  PlacesInv'
<1> USE DEF clientVars, healthVars, initVars
<1>1. ~HealthStep
  BY DEF PlacesInv, HealthStep, HealthWake, HealthTake, HealthAbandon, HealthPing,
     HealthPinged, HealthReturn, HealthFill, HealthCreated
<1>2. CASE InitStep
  <2>1. waiters = <<>>
    <3>1. \A c \in Clients : c \notin Range(waiters)
      BY <1>2 DEF InitStep, InitConnection, InitFails, InitFinish, PlacesInv, IInv,
         WaitInv, NoLostHandOver
    <3> QED
      BY SMTT(60), <3>1, TailElems DEF IInv, TypeOK
  <2>2. waiters' = <<>> /\ pc' = pc /\ health' = "off" /\ faults' <= faults
    BY SMTT(60), <1>2, <2>1 DEF InitStep, InitConnection, InitFails, InitFinish, PlacesInv, IInv,
       TypeOK, Fault
  <2>3. initState' = "filling" => initState = "filling"
    BY <1>2 DEF InitStep, InitConnection, InitFails, InitFinish
  <2> QED
    BY SMTT(60), <2>2, <2>3, SizeAssumption DEF PlacesInv, PlacesTaken, IInv, TypeOK
<1>3. CASE ShutdownStep
  BY <1>3 DEF ShutdownStep, ShutdownFlag, ShutdownClear, PlacesInv, PlacesTaken, Stopping
<1>4. CASE IdleCheck
  <2>1. waiters = <<>>
    <3>1. Len(idle) # 0
      BY SMTT(60), <1>4, SizeAssumption, ElemIndex DEF IdleCheck, IInv, TypeOK
    <3> QED
      BY <3>1, EmptyElems DEF PlacesInv
  <2> QED
    BY <1>4, <2>1 DEF IdleCheck, PlacesInv, PlacesTaken
<1>5. CASE UNCHANGED vars
  <2>1. HandedOver' = HandedOver
    BY <1>5 DEF vars, HandedOver
  <2> QED
    BY <1>5, <2>1 DEF vars, PlacesInv, PlacesTaken, Stopping
<1> QED
  BY <1>1, <1>2, <1>3, <1>4, <1>5

LEMMA PlacesStep ==
    ASSUME HealthCheck = FALSE
    PROVE  IInv /\ IInv' /\ PlacesInv /\ [Next]_vars => PlacesInv'
<1> SUFFICES ASSUME IInv, IInv', PlacesInv, [Next]_vars PROVE PlacesInv'
  OBVIOUS
<1>1. ASSUME NEW c \in Clients, AcquireLocked(c) PROVE PlacesInv'
  BY <1>1, SectionPlaces DEF AcquireLocked
<1>2. ASSUME NEW c \in Clients, PingFails(c) PROVE PlacesInv'
  BY <1>2, SectionPlaces DEF PingFails
<1>3. ASSUME NEW c \in Clients, WaitCancelled(c) \/ LeaveQueue(c) PROVE PlacesInv'
  <2>1. CASE conn[c] = NoConn
    BY <1>3, <2>1, ClientPlaces
  <2>2. CASE conn[c] # NoConn
    BY <1>3, <2>2, ServedPlaces DEF WaitCancelled, LeaveQueue
  <2> QED
    BY <2>1, <2>2
<1>4. ASSUME NEW c \in Clients,
             AcquireEnter(c) \/ AcquireStep(c) \/ WaitExpires(c) \/ ReleaseStep(c)
      PROVE  PlacesInv'
  BY <1>1, <1>2, <1>3, <1>4, ClientPlaces, ReleasePlaces DEF AcquireStep, ReleaseStep
<1>5. ASSUME NEW n \in Conns, RollbackStep(n) PROVE PlacesInv'
  BY <1>5, RollbackPlaces
<1>6. ASSUME InitStep \/ ShutdownStep \/ IdleCheck \/ HealthStep \/ UNCHANGED vars
      PROVE  PlacesInv'
  BY <1>6, LoopPlaces
<1> QED
  BY <1>4, <1>5, <1>6 DEF Next

LEMMA PlacesInvariance == Spec => [](HealthCheck = FALSE => PlacesInv)
<1> DEFINE J == HealthCheck = FALSE => PlacesInv
<1>1. Init => J
  BY SMTT(60), SizeAssumption DEF Init, PlacesInv, PlacesTaken
<1>2. IInv /\ IInv' /\ J /\ [Next]_vars => J'
  BY PlacesStep
<1> HIDE DEF J
<1>3. Spec => []J
  BY <1>1, <1>2, Invariance, PTL DEF Spec
<1> QED
  BY <1>3 DEF J

\* release() prefers a waiter to the idle stack: nobody waits while a
\* connection lies idle, whatever fails, when no health checker refills it.
THEOREM IdleIsUsed == Spec => []NoWaiterBesideIdle
<1>1. (HealthCheck = FALSE => PlacesInv) => NoWaiterBesideIdle
  BY SizeAssumption DEF PlacesInv, NoWaiterBesideIdle
<1> QED
  BY <1>1, PlacesInvariance, PTL

\* acquire() suspends only when the pool is full: a place that nobody uses
\* while somebody waits was lost to a dead connection, a factory that threw or
\* a rollback that failed, one place for one fault.
THEOREM LostToFaults ==
    ASSUME HealthCheck = FALSE
    PROVE  Spec => []PlacesTaken
<1>1. PlacesInv => PlacesTaken
  BY DEF PlacesInv
<1> QED
  BY <1>1, PlacesInvariance, PTL

\* Nobody waits for what is there or could be made, as long as nothing fails
\* (acquire, release).
THEOREM WaitsAreJustified ==
    ASSUME HealthCheck = FALSE, MaxFaults = 0
    PROVE  Spec => []WaitersJustified
<1>1. IInv /\ PlacesInv => WaitersJustified
  BY SMTT(60), HandedOverFinite, ElemIndex, SizeAssumption DEF IInv, TypeOK, PlacesInv, PlacesTaken, WaitersJustified,
     NoWaiterBesideIdle, WaitersOnlyWhenFull
<1> QED
  BY <1>1, PlacesInvariance, Invariance, PTL

=============================================================================
