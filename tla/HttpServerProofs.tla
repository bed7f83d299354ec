-------------------------- MODULE HttpServerProofs --------------------------
(* activeConnections_ is exact and the limit on connections holds, for any   *)
(* number of loops, clients and callers of stop().  Every reservation is     *)
(* given back once because each accepted connection has one closure waiting, *)
(* on its own loop, from the reservation until its session starts.           *)
EXTENDS HttpServer, FiniteSetTheorems, TLAPS

\* The time a leaf may take.
USE ZenonT(60)

Notice == [op : {"notifyClose", "notifyDrain"}, conns : SUBSET Conns]
            \cup [op : {"closeAcceptor", "closeAll", "begin"}]
TaskSet == [op : {"session"}, conn : Conns] \cup Notice

\* The connections whose sessions wait in queue q to be started.
Waiting(q) == {q[i].conn : i \in {j \in 1..Len(q) : q[j].op = "session"}}

\* None waits twice.
Once(q) == \A i, j \in 1..Len(q) :
    q[i].op = "session" /\ q[j].op = "session" /\ q[i].conn = q[j].conn => i = j

TaskInv ==
    /\ tasks \in [Loops -> Seq(TaskSet)]
    /\ \A l \in Loops :
          /\ Once(tasks[l])
          /\ \A c \in Waiting(tasks[l]) : sess[c] = "spawned" /\ loopOf[c] = l

\* The connections and the accept loops that activeConnections_ counts.
Held == {c \in Reserved : sess[c] # "accepted"}
Over == {l \in Loops : acc[l] = "over"}

CountInv ==
    /\ acc \in [Loops -> Accs] /\ sess \in [Conns -> Sessions]
    /\ loopOf \in [Conns -> Loops \cup {None}]
    /\ CountExact /\ LimitRespected

ServerInv == TaskInv /\ CountInv

-----------------------------------------------------------------------------
(* Queues of closures                                                        *)

LEMMA NoticesWaitNot ==
    ASSUME NEW q \in Seq(TaskSet), NEW n \in Seq(Notice), Once(q)
    PROVE  q \o n \in Seq(TaskSet) /\ Waiting(q \o n) = Waiting(q) /\ Once(q \o n)
<1>1. q \o n \in Seq(TaskSet)
  BY SMTT(60) DEF TaskSet
<1>2. \A i \in 1..Len(q \o n) : IF i <= Len(q) THEN (q \o n)[i] = q[i] ELSE (q \o n)[i].op # "session"
  BY SMTT(60) DEF Notice
<1>3. Len(q) \in Nat /\ Len(q \o n) \in Nat /\ Len(q) <= Len(q \o n)
  BY SMTT(60)
<1> DEFINE r == q \o n
<1> HIDE DEF r
<1>4. Once(r)
  BY SMTT(60), <1>2, <1>3 DEF Once, r
<1>5. Waiting(r) = Waiting(q)
  BY SMTT(60), <1>2, <1>3 DEF Waiting, r
<1> QED
  BY <1>1, <1>4, <1>5 DEF r

LEMMA SessionWaits ==
    ASSUME NEW q \in Seq(TaskSet), NEW c \in Conns, Once(q), c \notin Waiting(q)
    PROVE  LET r == q \o <<[op |-> "session", conn |-> c]>>
           IN r \in Seq(TaskSet) /\ Waiting(r) = Waiting(q) \cup {c} /\ Once(r)
<1> DEFINE t == [op |-> "session", conn |-> c]
           r == q \o <<t>>
<1>1. t \in TaskSet /\ t.op = "session" /\ t.conn = c
  BY DEF TaskSet
<1> HIDE DEF t
<1>2. r \in Seq(TaskSet) /\ Len(r) = Len(q) + 1 /\ Len(q) \in Nat
  BY SMTT(60), <1>1
<1>3. r[Len(q) + 1] = t /\ \A i \in 1..Len(q) : r[i] = q[i]
  BY SMTT(60), <1>1
<1> HIDE DEF r
<1>4. \A i \in 1..Len(q) : q[i].op = "session" => q[i].conn # c
  BY DEF Waiting
<1>5. Once(r)
  BY SMTT(60), <1>1, <1>2, <1>3, <1>4 DEF Once
<1>6. Waiting(r) = Waiting(q) \cup {c}
  BY SMTT(60), <1>1, <1>2, <1>3 DEF Waiting
<1> QED
  BY <1>2, <1>5, <1>6 DEF r, t

LEMMA HeadLeaves ==
    ASSUME NEW q \in Seq(TaskSet), q # <<>>, Once(q)
    PROVE  /\ Tail(q) \in Seq(TaskSet) /\ Once(Tail(q))
           /\ Waiting(Tail(q)) \subseteq Waiting(q)
           /\ Head(q).op = "session" => /\ Head(q).conn \in Conns
                                        /\ Head(q).conn \in Waiting(q)
                                        /\ Head(q).conn \notin Waiting(Tail(q))
<1> DEFINE r == Tail(q)
<1>1. r \in Seq(TaskSet) /\ Len(r) = Len(q) - 1 /\ Len(q) \in Nat /\ Len(q) >= 1 /\ Head(q) = q[1]
  BY SMTT(60)
<1>2. \A i \in 1..Len(r) : r[i] = q[i + 1]
  BY SMTT(60)
<1>3. q[1] \in TaskSet
  BY SMTT(60), <1>1
<1> HIDE DEF r
<1>4. Once(r)
  <2>1. \A i \in 1..Len(r) : i + 1 \in 1..Len(q)
    BY SMTT(60), <1>1
  <2> QED
    BY SMTT(60), <1>2, <2>1 DEF Once
<1>5. Waiting(r) \subseteq Waiting(q)
  BY SMTT(60), <1>1, <1>2 DEF Waiting
<1>6. ASSUME q[1].op = "session" PROVE q[1].conn \in Conns /\ q[1].conn \in Waiting(q) /\ q[1].conn \notin Waiting(r)
  <2>1. q[1].conn \in Conns
    BY <1>3, <1>6 DEF TaskSet, Notice
  <2>2. q[1].conn \in Waiting(q)
    BY SMTT(60), <1>1, <1>6 DEF Waiting
  <2>3. q[1].conn \notin Waiting(r)
    BY SMTT(60), <1>1, <1>2, <1>6 DEF Waiting, Once
  <2> QED
    BY <2>1, <2>2, <2>3
<1> QED
  BY <1>1, <1>4, <1>5, <1>6 DEF r

LEMMA WaitingConns == ASSUME NEW q \in Seq(TaskSet) PROVE Waiting(q) \subseteq Conns
<1>1. \A i \in 1..Len(q) : q[i].op = "session" => q[i].conn \in Conns
  <2> TAKE i \in 1..Len(q)
  <2>1. q[i] \in TaskSet
    BY SMTT(60)
  <2> QED
    BY <2>1 DEF TaskSet, Notice
<1> QED
  BY <1>1 DEF Waiting

\* A step that starts no session keeps TaskInv if it leaves the connections that wait alone.
LEMMA TasksKept ==
    ASSUME TaskInv, tasks' \in [Loops -> Seq(TaskSet)],
           \A l \in Loops : Once(tasks'[l]) /\ Waiting(tasks'[l]) \subseteq Waiting(tasks[l]),
           \A l \in Loops : \A c \in Waiting(tasks'[l]) :
               c \in Conns /\ sess[c] = "spawned" /\ loopOf[c] = l => sess'[c] = "spawned" /\ loopOf'[c] = l
    PROVE  TaskInv'
<1>1. \A l \in Loops : Waiting(tasks[l]) \subseteq Conns
  BY WaitingConns DEF TaskInv
<1>2. ASSUME NEW l \in Loops PROVE \A c \in Waiting(tasks'[l]) : sess'[c] = "spawned" /\ loopOf'[c] = l
  <2> TAKE c \in Waiting(tasks'[l])
  <2>1. c \in Waiting(tasks[l]) /\ c \in Conns
    BY <1>1
  <2>2. sess[c] = "spawned" /\ loopOf[c] = l
    BY <2>1 DEF TaskInv
  <2> QED
    BY <2>1, <2>2
<1> QED
  BY <1>2 DEF TaskInv

LEMMA SameTasks ==
    ASSUME TaskInv, UNCHANGED tasks,
           \A c \in Conns : sess[c] = "spawned" => sess'[c] = "spawned" /\ loopOf'[c] = loopOf[c]
    PROVE  TaskInv'
<1>1. \A l \in Loops : Once(tasks'[l]) /\ Waiting(tasks'[l]) \subseteq Waiting(tasks[l])
  BY DEF TaskInv
<1>2. tasks' \in [Loops -> Seq(TaskSet)]
  BY DEF TaskInv
<1> QED
  BY <1>1, <1>2, TasksKept

\* A loop takes a closure other than a session's.
LEMMA NoticeTaken ==
    ASSUME TaskInv, NEW l \in Loops, tasks[l] # <<>>
    PROVE  /\ Rest(l) \in [Loops -> Seq(TaskSet)]
           /\ \A k \in Loops : Once(Rest(l)[k]) /\ Waiting(Rest(l)[k]) \subseteq Waiting(tasks[k])
           /\ Head(tasks[l]).op = "session" =>
                 LET c == Head(tasks[l]).conn
                 IN /\ c \in Conns /\ sess[c] = "spawned" /\ loopOf[c] = l
                    /\ \A k \in Loops : c \notin Waiting(Rest(l)[k])
<1> DEFINE q == tasks[l]
<1>1. q \in Seq(TaskSet) /\ Once(q) /\ q # <<>>
  BY DEF TaskInv
<1>2. /\ Tail(q) \in Seq(TaskSet) /\ Once(Tail(q))
      /\ Waiting(Tail(q)) \subseteq Waiting(q)
      /\ Head(q).op = "session" => /\ Head(q).conn \in Conns
                                   /\ Head(q).conn \in Waiting(q)
                                   /\ Head(q).conn \notin Waiting(Tail(q))
  <2> HIDE DEF q
  <2> QED
    BY <1>1, HeadLeaves
<1>3. Rest(l) = [tasks EXCEPT ![l] = Tail(q)]
  BY DEF Rest
<1>4. \A k \in Loops : Rest(l)[k] = IF k = l THEN Tail(q) ELSE tasks[k]
  BY <1>3 DEF TaskInv
<1>5. Rest(l) \in [Loops -> Seq(TaskSet)]
  BY <1>2, <1>3 DEF TaskInv
<1>6. \A k \in Loops : Once(Rest(l)[k]) /\ Waiting(Rest(l)[k]) \subseteq Waiting(tasks[k])
  BY <1>2, <1>4 DEF TaskInv
<1>7. ASSUME Head(q).op = "session"
      PROVE  LET c == Head(q).conn
             IN /\ c \in Conns /\ sess[c] = "spawned" /\ loopOf[c] = l
                /\ \A k \in Loops : c \notin Waiting(Rest(l)[k])
  <2> DEFINE c == Head(q).conn
  <2>1. c \in Conns /\ c \in Waiting(q) /\ c \notin Waiting(Tail(q))
    BY <1>2, <1>7
  <2>2. sess[c] = "spawned" /\ loopOf[c] = l
    BY <2>1 DEF TaskInv
  <2> HIDE DEF c
  <2>3. \A k \in Loops : c \in Waiting(tasks[k]) => k = l
    BY <2>2 DEF TaskInv
  <2>4. \A k \in Loops : c \notin Waiting(Rest(l)[k])
    BY <1>4, <2>1, <2>3
  <2> QED
    BY <2>1, <2>2, <2>4 DEF c
<1> QED
  BY <1>5, <1>6, <1>7

\* Notices are posted to the loops.
LEMMA NoticesPosted ==
    ASSUME NEW f \in [Loops -> Seq(TaskSet)], NEW n \in [Loops -> Seq(Notice)],
           \A l \in Loops : Once(f[l]) /\ Waiting(f[l]) \subseteq Waiting(tasks[l]),
           TaskInv, tasks' = [l \in Loops |-> f[l] \o n[l]], UNCHANGED <<sess, loopOf>>
    PROVE  TaskInv'
<1>1. \A l \in Loops : tasks'[l] \in Seq(TaskSet) /\ Once(tasks'[l]) /\ Waiting(tasks'[l]) = Waiting(f[l])
  BY NoticesWaitNot
<1>2. tasks' \in [Loops -> Seq(TaskSet)]
  BY <1>1
<1>3. \A l \in Loops : Once(tasks'[l]) /\ Waiting(tasks'[l]) \subseteq Waiting(tasks[l])
  BY <1>1
<1> QED
  BY <1>2, <1>3, TasksKept

-----------------------------------------------------------------------------
(* Counting                                                                  *)

LEMMA FiniteCounts ==
    /\ IsFiniteSet(Held) /\ IsFiniteSet(Over)
    /\ Cardinality(Held) \in Nat /\ Cardinality(Over) \in Nat
<1>1. IsFiniteSet(Held) /\ IsFiniteSet(Over)
  BY FiniteAssumption, FS_Subset DEF Held, Reserved, Over
<1> QED
  BY <1>1, FS_CardinalityType

Outside3 == {"none", "gone", "accepted"}

\* What the change of one session does to the number of reservations.
LEMMA HeldStep ==
    ASSUME sess \in [Conns -> Sessions], NEW c \in Conns, NEW s \in Sessions, sess' = [sess EXCEPT ![c] = s]
    PROVE  /\ sess' \in [Conns -> Sessions]
           /\ (sess[c] \in Outside3 <=> s \in Outside3) => Cardinality(Held') = Cardinality(Held)
           /\ sess[c] \in Outside3 /\ s \notin Outside3 => Cardinality(Held') = Cardinality(Held) + 1
           /\ sess[c] \notin Outside3 /\ s \in Outside3 => Cardinality(Held') = Cardinality(Held) - 1
<1>1. c \in Held <=> sess[c] \notin Outside3
  BY DEF Held, Reserved, Outside3
<1>2. Held' = IF s \in Outside3 THEN Held \ {c} ELSE Held \cup {c}
  BY DEF Held, Reserved, Outside3
<1>3. IsFiniteSet(Held) /\ Cardinality(Held) \in Nat
  BY FiniteCounts
<1>4. Cardinality(Held \cup {c}) = IF c \in Held THEN Cardinality(Held) ELSE Cardinality(Held) + 1
  BY <1>3, FS_AddElement
<1>5. Cardinality(Held \ {c}) = IF c \in Held THEN Cardinality(Held) - 1 ELSE Cardinality(Held)
  BY <1>3, FS_RemoveElement
<1> QED
  BY <1>1, <1>2, <1>3, <1>4, <1>5

LEMMA OverStep ==
    ASSUME acc \in [Loops -> Accs], NEW l \in Loops, NEW a \in Accs, acc' = [acc EXCEPT ![l] = a]
    PROVE  /\ acc' \in [Loops -> Accs]
           /\ (acc[l] = "over" <=> a = "over") => Cardinality(Over') = Cardinality(Over)
           /\ acc[l] # "over" /\ a = "over" => Cardinality(Over') = Cardinality(Over) + 1
           /\ acc[l] = "over" /\ a # "over" => Cardinality(Over') = Cardinality(Over) - 1
<1>1. l \in Over <=> acc[l] = "over"
  BY DEF Over
<1>2. Over' = IF a = "over" THEN Over \cup {l} ELSE Over \ {l}
  BY DEF Over
<1>3. IsFiniteSet(Over) /\ Cardinality(Over) \in Nat
  BY FiniteCounts
<1>4. Cardinality(Over \cup {l}) = IF l \in Over THEN Cardinality(Over) ELSE Cardinality(Over) + 1
  BY <1>3, FS_AddElement
<1>5. Cardinality(Over \ {l}) = IF l \in Over THEN Cardinality(Over) - 1 ELSE Cardinality(Over)
  BY <1>3, FS_RemoveElement
<1> QED
  BY <1>1, <1>2, <1>3, <1>4, <1>5
LEMMA CountMeans ==
    /\ CountExact <=> active = Cardinality(Held) + Cardinality(Over)
    /\ LimitRespected <=> (MaxConns > 0 => Cardinality(Held) <= MaxConns)
    /\ CountExact' <=> active' = Cardinality(Held') + Cardinality(Over')
    /\ LimitRespected' <=> (MaxConns > 0 => Cardinality(Held') <= MaxConns)
  BY DEF CountExact, LimitRespected, Held, Over

\* No session comes or goes and no client is turned away.
LEMMA CountSame ==
    ASSUME CountInv, UNCHANGED <<acc, sess, loopOf, active>>
    PROVE  CountInv'
<1>1. Held' = Held /\ Over' = Over
  BY DEF Held, Over, Reserved
<1> QED
  BY <1>1, CountMeans DEF CountInv

\* The accept loop of l goes on, without a client that is over the limit.
LEMMA CountAccept ==
    ASSUME CountInv, NEW l \in Loops, NEW a \in Accs \ {"over"}, acc[l] # "over",
           acc' = [acc EXCEPT ![l] = a], UNCHANGED <<sess, loopOf, active>>
    PROVE  CountInv'
<1>1. Held' = Held
  BY DEF Held, Reserved
<1>2. acc' \in [Loops -> Accs] /\ Cardinality(Over') = Cardinality(Over)
  BY OverStep DEF CountInv
<1> QED
  BY <1>1, <1>2, CountMeans DEF CountInv

\* A session with a reservation goes on with it.
LEMMA CountSession ==
    ASSUME CountInv, NEW c \in Conns, NEW s \in Sessions \ Outside3, sess[c] \notin Outside3,
           sess' = [sess EXCEPT ![c] = s], UNCHANGED <<acc, loopOf, active>>
    PROVE  CountInv'
<1>1. Over' = Over
  BY DEF Over
<1>2. sess' \in [Conns -> Sessions] /\ Cardinality(Held') = Cardinality(Held)
  BY HeldStep DEF CountInv
<1> QED
  BY <1>1, <1>2, CountMeans DEF CountInv

\* ~ConnectionReservation.
LEMMA CountLeave ==
    ASSUME CountInv, NEW l \in Loops, NEW c \in Conns, sess[c] \notin Outside3, Leave(l, c), UNCHANGED acc
    PROVE  CountInv'
<1>1. Over' = Over /\ Cardinality(Over) \in Nat /\ Cardinality(Held) \in Nat
  BY FiniteCounts DEF Over
<1>2. sess' = [sess EXCEPT ![c] = "gone"] /\ "gone" \in Sessions /\ "gone" \in Outside3
  BY DEF Leave, Sessions, Outside3
<1>3. sess' \in [Conns -> Sessions] /\ Cardinality(Held') = Cardinality(Held) - 1
  BY <1>2, HeldStep DEF CountInv
<1>4. active' = active - 1 /\ loopOf' = [loopOf EXCEPT ![c] = None]
  BY DEF Leave
<1>5. loopOf' \in [Conns -> Loops \cup {None}]
  BY <1>4 DEF CountInv
<1>6. active' = Cardinality(Held') + Cardinality(Over')
  BY SMTT(60), <1>1, <1>3, <1>4, CountMeans DEF CountInv
<1>7. MaxConns > 0 => Cardinality(Held') <= MaxConns
  BY SMTT(60), <1>1, <1>3, CountMeans, LimitAssumption DEF CountInv
<1> QED
  BY <1>1, <1>3, <1>5, <1>6, <1>7, CountMeans DEF CountInv

-----------------------------------------------------------------------------
(* The drain                                                                 *)

\* The closure that begins a drain, its deadline, and what stop() posts come after
\* draining_ is set.
Begun == \E l \in Loops : \E i \in 1..Len(tasks[l]) : tasks[l][i].op = "begin"

DrainInv ==
    /\ draining \in BOOLEAN /\ (Begun \/ timer = "armed" \/ stage \in {"snapshot", "post"} => draining)
    /\ DrainNotStranded

IInv == ServerInv /\ DrainInv

\* No step of these takes back draining_, arms the timer, or makes the last session leave.
LEMMA DrainKept ==
    ASSUME DrainInv, UNCHANGED <<draining, timer, stage>>, Begun' => Begun,
           UNCHANGED <<running, ending>>, active' = 0 => active = 0, refused => refused'
    PROVE  DrainInv'
<1>1. DrainNotStranded'
  BY DEF DrainInv, DrainNotStranded
<1>2. Begun' \/ timer' = "armed" \/ stage' \in {"snapshot", "post"} => draining'
  BY DEF DrainInv
<1> QED
  BY <1>1, <1>2 DEF DrainInv

\* A closure is taken or one that begins no drain is posted.
LEMMA NotBegun ==
    ASSUME \A l \in Loops : \A i \in 1..Len(tasks'[l]) : tasks'[l][i].op = "begin" =>
               \E j \in 1..Len(tasks[l]) : tasks[l][j].op = "begin",
           Begun'
    PROVE  Begun
<1>1. PICK l \in Loops : \E i \in 1..Len(tasks'[l]) : tasks'[l][i].op = "begin"
  BY DEF Begun
<1>2. PICK i \in 1..Len(tasks'[l]) : tasks'[l][i].op = "begin"
  BY <1>1
<1>3. \E j \in 1..Len(tasks[l]) : tasks[l][j].op = "begin"
  BY <1>2
<1> QED
  BY <1>3 DEF Begun

LEMMA RestNotBegun ==
    ASSUME TaskInv, NEW l \in Loops, tasks[l] # <<>>, tasks' = Rest(l), Begun'
    PROVE  Begun
<1>1. ASSUME NEW k \in Loops, NEW i \in 1..Len(tasks'[k]), tasks'[k][i].op = "begin"
      PROVE  \E j \in 1..Len(tasks[k]) : tasks[k][j].op = "begin"
  <2> DEFINE q == tasks[l]
  <2>1. tasks'[k] = IF k = l THEN Tail(q) ELSE tasks[k]
    BY DEF Rest, TaskInv
  <2>2. q \in Seq(TaskSet) /\ q # <<>>
    BY DEF TaskInv
  <2>3. CASE k = l
    <3> HIDE DEF q
    <3>1. i + 1 \in 1..Len(q) /\ Tail(q)[i] = q[i + 1]
      BY SMTT(60), <2>1, <2>2, <2>3
    <3>2. q[i + 1].op = "begin"
      BY <1>1, <2>1, <2>3, <3>1
    <3> QED
      BY <2>3, <3>1, <3>2 DEF q
  <2>4. CASE k # l
    BY <1>1, <2>1, <2>4
  <2> QED
    BY <2>3, <2>4
<1> QED
  BY <1>1, NotBegun

LEMMA InitHolds == Init => IInv
<1> SUFFICES ASSUME Init PROVE IInv
  OBVIOUS
<1>1. Held = {} /\ Over = {} /\ Cardinality({}) = 0
  BY FS_EmptySet DEF Init, Held, Over, Reserved
<1>2. CountInv
  BY SMTT(60), <1>1, CountMeans, LimitAssumption DEF Init, CountInv, Accs, Sessions
<1>3. \A l \in Loops : tasks[l] = <<>>
  BY DEF Init
<1>4. Waiting(<<>>) = {} /\ Once(<<>>) /\ <<>> \in Seq(TaskSet)
  BY SMTT(60) DEF Waiting, Once
<1>5. TaskInv
  BY <1>3, <1>4 DEF TaskInv, Init
<1>6. ~Begun
  BY SMTT(60), <1>3 DEF Begun
<1>7. DrainInv
  BY <1>6 DEF Init, DrainInv, DrainNotStranded
<1> QED
  BY <1>2, <1>5, <1>7 DEF IInv, ServerInv
-----------------------------------------------------------------------------
(* The steps                                                                 *)

\* Nothing that is counted changes, and no closure is posted.
LEMMA QuietSteps ==
    ASSUME IInv,
           \/ \E l \in Loops : LastOut(l) \/ \E c \in Conns : IdleClose(l, c)
           \/ Announce \/ Deadline \/ BaseReturns \/ Joined
           \/ \E t \in Threads : CallStop(t) \/ CallGraceful(t)
           \/ UNCHANGED vars
    PROVE  IInv'
<1>1. UNCHANGED <<acc, sess, loopOf, active, tasks, refused>>
  BY DEF LastOut, IdleClose, Announce, Deadline, BaseReturns, Joined, CallStop, CallGraceful, vars,
         acceptVars, sessVars
<1>2. CountInv'
  BY <1>1, CountSame DEF IInv, ServerInv
<1>3. TaskInv'
  BY <1>1, SameTasks DEF IInv, ServerInv
<1>4. Begun' => Begun
  BY <1>1 DEF Begun
<1>5. DrainInv'
  <2>1. CASE \E l \in Loops : LastOut(l)
    <3>1. draining' = draining /\ timer' = timer
      BY <2>1 DEF LastOut
    <3>2. CASE draining
      <4>1. stage' \in {"snapshot", "post"} => stage \in {"snapshot", "post"}
        BY <2>1 DEF LastOut, Exchange
      <4>2. ~running'
        BY <2>1, <3>2 DEF LastOut, Exchange
      <4> QED
        BY <1>4, <3>1, <3>2, <4>2 DEF IInv, DrainInv, DrainNotStranded
    <3>3. CASE ~draining
      <4>1. stage' = stage
        BY <2>1, <3>3 DEF LastOut
      <4> QED
        BY <1>4, <3>1, <3>3, <4>1 DEF IInv, DrainInv, DrainNotStranded
    <3> QED
      BY <3>2, <3>3
  <2>2. CASE Announce
    BY SMTT(60), <1>1, <1>4, <2>2 DEF Announce, IInv, DrainInv, DrainNotStranded
  <2>3. CASE Deadline \/ \E t \in Threads : CallStop(t)
    <3>1. draining' = draining /\ ending' = ending /\ (timer' = timer \/ timer' = "off")
      BY <2>3 DEF Deadline, CallStop
    <3>2. stage' \in {"snapshot", "post"} => stage \in {"snapshot", "post"}
      BY <2>3 DEF Deadline, CallStop, Exchange
    <3>3. ~running'
      BY <2>3 DEF Deadline, CallStop, Exchange
    <3> QED
      BY <1>4, <3>1, <3>2, <3>3 DEF IInv, DrainInv, DrainNotStranded
  <2>4. CASE \/ \E l \in Loops : \E c \in Conns : IdleClose(l, c)
             \/ BaseReturns \/ Joined \/ \E t \in Threads : CallGraceful(t)
             \/ UNCHANGED vars
    <3>1. UNCHANGED <<draining, timer, stage, running, ending>>
      BY <2>4 DEF IdleClose, BaseReturns, Joined, CallGraceful, vars, stopVars
    <3> QED
      BY <1>1, <1>4, <3>1, DrainKept DEF IInv
  <2> QED
    BY <2>1, <2>2, <2>3, <2>4
<1> QED
  BY <1>2, <1>3, <1>5 DEF IInv, ServerInv

\* acceptLoop() without a client.
LEMMA AcceptSteps ==
    ASSUME IInv, NEW l \in Loops, AcceptFails(l) \/ AcceptResumes(l) \/ AcceptAborted(l)
    PROVE  IInv'
<1>1. UNCHANGED <<sess, loopOf, active, tasks, refused, draining, timer, stage, running, ending>>
  BY DEF AcceptFails, AcceptResumes, AcceptAborted, sessVars, stopVars
<1>2. PICK a \in Accs \ {"over"} : acc' = [acc EXCEPT ![l] = a]
  BY DEF AcceptFails, AcceptResumes, AcceptAborted, AcceptAgain, Accs
<1>3. acc[l] # "over"
  BY DEF AcceptFails, AcceptResumes, AcceptAborted
<1>4. CountInv'
  BY <1>1, <1>2, <1>3, CountAccept DEF IInv, ServerInv
<1>5. TaskInv'
  BY <1>1, SameTasks DEF IInv, ServerInv
<1>6. Begun' => Begun
  BY <1>1 DEF Begun
<1>7. DrainInv'
  BY <1>1, <1>6, DrainKept DEF IInv
<1> QED
  BY <1>4, <1>5, <1>7 DEF IInv, ServerInv

\* Closures that touch sockets, scanners and flags only.
LEMMA NoticeSteps ==
    ASSUME IInv, NEW l \in Loops,
           CloseAcceptorTask(l) \/ CloseAllTask(l) \/ NotifyCloseTask(l) \/ NotifyDrainTask(l)
    PROVE  IInv'
<1>1. UNCHANGED <<acc, sess, loopOf, active, refused, draining, stage, running, ending>>
  BY DEF CloseAcceptorTask, CloseAllTask, NotifyCloseTask, NotifyDrainTask, sessVars, stopVars, acceptVars
<1>2. tasks[l] # <<>> /\ tasks' = Rest(l)
  BY DEF CloseAcceptorTask, CloseAllTask, NotifyCloseTask, NotifyDrainTask, Task
<1>3. timer' = timer \/ timer' = "off"
  BY DEF CloseAcceptorTask, CloseAllTask, NotifyCloseTask, NotifyDrainTask
<1>4. CountInv'
  BY <1>1, CountSame DEF IInv, ServerInv
<1>5. TaskInv'
  BY <1>1, <1>2, NoticeTaken, TasksKept DEF IInv, ServerInv
<1>6. Begun' => Begun
  BY <1>2, RestNotBegun DEF IInv, ServerInv
<1>7. DrainInv'
  BY <1>1, <1>3, <1>6 DEF IInv, DrainInv, DrainNotStranded
<1> QED
  BY <1>4, <1>5, <1>7 DEF IInv, ServerInv

\* A queue is itself, without a closure that waits twice.
LEMMA OwnQueues ==
    ASSUME TaskInv
    PROVE  /\ tasks \in [Loops -> Seq(TaskSet)]
           /\ \A l \in Loops : Once(tasks[l]) /\ Waiting(tasks[l]) \subseteq Waiting(tasks[l])
  BY DEF TaskInv

LEMMA NoticeTypes ==
    /\ [op |-> "closeAcceptor"] \in Notice /\ [op |-> "closeAll"] \in Notice /\ [op |-> "begin"] \in Notice
    /\ \A r \in Notice : <<r>> \in Seq(Notice)
    /\ \A op \in {"notifyClose", "notifyDrain"} : \A p : Notices(op, p) \in [Loops -> Seq(Notice)]
    /\ Notice \subseteq TaskSet
<1>1. [op |-> "closeAcceptor"] \in Notice /\ [op |-> "closeAll"] \in Notice /\ [op |-> "begin"] \in Notice
  BY DEF Notice
<1>2. \A r \in Notice : <<r>> \in Seq(Notice)
  BY SMTT(60)
<1>3. ASSUME NEW op \in {"notifyClose", "notifyDrain"}, NEW p
      PROVE  Notices(op, p) \in [Loops -> Seq(Notice)]
  <2>1. ASSUME NEW l \in Loops PROVE [op |-> op, conns |-> registry \cap On(l)] \in Notice
    BY DEF Notice, On
  <2>2. \A l \in Loops : <<[op |-> op, conns |-> registry \cap On(l)]>> \in Seq(Notice)
    BY <1>2, <2>1
  <2> QED
    BY SMTT(60), <2>2 DEF Notices
<1>4. Notice \subseteq TaskSet
  BY DEF TaskSet
<1> QED
  BY <1>1, <1>2, <1>3, <1>4

LEMMA NoticesAfter ==
    ASSUME NEW s \in Seq(TaskSet), NEW t \in Seq(Notice), NEW u \in Seq(Notice)
    PROVE  t \o u \in Seq(Notice) /\ (s \o t) \o u = s \o (t \o u)
<1>1. t \in Seq(TaskSet) /\ u \in Seq(TaskSet)
  BY SMTT(60) DEF TaskSet
<1>2. (s \o t) \o u = s \o (t \o u)
  BY SMTT(60), <1>1
<1>3. t \o u \in Seq(Notice)
  BY SMTT(60)
<1> QED
  BY <1>2, <1>3

\* What stop() and gracefulStop() post, all behind draining_.
LEMMA PostSteps ==
    ASSUME IInv, Snapshot \/ StopPost \/ (\E t \in Threads : Graceful(t))
    PROVE  IInv'
<1>1. UNCHANGED <<acc, sess, loopOf, active, refused, timer, running, ending>>
  BY DEF Snapshot, StopPost, Graceful, sessVars, acceptVars
<1>2. CountInv'
  BY <1>1, CountSame DEF IInv, ServerInv
<1>3. draining' /\ draining' \in BOOLEAN
  BY DEF Snapshot, StopPost, Graceful, IInv, DrainInv
<1>4. DrainInv'
  BY <1>1, <1>3 DEF IInv, DrainInv, DrainNotStranded
<1>5. TaskInv'
  <2> USE OwnQueues DEF IInv, ServerInv
  <2>1. CASE Snapshot
    <3>1. Notices("notifyClose", stopper) \in [Loops -> Seq(Notice)]
      BY NoticeTypes
    <3>2. tasks' = [l \in Loops |-> tasks[l] \o Notices("notifyClose", stopper)[l]]
      BY <2>1 DEF Snapshot
    <3> QED
      BY <1>1, <3>1, <3>2, NoticesPosted
  <2>2. CASE StopPost
    <3> DEFINE a == <<[op |-> "closeAcceptor"]>>
               b(l) == IF l = Base \/ scan THEN <<[op |-> "closeAll"]>> ELSE <<>>
               n == [l \in Loops |-> a \o b(l)]
    <3>1. a \in Seq(Notice) /\ \A l \in Loops : b(l) \in Seq(Notice)
      BY SMTT(60), NoticeTypes
    <3>2. tasks' = [l \in Loops |-> (tasks[l] \o a) \o b(l)]
      BY <2>2 DEF StopPost
    <3>3. \A l \in Loops : tasks[l] \in Seq(TaskSet)
      BY DEF TaskInv
    <3> HIDE DEF a, b
    <3>4. \A l \in Loops : a \o b(l) \in Seq(Notice) /\ (tasks[l] \o a) \o b(l) = tasks[l] \o (a \o b(l))
      BY <3>1, <3>3, NoticesAfter
    <3>5. n \in [Loops -> Seq(Notice)] /\ tasks' = [l \in Loops |-> tasks[l] \o n[l]]
      BY <3>2, <3>4
    <3> HIDE DEF n
    <3> QED
      BY <1>1, <3>5, NoticesPosted
  <2>3. CASE \E t \in Threads : Graceful(t)
    <3>1. CASE draining
      <4>1. UNCHANGED tasks
        BY <2>3, <3>1 DEF Graceful
      <4> QED
        BY <1>1, <4>1, SameTasks
    <3>2. CASE ~draining
      <4> DEFINE n == [l \in Loops |-> IF l = Base THEN <<[op |-> "begin"]>> ELSE <<>>]
      <4>1. n \in [Loops -> Seq(Notice)]
        BY SMTT(60), NoticeTypes
      <4>2. tasks' = [tasks EXCEPT ![Base] = @ \o <<[op |-> "begin"]>>]
        BY <2>3, <3>2 DEF Graceful, Posted
      <4>3. tasks' = [l \in Loops |-> tasks[l] \o n[l]]
        <5>1. \A l \in Loops : tasks[l] \in Seq(TaskSet) /\ tasks[l] \o <<>> = tasks[l]
          BY SMTT(60) DEF TaskInv
        <5>2. \A l \in Loops : tasks'[l] = tasks[l] \o n[l]
          BY <4>2, <5>1 DEF TaskInv
        <5>3. tasks' = [l \in Loops |-> tasks'[l]]
          BY <4>2 DEF TaskInv
        <5> QED
          BY <5>2, <5>3
      <4> HIDE DEF n
      <4> QED
        BY <1>1, <4>1, <4>3, NoticesPosted
    <3> QED
      BY <3>1, <3>2
  <2> QED
    BY <2>1, <2>2, <2>3
<1> QED
  BY <1>2, <1>4, <1>5 DEF IInv, ServerInv

\* beginGracefulStopOnLoop(): the timer is armed only while somebody is connected.
LEMMA BeginStep ==
    ASSUME IInv, BeginTask
    PROVE  IInv'
<1>1. UNCHANGED <<acc, sess, loopOf, active, refused, draining, ending>>
  BY DEF BeginTask, acceptVars
<1>2. CountInv'
  BY <1>1, CountSame DEF IInv, ServerInv
<1>3. Base \in Loops /\ tasks[Base] # <<>> /\ Head(tasks[Base]).op = "begin"
  BY DEF BeginTask, Task, Loops
<1>4. draining
  <2>1. tasks[Base] \in Seq(TaskSet)
    BY <1>3 DEF IInv, ServerInv, TaskInv
  <2>2. 1 \in 1..Len(tasks[Base]) /\ tasks[Base][1].op = "begin"
    BY SMTT(60), <1>3, <2>1
  <2> QED
    BY <1>3, <2>2 DEF IInv, DrainInv, Begun
<1>5. DrainNotStranded'
  <2>1. CASE ~running
    BY <1>1, <2>1 DEF BeginTask, IInv, DrainInv, DrainNotStranded
  <2>2. CASE running /\ active = 0
    <3>1. ~running'
      BY <2>2 DEF BeginTask, Exchange
    <3> QED
      BY <3>1 DEF DrainNotStranded
  <2>3. CASE active # 0
    BY <1>1, <2>3 DEF DrainNotStranded
  <2> QED
    BY <2>1, <2>2, <2>3
<1>6. DrainInv'
  BY <1>1, <1>4, <1>5 DEF IInv, DrainInv
<1>7. TaskInv'
  <2> DEFINE f == Rest(Base)
  <2>1. /\ f \in [Loops -> Seq(TaskSet)]
        /\ \A k \in Loops : Once(f[k]) /\ Waiting(f[k]) \subseteq Waiting(tasks[k])
    BY <1>3, NoticeTaken DEF IInv, ServerInv
  <2>2. CASE tasks' = f
    BY <1>1, <2>1, <2>2, TasksKept DEF IInv, ServerInv
  <2>3. CASE tasks' # f
    <3> DEFINE m == Notices("notifyDrain", Base)
               a == <<[op |-> "closeAcceptor"]>>
               n == [l \in Loops |-> m[l] \o a]
    <3>1. m \in [Loops -> Seq(Notice)] /\ a \in Seq(Notice)
      BY NoticeTypes
    <3>2. tasks' = [l \in Loops |-> (f[l] \o m[l]) \o a]
      BY <2>3 DEF BeginTask
    <3> HIDE DEF f, m, a
    <3>3. \A l \in Loops : m[l] \o a \in Seq(Notice) /\ (f[l] \o m[l]) \o a = f[l] \o (m[l] \o a)
      BY SMTT(60), <2>1, <3>1, NoticesAfter
    <3>4. n \in [Loops -> Seq(Notice)] /\ tasks' = [l \in Loops |-> f[l] \o n[l]]
      BY <3>2, <3>3
    <3> HIDE DEF n
    <3> QED
      BY <1>1, <2>1, <3>4, NoticesPosted DEF IInv, ServerInv
  <2> QED
    BY <2>2, <2>3
<1> QED
  BY <1>2, <1>6, <1>7 DEF IInv, ServerInv
\* The last session that leaves is on its way to look at draining_.
LEMMA DrainLeave ==
    ASSUME CountInv, DrainInv, NEW l \in Loops, NEW c \in Conns, Leave(l, c), Begun' => Begun,
           UNCHANGED <<draining, timer, stage, running, refused>>
    PROVE  DrainInv'
<1>1. active \in Int
  BY SMTT(60), FiniteCounts, CountMeans DEF CountInv
<1>2. active' = 0 => ending' # {}
  BY SMTT(60), <1>1 DEF Leave
<1> QED
  BY <1>2 DEF DrainInv, DrainNotStranded

\* A session goes on, with its reservation, or leaves.
LEMMA SessionSteps ==
    ASSUME IInv, NEW l \in Loops, NEW c \in Conns,
           \/ Register(l, c) \/ Recheck(l, c) \/ Handshaken(l, c) \/ PeerEnds(l, c) \/ Broken(l, c)
           \/ UpgradeBegin(l, c) \/ UpgradeEnd(l, c)
    PROVE  IInv'
<1>1. UNCHANGED <<acc, tasks, refused, draining, timer, stage, running>>
  BY DEF Register, Recheck, Handshaken, PeerEnds, Broken, SessionEnds, UpgradeBegin, UpgradeEnd,
         acceptVars, stopVars
<1>2. sess[c] \notin Outside3 /\ sess[c] # "spawned"
  BY DEF Register, Recheck, Handshaken, PeerEnds, Broken, SessionEnds, UpgradeBegin, UpgradeEnd, Live, Outside3
<1>3. Begun' => Begun
  BY <1>1 DEF Begun
<1>4. TaskInv'
  <2>1. sess \in [Conns -> Sessions] /\ loopOf \in [Conns -> Loops \cup {None}]
    BY DEF IInv, ServerInv, CountInv
  <2>2. \A d \in Conns : d # c => sess'[d] = sess[d] /\ loopOf'[d] = loopOf[d]
    BY <2>1 DEF Register, Recheck, Handshaken, PeerEnds, Broken, SessionEnds, UpgradeBegin, UpgradeEnd, Leave
  <2> QED
    BY <1>1, <1>2, <2>2, SameTasks DEF IInv, ServerInv
<1>5. CASE Leave(l, c)
  <2>1. CountInv'
    BY <1>1, <1>2, <1>5, CountLeave DEF IInv, ServerInv
  <2>2. DrainInv'
    BY <1>1, <1>3, <1>5, DrainLeave DEF IInv, ServerInv
  <2> QED
    BY <1>4, <2>1, <2>2 DEF IInv, ServerInv
<1>6. CASE ~Leave(l, c)
  <2>1. UNCHANGED <<loopOf, active, ending>>
    BY <1>6 DEF Register, Recheck, Handshaken, PeerEnds, Broken, SessionEnds, UpgradeBegin, UpgradeEnd
  <2>2. PICK s \in {"registering", "handshake", "open", "upgrading", "upgraded"} : sess' = [sess EXCEPT ![c] = s]
    BY <1>6 DEF Register, Recheck, Handshaken, PeerEnds, Broken, SessionEnds, UpgradeBegin, UpgradeEnd
  <2>3. s \in Sessions \ Outside3
    BY DEF Sessions, Live, Outside3
  <2>4. CountInv'
    BY <1>1, <1>2, <2>1, <2>2, <2>3, CountSession DEF IInv, ServerInv
  <2>5. DrainInv'
    BY <1>1, <1>3, <2>1, DrainKept DEF IInv
  <2> QED
    BY <1>4, <2>4, <2>5 DEF IInv, ServerInv
<1> QED
  BY <1>5, <1>6

\* handleSession() starts on the loop that its closure waited for.
LEMMA StartStep ==
    ASSUME IInv, NEW l \in Loops, SessionTask(l)
    PROVE  IInv'
<1> DEFINE c == Head(tasks[l]).conn
<1>1. UNCHANGED <<acc, refused, draining, timer, stage, running>>
  BY DEF SessionTask, acceptVars, stopVars
<1>2. tasks[l] # <<>> /\ Head(tasks[l]).op = "session" /\ tasks' = Rest(l)
  BY DEF SessionTask, Task
<1>3. /\ Rest(l) \in [Loops -> Seq(TaskSet)]
      /\ \A k \in Loops : Once(Rest(l)[k]) /\ Waiting(Rest(l)[k]) \subseteq Waiting(tasks[k])
      /\ c \in Conns /\ sess[c] = "spawned" /\ loopOf[c] = l
      /\ \A k \in Loops : c \notin Waiting(Rest(l)[k])
  BY <1>2, NoticeTaken DEF IInv, ServerInv
<1>4. Begun' => Begun
  BY <1>2, RestNotBegun DEF IInv, ServerInv
<1>5. sess[c] \notin Outside3
  BY <1>3 DEF Outside3
<1>6. \/ Leave(l, c)
      \/ /\ sess' = [sess EXCEPT ![c] = IF tls THEN "starting" ELSE "open"]
         /\ UNCHANGED <<loopOf, active, ending>>
  BY DEF SessionTask
<1> HIDE DEF c
<1>7. TaskInv'
  <2>1. sess \in [Conns -> Sessions] /\ loopOf \in [Conns -> Loops \cup {None}]
    BY DEF IInv, ServerInv, CountInv
  <2>2. \A d \in Conns : d # c => sess'[d] = sess[d] /\ loopOf'[d] = loopOf[d]
    BY <1>6, <2>1 DEF Leave
  <2>3. \A k \in Loops : \A d \in Waiting(tasks'[k]) :
           d \in Conns /\ sess[d] = "spawned" /\ loopOf[d] = k => sess'[d] = "spawned" /\ loopOf'[d] = k
    BY <1>2, <1>3, <2>2
  <2> QED
    BY <1>2, <1>3, <2>3, TasksKept DEF IInv, ServerInv
<1>8. CASE Leave(l, c)
  <2>1. CountInv'
    BY <1>1, <1>3, <1>5, <1>8, CountLeave DEF IInv, ServerInv
  <2>2. DrainInv'
    BY <1>1, <1>3, <1>4, <1>8, DrainLeave DEF IInv, ServerInv
  <2> QED
    BY <1>7, <2>1, <2>2 DEF IInv, ServerInv
<1>9. CASE sess' = [sess EXCEPT ![c] = IF tls THEN "starting" ELSE "open"] /\ UNCHANGED <<loopOf, active, ending>>
  <2>1. (IF tls THEN "starting" ELSE "open") \in Sessions \ Outside3
    BY DEF Sessions, Live, Outside3
  <2>2. CountInv'
    BY <1>1, <1>3, <1>5, <1>9, <2>1, CountSession DEF IInv, ServerInv
  <2>3. DrainInv'
    BY <1>1, <1>4, <1>9, DrainKept DEF IInv
  <2> QED
    BY <1>7, <2>2, <2>3 DEF IInv, ServerInv
<1> QED
  BY <1>6, <1>8, <1>9
\* acceptLoop() takes a client, or ends on a server that stops.
LEMMA AcceptStep ==
    ASSUME IInv, NEW l \in Loops, NEW c \in Conns, AcceptCheck(l, c)
    PROVE  IInv'
<1> USE DEF IInv, ServerInv
<1>1. UNCHANGED <<tasks, active, refused, draining, timer, stage, running, ending>>
  BY DEF AcceptCheck, stopVars
<1>2. PICK a \in {"checked", "ended"}, s \in {"accepted", "gone"} :
         acc' = [acc EXCEPT ![l] = a] /\ sess' = [sess EXCEPT ![c] = s]
  BY DEF AcceptCheck
<1>3. a \in Accs \ {"over"} /\ s \in Sessions /\ s \in Outside3 /\ sess[c] = "none" /\ sess[c] \in Outside3
      /\ acc[l] # "over"
  BY DEF Accs, Sessions, Outside3, AcceptCheck
<1>4. acc' \in [Loops -> Accs] /\ Cardinality(Over') = Cardinality(Over)
  BY <1>2, <1>3, OverStep DEF CountInv
<1>5. sess' \in [Conns -> Sessions] /\ Cardinality(Held') = Cardinality(Held)
  BY <1>2, <1>3, HeldStep DEF CountInv
<1>6. loopOf' \in [Conns -> Loops \cup {None}] /\ \A d \in Conns : d # c => loopOf'[d] = loopOf[d]
  BY DEF AcceptCheck, CountInv
<1>7. CountInv'
  BY <1>1, <1>4, <1>5, <1>6, CountMeans DEF CountInv
<1>8. TaskInv'
  <2>1. \A d \in Conns : sess[d] = "spawned" => sess'[d] = "spawned" /\ loopOf'[d] = loopOf[d]
    BY <1>2, <1>3, <1>6 DEF CountInv
  <2> QED
    BY <1>1, <2>1, SameTasks
<1>9. DrainInv'
  BY <1>1, DrainKept DEF Begun
<1> QED
  BY <1>7, <1>8, <1>9

\* A client is turned away: the count that was over the limit goes back.
LEMMA TurnAwayStep ==
    ASSUME IInv, NEW l \in Loops, NEW c \in Conns, TurnAway(l, c)
    PROVE  IInv'
<1> USE DEF IInv, ServerInv
<1>1. UNCHANGED <<tasks, draining, timer, stage, running, ending>> /\ active' = active - 1
      /\ refused' = (refused \/ draining)
  BY DEF TurnAway, stopVars
<1>2. AcceptAgain \in Accs \ {"over"} /\ acc' = [acc EXCEPT ![l] = AcceptAgain] /\ acc[l] = "over"
  BY DEF TurnAway, AcceptAgain, Accs
<1>3. "gone" \in Sessions /\ "gone" \in Outside3 /\ sess' = [sess EXCEPT ![c] = "gone"]
      /\ sess[c] = "accepted" /\ sess[c] \in Outside3
  BY DEF TurnAway, Sessions, Outside3
<1>4. acc' \in [Loops -> Accs] /\ Cardinality(Over') = Cardinality(Over) - 1
  BY <1>2, OverStep DEF CountInv
<1>5. sess' \in [Conns -> Sessions] /\ Cardinality(Held') = Cardinality(Held)
  BY <1>3, HeldStep DEF CountInv
<1>6. loopOf' \in [Conns -> Loops \cup {None}] /\ \A d \in Conns : d # c => loopOf'[d] = loopOf[d]
  BY DEF TurnAway, CountInv
<1>7. active' = Cardinality(Held') + Cardinality(Over')
  BY SMTT(60), <1>1, <1>4, <1>5, FiniteCounts, CountMeans DEF CountInv
<1>8. CountInv'
  BY <1>4, <1>5, <1>6, <1>7, CountMeans DEF CountInv
<1>9. TaskInv'
  <2>1. \A d \in Conns : sess[d] = "spawned" => sess'[d] = "spawned" /\ loopOf'[d] = loopOf[d]
    BY <1>3, <1>6 DEF CountInv
  <2> QED
    BY <1>1, <2>1, SameTasks
<1>10. DrainInv'
  <2>1. Begun' => Begun
    BY <1>1 DEF Begun
  <2> QED
    BY <1>1, <2>1 DEF DrainInv, DrainNotStranded
<1> QED
  BY <1>8, <1>9, <1>10

\* fetch_add() and the test: the count includes the clients other loops are turning away.
LEMMA ReserveStep ==
    ASSUME IInv, NEW l \in Loops, NEW c \in Conns, Reserve(l, c)
    PROVE  IInv'
<1> USE DEF IInv, ServerInv
<1>1. UNCHANGED <<loopOf, draining, timer, stage, running, ending>> /\ active' = active + 1
      /\ (refused' = refused \/ refused' = (refused \/ draining))
  BY DEF Reserve, stopVars
<1>2. acc[l] = "checked" /\ sess[c] = "accepted" /\ sess[c] \in Outside3 /\ loopOf[c] = l
  BY DEF Reserve, Outside3
<1>3. Cardinality(Held) \in Nat /\ Cardinality(Over) \in Nat /\ active = Cardinality(Held) + Cardinality(Over)
  BY FiniteCounts, CountMeans DEF CountInv
<1>4. CASE MaxConns > 0 /\ active >= MaxConns
  <2>1. acc' = [acc EXCEPT ![l] = "over"] /\ UNCHANGED <<sess, tasks>> /\ "over" \in Accs
    BY <1>4 DEF Reserve, Accs
  <2>2. acc' \in [Loops -> Accs] /\ Cardinality(Over') = Cardinality(Over) + 1
    BY <1>2, <2>1, OverStep DEF CountInv
  <2>3. Held' = Held
    BY <2>1 DEF Held, Reserved
  <2>4. CountInv'
    <3>1. active' = Cardinality(Held') + Cardinality(Over')
      BY SMTT(60), <1>1, <1>3, <2>2, <2>3
    <3>2. MaxConns > 0 => Cardinality(Held') <= MaxConns
      BY <2>3, CountMeans DEF CountInv
    <3>3. CountExact' /\ LimitRespected'
      BY <3>1, <3>2, CountMeans
    <3> QED
      BY <1>1, <2>1, <2>2, <3>3 DEF CountInv
  <2>5. TaskInv'
    BY <1>1, <2>1, SameTasks
  <2>6. Begun' => Begun
    BY <2>1 DEF Begun
  <2>7. DrainInv'
    BY SMTT(60), <1>1, <1>3, <2>6 DEF DrainInv, DrainNotStranded
  <2> QED
    BY <2>4, <2>5, <2>7
<1>5. CASE ~(MaxConns > 0 /\ active >= MaxConns)
  <2> DEFINE t == [op |-> "session", conn |-> c]
  <2>1. /\ acc' = [acc EXCEPT ![l] = AcceptAgain] /\ sess' = [sess EXCEPT ![c] = "spawned"]
        /\ tasks' = [tasks EXCEPT ![l] = @ \o <<t>>] /\ AcceptAgain \in Accs \ {"over"}
    BY <1>5 DEF Reserve, Posted, Accs, AcceptAgain
  <2>2. acc' \in [Loops -> Accs] /\ Cardinality(Over') = Cardinality(Over)
    BY <1>2, <2>1, OverStep DEF CountInv
  <2>3. "spawned" \in Sessions /\ "spawned" \notin Outside3
    BY DEF Sessions, Outside3
  <2>4. sess' \in [Conns -> Sessions] /\ Cardinality(Held') = Cardinality(Held) + 1
    BY <1>2, <2>1, <2>3, HeldStep DEF CountInv
  <2>5. active' = Cardinality(Held') + Cardinality(Over')
    BY SMTT(60), <1>1, <1>3, <2>2, <2>4
  <2>6. MaxConns > 0 => Cardinality(Held') <= MaxConns
    BY SMTT(60), <1>3, <1>5, <2>4, LimitAssumption
  <2>7. CountInv'
    BY <1>1, <2>2, <2>4, <2>5, <2>6, CountMeans DEF CountInv
  <2>8. \A k \in Loops : c \notin Waiting(tasks[k])
    BY <1>2 DEF TaskInv
  <2>9. tasks[l] \in Seq(TaskSet) /\ Once(tasks[l])
    BY DEF TaskInv
  <2>10. /\ tasks[l] \o <<t>> \in Seq(TaskSet) /\ Once(tasks[l] \o <<t>>)
         /\ Waiting(tasks[l] \o <<t>>) = Waiting(tasks[l]) \cup {c}
    BY <2>8, <2>9, SessionWaits
  <2>11. \A k \in Loops : tasks'[k] = IF k = l THEN tasks[l] \o <<t>> ELSE tasks[k]
    BY <2>1 DEF TaskInv
  <2>12. TaskInv'
    <3>1. tasks' \in [Loops -> Seq(TaskSet)]
      BY <2>1, <2>10 DEF TaskInv
    <3>2. \A d \in Conns : sess[d] = "spawned" => sess'[d] = "spawned"
      BY <2>1 DEF CountInv
    <3>3. sess'[c] = "spawned" /\ loopOf'[c] = l
      BY <1>1, <1>2, <2>1 DEF CountInv
    <3>4. \A k \in Loops : Waiting(tasks[k]) \subseteq Conns
      BY WaitingConns DEF TaskInv
    <3> HIDE DEF t
    <3>5. ASSUME NEW k \in Loops PROVE Once(tasks'[k]) /\ \A d \in Waiting(tasks'[k]) : sess'[d] = "spawned" /\ loopOf'[d] = k
      <4>1. Once(tasks'[k])
        BY <2>10, <2>11 DEF TaskInv
      <4>2. Waiting(tasks'[k]) = IF k = l THEN Waiting(tasks[k]) \cup {c} ELSE Waiting(tasks[k])
        BY <2>10, <2>11
      <4>3. \A d \in Waiting(tasks[k]) : sess'[d] = "spawned" /\ loopOf'[d] = k
        BY <1>1, <3>2, <3>4 DEF TaskInv
      <4> QED
        BY <3>3, <4>1, <4>2, <4>3
    <3> QED
      BY <3>1, <3>5 DEF TaskInv
  <2>13. Begun' => Begun
    <3>1. ASSUME NEW k \in Loops, NEW i \in 1..Len(tasks'[k]), tasks'[k][i].op = "begin"
          PROVE  \E j \in 1..Len(tasks[k]) : tasks[k][j].op = "begin"
      <4>1. t.op # "begin"
        OBVIOUS
      <4> HIDE DEF t
      <4>2. tasks[k] \in Seq(TaskSet)
        BY DEF TaskInv
      <4>3. CASE k = l
        <5>1. \A j \in 1..Len(tasks[l] \o <<t>>) : IF j <= Len(tasks[l]) THEN (tasks[l] \o <<t>>)[j] = tasks[l][j]
                                                    ELSE (tasks[l] \o <<t>>)[j] = t
          BY SMTT(60), <2>9
        <5>2. Len(tasks[l]) \in Nat
          BY SMTT(60), <2>9
        <5>3. tasks'[k] = tasks[l] \o <<t>>
          BY <2>11, <4>3
        <5>4. i \in 1..Len(tasks[l]) /\ tasks'[k][i] = tasks[l][i]
          BY SMTT(60), <3>1, <4>1, <5>1, <5>2, <5>3
        <5> QED
          BY <3>1, <4>3, <5>4
      <4> QED
        BY <2>11, <3>1, <4>3
    <3> QED
      BY <3>1, NotBegun
  <2>14. DrainInv'
    BY SMTT(60), <1>1, <1>3, <2>13 DEF DrainInv, DrainNotStranded
  <2> QED
    BY <2>7, <2>12, <2>14
<1> QED
  BY <1>4, <1>5

-----------------------------------------------------------------------------
(* The theorems                                                              *)

LEMMA NextHolds == IInv /\ [Next]_vars => IInv'
<1> SUFFICES ASSUME IInv, [Next]_vars PROVE IInv'
  OBVIOUS
<1>1. CASE \E l \in Loops : Internal(l) \/ AcceptResumes(l)
  BY <1>1, AcceptSteps, StartStep, QuietSteps, NoticeSteps, ReserveStep, TurnAwayStep, SessionSteps DEF Internal
<1>2. CASE (\E t \in Threads : Graceful(t)) \/ Stopping
  BY <1>2, PostSteps, QuietSteps DEF Stopping
<1>3. CASE Main
  BY <1>3, BeginStep, QuietSteps DEF Main
<1>4. CASE Outside
  BY <1>4, AcceptStep, SessionSteps, QuietSteps, AcceptSteps DEF Outside
<1>5. CASE UNCHANGED vars
  BY <1>5, QuietSteps
<1> QED
  BY <1>1, <1>2, <1>3, <1>4, <1>5 DEF Next

LEMMA Inductive == Spec => []IInv
  BY InitHolds, NextHolds, PTL DEF Spec

\* activeConnections_ is exact in every server: what commitAcceptedSocket(),
\* the refusals at the limit and ~ConnectionReservation add and take on
\* different loops always balances.
THEOREM ConnectionsCounted == Spec => []CountExact
<1>1. IInv => CountExact
  BY DEF IInv, ServerInv, CountInv
<1> QED
  BY <1>1, Inductive, PTL

\* However many loops accept at once, no more than maxConnections_ sessions are
\* admitted: fetch_add() comes before the test (commitAcceptedSocket()).
THEOREM LimitHolds == Spec => []LimitRespected
<1>1. IInv => LimitRespected
  BY DEF IInv, ServerInv, CountInv
<1> QED
  BY <1>1, Inductive, PTL

\* A drain does not wait for its deadline once nobody is connected and nobody is
\* about to look: the last session to leave stops the server, unless a client
\* was being refused at the limit while it left (~ConnectionReservation,
\* beginGracefulStopOnLoop()).
THEOREM DrainNoticed == Spec => []DrainNotStranded
<1>1. IInv => DrainNotStranded
  BY DEF IInv, DrainInv
<1> QED
  BY <1>1, Inductive, PTL
=============================================================================
