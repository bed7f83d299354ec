--------------------------- MODULE HttpServerStops ---------------------------
(* stop() and gracefulStop() miss nobody, for any number of loops, clients    *)
(* and callers.  What a stop or a drain does to a session it does in a        *)
(* closure on the session's loop.  So each session that is still to be        *)
(* reached has such a closure in the queue of its loop: it was in the         *)
(* registry, or on the scanner's list, when the closure was posted, because   *)
(* none starts to serve once running_ is cleared or draining_ is set.         *)
EXTENDS HttpServerProofs

\* The time a leaf may take.
USE ZenonT(60)

\* The closures in a queue.
Queued(q) == {q[i] : i \in 1..Len(q)}

\* The flags and sets that TypeOK is about and ServerInv is not.
ShapeInv ==
    /\ tls \in BOOLEAN /\ scan \in BOOLEAN /\ running \in BOOLEAN /\ work \in BOOLEAN
    /\ refused \in BOOLEAN
    /\ accSock \subseteq Loops /\ scanner \subseteq Loops /\ ending \subseteq Loops
    /\ timer \in {"off", "armed"} /\ phase \in {"run", "join", "returned"}
    /\ stopper \in Loops \cup Threads \cup {None}

\* Where connections are: on a list only with a reservation, on a loop from
\* the accept on; and a loop that is about to reserve has a client to do it for.
PlaceInv ==
    /\ sock \cup entry \cup registry \subseteq Held
    /\ \A c \in Conns : sess[c] \notin {"none", "gone"} => loopOf[c] \in Loops
    /\ \A l \in Loops : acc[l] \in {"checked", "over"} =>
          \E c \in Conns : sess[c] = "accepted" /\ loopOf[c] = l

\* Sessions that serve over TLS are in the registry.
KindInv ==
    /\ ~tls => \A c \in Conns : sess[c] \notin {"starting", "registering", "handshake"}
    /\ tls => \A c \in Conns : sess[c] \in Live \cup {"registering"} => c \in registry

StageInv == running => stage = "idle" /\ (scan => scanner = Loops)

\* After the snapshot of stop(): who serves with an open socket is in a
\* closure on its loop.
CloseInv ==
    tls /\ stage \in {"post", "done"} =>
        \A c \in Conns : c \in sock /\ sess[c] \in Live =>
            \E t \in Queued(tasks[loopOf[c]]) : t.op = "notifyClose" /\ c \in t.conns

\* The same for plain sessions and the scanners.  A loop keeps its scanner
\* until closeAll() has run.
ScanInv ==
    scan /\ ~tls =>
        /\ \A c \in Conns : c \in sock \ missed /\ sess[c] \in Live =>
              /\ loopOf[c] \in scanner
              /\ sess[c] # "upgrading" => c \in entry
        /\ stage = "done" => \A l \in scanner : \E t \in Queued(tasks[l]) : t.op = "closeAll"

\* While a drain waits for its deadline: who serves was told to finish, or is
\* in a closure on its loop.
AskInv ==
    timer = "armed" /\ tls =>
        \A c \in Conns : sess[c] = "open" =>
            \/ c \in told
            \/ \E t \in Queued(tasks[loopOf[c]]) : t.op = "notifyDrain" /\ c \in t.conns

ReachInv == /\ ShapeInv /\ PlaceInv /\ KindInv /\ StageInv
            /\ CloseInv /\ ScanInv /\ AskInv

\* Scanners are stopped only by stop().
RunInv == running => \A l \in Loops : \A t \in Queued(tasks[l]) : t.op # "closeAll"

-----------------------------------------------------------------------------
(* Queues                                                                    *)

\* A queue with no closure, with one, one whose first is taken, one with others posted.
LEMMA NothingQueued == Queued(<<>>) = {}
<1>1. 1..Len(<<>>) = {}
  BY SMTT(60)
<1> QED
  BY <1>1 DEF Queued

LEMMA OneTask == ASSUME NEW t PROVE Queued(<<t>>) = {t}
<1>1. Len(<<t>>) = 1 /\ <<t>>[1] = t
  BY SMTT(60)
<1>2. 1..1 = {1}
  BY SMTT(60)
<1> QED
  BY <1>1, <1>2 DEF Queued

LEMMA TailElems ==
    ASSUME NEW q \in Seq(TaskSet), q # <<>>
    PROVE  Tail(q) \in Seq(TaskSet) /\ Queued(q) = {Head(q)} \cup Queued(Tail(q))
<1> DEFINE r == Tail(q)
<1>1. /\ r \in Seq(TaskSet) /\ Len(q) \in Nat /\ Len(q) >= 1 /\ Len(r) = Len(q) - 1 /\ Head(q) = q[1]
      /\ \A i \in 1..Len(r) : r[i] = q[i + 1]
  BY SMTT(60)
<1> HIDE DEF r
<1>2. ASSUME NEW x \in Queued(q) PROVE x \in {q[1]} \cup Queued(r)
  <2>1. PICK i \in 1..Len(q) : x = q[i]
    BY DEF Queued
  <2>2. i # 1 => i - 1 \in 1..Len(r) /\ r[i - 1] = q[i]
    BY SMTT(60), <1>1, <2>1
  <2> QED
    BY <2>1, <2>2 DEF Queued
<1>3. ASSUME NEW i \in 1..Len(r) PROVE i + 1 \in 1..Len(q) /\ r[i] = q[i + 1]
  BY SMTT(60), <1>1
<1>4. 1 \in 1..Len(q)
  BY SMTT(60), <1>1
<1>5. {q[1]} \cup Queued(r) \subseteq Queued(q)
  BY <1>3, <1>4 DEF Queued
<1>6. Queued(q) = {q[1]} \cup Queued(r)
  BY <1>2, <1>5
<1> QED
  BY <1>1, <1>6 DEF r

LEMMA ConcatElems ==
    ASSUME NEW s \in Seq(TaskSet), NEW t \in Seq(TaskSet)
    PROVE  s \o t \in Seq(TaskSet) /\ Queued(s \o t) = Queued(s) \cup Queued(t)
<1> DEFINE u == s \o t
<1>1. /\ u \in Seq(TaskSet) /\ Len(u) = Len(s) + Len(t) /\ Len(s) \in Nat /\ Len(t) \in Nat
      /\ \A i \in 1..Len(u) : u[i] = IF i <= Len(s) THEN s[i] ELSE t[i - Len(s)]
  BY SMTT(60)
<1> HIDE DEF u
<1>2. ASSUME NEW i \in 1..Len(u) PROVE u[i] \in Queued(s) \cup Queued(t)
  <2>1. \/ i \in 1..Len(s) /\ u[i] = s[i]
        \/ i - Len(s) \in 1..Len(t) /\ u[i] = t[i - Len(s)]
    BY SMTT(60), <1>1
  <2> QED
    BY <2>1 DEF Queued
<1>3. ASSUME NEW i \in 1..Len(s) PROVE i \in 1..Len(u) /\ u[i] = s[i]
  BY SMTT(60), <1>1
<1>4. ASSUME NEW i \in 1..Len(t) PROVE i + Len(s) \in 1..Len(u) /\ u[i + Len(s)] = t[i]
  BY SMTT(60), <1>1
<1>5. Queued(s) \subseteq Queued(u) /\ Queued(t) \subseteq Queued(u)
  BY <1>3, <1>4 DEF Queued
<1>6. Queued(u) \subseteq Queued(s) \cup Queued(t)
  BY <1>2 DEF Queued
<1>7. Queued(u) = Queued(s) \cup Queued(t)
  BY <1>5, <1>6
<1> QED
  BY <1>1, <1>7 DEF u

LEMMA TakenTasks ==
    ASSUME TaskInv, NEW l \in Loops, tasks[l] # <<>>
    PROVE  \A k \in Loops : \A t \in Queued(tasks[k]) :
              t \in Queued(Rest(l)[k]) \/ (k = l /\ t = Head(tasks[l]))
<1>1. tasks[l] \in Seq(TaskSet)
  BY DEF TaskInv
<1>2. Queued(tasks[l]) = {Head(tasks[l])} \cup Queued(Tail(tasks[l]))
  BY <1>1, TailElems
<1>3. \A k \in Loops : Rest(l)[k] = IF k = l THEN Tail(tasks[l]) ELSE tasks[k]
  BY DEF Rest, TaskInv
<1> QED
  BY <1>2, <1>3

LEMMA RestTasks ==
    ASSUME TaskInv, NEW l \in Loops, tasks[l] # <<>>
    PROVE  Rest(l) \in [Loops -> Seq(TaskSet)] /\ \A k \in Loops : Queued(Rest(l)[k]) \subseteq Queued(tasks[k])
<1>1. Tail(tasks[l]) \in Seq(TaskSet) /\ Queued(Tail(tasks[l])) \subseteq Queued(tasks[l])
  <2>1. tasks[l] \in Seq(TaskSet)
    BY DEF TaskInv
  <2> QED
    BY <2>1, TailElems
<1> QED
  BY <1>1 DEF Rest, TaskInv

LEMMA PostedOne ==
    ASSUME TaskInv, NEW l \in Loops, NEW r \in TaskSet, tasks' = Posted(l, <<r>>)
    PROVE  \A k \in Loops : Queued(tasks'[k]) = Queued(tasks[k]) \cup (IF k = l THEN {r} ELSE {})
<1>1. tasks[l] \in Seq(TaskSet) /\ <<r>> \in Seq(TaskSet)
  BY SMTT(60) DEF TaskInv
<1>2. Queued(tasks[l] \o <<r>>) = Queued(tasks[l]) \cup {r}
  BY <1>1, ConcatElems, OneTask
<1>3. \A k \in Loops : tasks'[k] = IF k = l THEN tasks[l] \o <<r>> ELSE tasks[k]
  BY DEF Posted, TaskInv
<1> QED
  BY <1>2, <1>3

LEMMA PostedTasks ==
    ASSUME NEW f \in [Loops -> Seq(TaskSet)], NEW n \in [Loops -> Seq(TaskSet)],
           tasks' = [k \in Loops |-> f[k] \o n[k]]
    PROVE  \A k \in Loops : Queued(tasks'[k]) = Queued(f[k]) \cup Queued(n[k])
<1> TAKE k \in Loops
<1>1. tasks'[k] = f[k] \o n[k] /\ f[k] \in Seq(TaskSet) /\ n[k] \in Seq(TaskSet)
  OBVIOUS
<1> QED
  BY SMTT(60), <1>1, ConcatElems

\* A step that takes no closure of this kind.
Keeps(op) == \A k \in Loops : \A t \in Queued(tasks[k]) : t.op = op => t \in Queued(tasks'[k])

LEMMA CloseKept ==
    ASSUME PlaceInv, CloseInv, tls' = tls, Keeps("notifyClose"),
           tls /\ stage' \in {"post", "done"} => stage \in {"post", "done"},
           \A c \in Conns : c \in sock' /\ sess'[c] \in Live =>
              c \in sock /\ sess[c] \in Live /\ loopOf'[c] = loopOf[c]
    PROVE  CloseInv'
<1> SUFFICES ASSUME tls, stage' \in {"post", "done"}, NEW c \in Conns, c \in sock', sess'[c] \in Live
             PROVE  \E t \in Queued(tasks'[loopOf'[c]]) : t.op = "notifyClose" /\ c \in t.conns
  BY DEF CloseInv
<1>1. c \in sock /\ sess[c] \in Live /\ loopOf'[c] = loopOf[c] /\ stage \in {"post", "done"}
  OBVIOUS
<1>2. loopOf[c] \in Loops
  BY <1>1 DEF PlaceInv, Live
<1>3. PICK t \in Queued(tasks[loopOf[c]]) : t.op = "notifyClose" /\ c \in t.conns
  BY <1>1 DEF CloseInv
<1> QED
  BY <1>1, <1>2, <1>3 DEF Keeps

LEMMA ScanKept ==
    ASSUME ScanInv, UNCHANGED <<tls, scan, scanner, missed>>, scanner \subseteq Loops,
           stage' = "done" => stage = "done", Keeps("closeAll"),
           \A c \in Conns : c \in sock' /\ sess'[c] \in Live =>
              /\ c \in sock /\ sess[c] \in Live /\ loopOf'[c] = loopOf[c]
              /\ \/ sess'[c] = "upgrading"
                 \/ sess[c] # "upgrading" /\ (c \in entry => c \in entry')
                 \/ loopOf[c] \in scanner => c \in entry'
    PROVE  ScanInv'
<1> SUFFICES ASSUME scan, ~tls
             PROVE  /\ \A c \in Conns : c \in sock' \ missed /\ sess'[c] \in Live =>
                          /\ loopOf'[c] \in scanner
                          /\ sess'[c] # "upgrading" => c \in entry'
                    /\ stage' = "done" => \A l \in scanner : \E t \in Queued(tasks'[l]) : t.op = "closeAll"
  BY DEF ScanInv
<1>1. \A c \in Conns : c \in sock' \ missed /\ sess'[c] \in Live =>
          /\ loopOf'[c] \in scanner
          /\ sess'[c] # "upgrading" => c \in entry'
  BY DEF ScanInv
<1>2. ASSUME stage' = "done", NEW l \in scanner PROVE \E t \in Queued(tasks'[l]) : t.op = "closeAll"
  <2>1. PICK t \in Queued(tasks[l]) : t.op = "closeAll"
    BY <1>2 DEF ScanInv
  <2> QED
    BY <2>1 DEF Keeps
<1> QED
  BY <1>1, <1>2

LEMMA AskKept ==
    ASSUME PlaceInv, AskInv, tls' = tls, timer' = "armed" => timer = "armed", Keeps("notifyDrain"),
           \A c \in Conns : sess'[c] = "open" =>
              sess[c] = "open" /\ loopOf'[c] = loopOf[c] /\ (c \in told => c \in told')
    PROVE  AskInv'
<1> SUFFICES ASSUME timer' = "armed", tls, NEW c \in Conns, sess'[c] = "open", c \notin told'
             PROVE  \E t \in Queued(tasks'[loopOf'[c]]) : t.op = "notifyDrain" /\ c \in t.conns
  BY DEF AskInv
<1>1. sess[c] = "open" /\ c \notin told /\ loopOf'[c] = loopOf[c] /\ loopOf[c] \in Loops
  BY DEF PlaceInv
<1>2. PICK t \in Queued(tasks[loopOf[c]]) : t.op = "notifyDrain" /\ c \in t.conns
  BY <1>1 DEF AskInv
<1> QED
  BY <1>1, <1>2 DEF Keeps

\* A step after which nobody newly serves, nobody that was told is forgotten,
\* and no closure is gone that closes or tells.
LEMMA ReachKept ==
    ASSUME PlaceInv, CloseInv, ScanInv, AskInv,
           UNCHANGED <<tls, scan, scanner, missed>>, scanner \subseteq Loops,
           stage' = "done" => stage = "done",
           tls /\ stage' \in {"post", "done"} => stage \in {"post", "done"},
           timer' = "armed" => timer = "armed",
           \A c \in Conns : sess'[c] = "open" =>
              sess[c] = "open" /\ loopOf'[c] = loopOf[c] /\ (c \in told => c \in told'),
           \A c \in Conns : c \in sock' /\ sess'[c] \in Live =>
              /\ c \in sock /\ sess[c] \in Live /\ loopOf'[c] = loopOf[c]
              /\ \/ sess'[c] = "upgrading"
                 \/ sess[c] # "upgrading" /\ (c \in entry => c \in entry')
                 \/ loopOf[c] \in scanner => c \in entry',
           \A k \in Loops : \A t \in Queued(tasks[k]) :
              t \in Queued(tasks'[k]) \/ t.op \in {"closeAcceptor", "session", "begin"}
    PROVE  CloseInv' /\ ScanInv' /\ AskInv'
<1>1. Keeps("notifyClose") /\ Keeps("closeAll") /\ Keeps("notifyDrain")
  BY DEF Keeps
<1>2. CloseInv'
  BY <1>1, CloseKept
<1>3. ScanInv'
  BY <1>1, ScanKept
<1>4. AskInv'
  BY <1>1, AskKept
<1> QED
  BY <1>2, <1>3, <1>4

-----------------------------------------------------------------------------
(* The steps                                                                 *)

LEMMA ReachInit == Init => ReachInv
<1> SUFFICES ASSUME Init PROVE ReachInv
  OBVIOUS
<1>1. ShapeInv
  BY DEF Init, ShapeInv
<1>2. PlaceInv /\ KindInv /\ StageInv
  BY DEF Init, PlaceInv, KindInv, StageInv, Live
<1>3. CloseInv /\ ScanInv /\ AskInv
  BY DEF Init, CloseInv, ScanInv, AskInv
<1> QED
  BY <1>1, <1>2, <1>3 DEF ReachInv

\* A client is accepted, reserved for or turned away.
LEMMA ReachAccept ==
    ASSUME IInv, ReachInv, NEW l \in Loops, NEW c \in Conns,
           AcceptCheck(l, c) \/ Reserve(l, c) \/ TurnAway(l, c)
    PROVE  ReachInv'
<1> USE DEF config, stopVars, ReachInv
<1>1. /\ UNCHANGED <<tls, scan, running, accSock, scanner, timer, ending, stopper, stage, work, phase,
                     missed, told, entry, registry, draining>>
      /\ sess[c] \in {"none", "accepted"} /\ refused' \in BOOLEAN
      /\ sock' \subseteq sock \cup {c}
  BY DEF AcceptCheck, Reserve, TurnAway, ShapeInv, IInv, DrainInv
<1>2. /\ sess \in [Conns -> Sessions] /\ loopOf \in [Conns -> Loops \cup {None}]
      /\ acc \in [Loops -> Accs] /\ tasks \in [Loops -> Seq(TaskSet)]
  BY DEF IInv, ServerInv, CountInv, TaskInv
<1>3. /\ sess'[c] \in {"accepted", "spawned", "gone"}
      /\ \A d \in Conns : d # c => sess'[d] = sess[d] /\ loopOf'[d] = loopOf[d]
      /\ sess'[c] # "gone" => loopOf'[c] = l
      /\ c \in sock' => c \in sock \/ sess'[c] = "spawned"
  BY <1>2 DEF AcceptCheck, Reserve, TurnAway
<1>4. /\ \A k \in Loops : k # l => acc'[k] = acc[k]
      /\ acc'[l] \in {"checked", "over"} => sess'[c] = "accepted"
      /\ sess[c] = "accepted" => loopOf[c] = l
  BY <1>2 DEF AcceptCheck, Reserve, TurnAway, AcceptAgain
<1>5. \A k \in Loops : Queued(tasks[k]) \subseteq Queued(tasks'[k])
  <2>1. CASE UNCHANGED tasks
    BY <2>1
  <2>2. CASE tasks' # tasks
    <3> DEFINE t == [op |-> "session", conn |-> c]
    <3>1. tasks' = Posted(l, <<t>>) /\ t \in TaskSet
      BY <2>2 DEF AcceptCheck, Reserve, TurnAway, TaskSet
    <3> QED
      BY <3>1, PostedOne DEF IInv, ServerInv
  <2> QED
    BY <2>1, <2>2
<1>6. c \notin sock \cup entry \cup registry
  BY <1>1 DEF PlaceInv, Held, Reserved
<1>7. ShapeInv'
  BY <1>1 DEF ShapeInv
<1>8. PlaceInv'
  <2>1. \A d \in Conns : d # c => (d \in Held' <=> d \in Held)
    BY <1>3 DEF Held, Reserved
  <2>2. sess'[c] = "spawned" => c \in Held'
    BY DEF Held, Reserved
  <2>3. Held \subseteq Conns
    BY DEF Held, Reserved
  <2>4. sock' \cup entry' \cup registry' \subseteq Held'
    BY <1>1, <1>3, <1>6, <2>1, <2>2, <2>3 DEF PlaceInv
  <2>5. \A d \in Conns : sess'[d] \notin {"none", "gone"} => loopOf'[d] \in Loops
    BY <1>3 DEF PlaceInv
  <2>6. ASSUME NEW k \in Loops, acc'[k] \in {"checked", "over"}
        PROVE  \E d \in Conns : sess'[d] = "accepted" /\ loopOf'[d] = k
    <3>1. CASE k = l
      BY <1>3, <1>4, <2>6, <3>1
    <3>2. CASE k # l
      <4>1. PICK d \in Conns : sess[d] = "accepted" /\ loopOf[d] = k
        BY <1>4, <2>6, <3>2 DEF PlaceInv
      <4>2. d # c
        BY <1>4, <3>2, <4>1
      <4> QED
        BY <1>3, <4>1, <4>2
    <3> QED
      BY <3>1, <3>2
  <2> QED
    BY <2>4, <2>5, <2>6 DEF PlaceInv
<1>9. KindInv'
  BY <1>1, <1>3 DEF KindInv, Live
<1>10. StageInv'
  BY <1>1 DEF StageInv
<1>11. CloseInv' /\ ScanInv' /\ AskInv'
  <2>1. \A d \in Conns : sess'[d] \in Live => d # c
    BY <1>3 DEF Live
  <2>2. "open" \in Live
    BY DEF Live
  <2> QED
    BY <1>1, <1>3, <1>5, <2>1, <2>2, ReachKept DEF ShapeInv
<1> QED
  BY <1>7, <1>8, <1>9, <1>10, <1>11

\* Steps that touch neither sessions nor queues, but perhaps running_ and the
\* stage of stop(), or close a socket.
LEMMA ReachQuiet ==
    ASSUME IInv, ReachInv,
           \/ \E l \in Loops : \/ LastOut(l) \/ AcceptFails(l) \/ AcceptResumes(l) \/ AcceptAborted(l)
                               \/ \E c \in Conns : IdleClose(l, c)
           \/ Announce \/ Deadline \/ BaseReturns \/ Joined
           \/ \E t \in Threads : CallStop(t) \/ CallGraceful(t)
           \/ UNCHANGED vars
    PROVE  ReachInv'
<1> USE DEF config, acceptVars, sessVars, stopVars, vars, ReachInv
<1>1. /\ UNCHANGED <<tls, scan, tasks, sess, loopOf, entry, registry, told, scanner, missed, accSock,
                     refused, work>>
      /\ sock' \subseteq sock
  BY DEF LastOut, AcceptFails, AcceptResumes, AcceptAborted, IdleClose, Announce, Deadline,
         BaseReturns, Joined, CallStop, CallGraceful
<1>2. /\ running' => running /\ stage' = stage
      /\ stage' = "done" => stage = "done"
      /\ stage' \in {"post", "done"} /\ tls => stage' = stage
      /\ timer' = "armed" => timer = "armed"
  <2>1. CASE Announce
    <3>1. ~running /\ UNCHANGED <<running, timer>>
      BY <2>1 DEF Announce, StageInv
    <3>2. stage' # "done" /\ (tls => stage' = "snapshot")
      BY <2>1 DEF Announce
    <3> QED
      BY <3>1, <3>2
  <2>2. CASE UNCHANGED <<running, stage>>
    <3>1. timer' = timer \/ timer' = "off"
      BY DEF LastOut, AcceptFails, AcceptResumes, AcceptAborted, IdleClose, Announce, Deadline,
         BaseReturns, Joined, CallStop, CallGraceful
    <3> QED
      BY <2>2, <3>1
  <2>3. CASE running' = FALSE /\ stage' = "announce"
    <3>1. timer' = timer \/ timer' = "off"
      BY DEF LastOut, AcceptFails, AcceptResumes, AcceptAborted, IdleClose, Announce, Deadline,
         BaseReturns, Joined, CallStop, CallGraceful
    <3> QED
      BY <2>3, <3>1
  <2> QED
    BY <2>1, <2>2, <2>3 DEF LastOut, AcceptFails, AcceptResumes, AcceptAborted, IdleClose, Deadline,
         BaseReturns, Joined, CallStop, CallGraceful, Exchange
<1>3. \A k \in Loops : acc'[k] \in {"checked", "over"} => acc'[k] = acc[k]
  <2>1. acc \in [Loops -> Accs]
    BY DEF IInv, ServerInv, CountInv
  <2> QED
    BY <2>1 DEF LastOut, AcceptFails, AcceptResumes, AcceptAborted, IdleClose, Announce, Deadline,
         BaseReturns, Joined, CallStop, CallGraceful, AcceptAgain
<1>4. /\ running' \in BOOLEAN /\ ending' \subseteq Loops
      /\ timer' \in {"off", "armed"} /\ phase' \in {"run", "join", "returned"}
      /\ stopper' \in Loops \cup Threads \cup {None}
  <2>1. running' \in BOOLEAN
    BY DEF LastOut, AcceptFails, AcceptResumes, AcceptAborted, IdleClose, Announce, Deadline,
           BaseReturns, Joined, CallStop, CallGraceful, Exchange, ShapeInv
  <2>2. ending' \subseteq Loops
    BY DEF LastOut, AcceptFails, AcceptResumes, AcceptAborted, IdleClose, Announce, Deadline,
           BaseReturns, Joined, CallStop, CallGraceful, Exchange, ShapeInv
  <2>3. timer' \in {"off", "armed"}
    BY DEF LastOut, AcceptFails, AcceptResumes, AcceptAborted, IdleClose, Announce, Deadline,
           BaseReturns, Joined, CallStop, CallGraceful, Exchange, ShapeInv
  <2>4. phase' \in {"run", "join", "returned"}
    BY DEF LastOut, AcceptFails, AcceptResumes, AcceptAborted, IdleClose, Announce, Deadline,
           BaseReturns, Joined, CallStop, CallGraceful, Exchange, ShapeInv
  <2>5. stopper' \in Loops \cup Threads \cup {None}
    <3>1. Base \in Loops
      BY DEF Loops
    <3> QED
      BY <3>1 DEF LastOut, AcceptFails, AcceptResumes, AcceptAborted, IdleClose, Announce, Deadline,
             BaseReturns, Joined, CallStop, CallGraceful, Exchange, ShapeInv
  <2> QED
    BY <2>1, <2>2, <2>3, <2>4, <2>5
<1>5. ShapeInv'
  BY <1>1, <1>4 DEF ShapeInv
<1>6. PlaceInv'
  <2>1. Held' = Held
    BY <1>1 DEF Held, Reserved
  <2> QED
    BY <1>1, <1>3, <2>1 DEF PlaceInv
<1>7. KindInv' /\ StageInv'
  BY <1>1, <1>2 DEF KindInv, StageInv
<1>8. CloseInv' /\ ScanInv' /\ AskInv'
  BY <1>1, <1>2, ReachKept DEF ShapeInv
<1> QED
  BY <1>5, <1>6, <1>7, <1>8

\* What no step of a session c that has its reservation changes.
SessionFrame == UNCHANGED <<config, running, draining, acceptVars, scanner, timer, stopVars, phase,
                            missed, refused>>

\* Only closures that start sessions are taken.
QueuesKept == \A k \in Loops : \A t \in Queued(tasks[k]) : t \in Queued(tasks'[k]) \/ t.op = "session"

LEMMA ReachLeave ==
    ASSUME IInv, ReachInv, NEW l \in Loops, NEW c \in Conns, sess[c] \notin Outside3,
           Leave(l, c), SessionFrame, QueuesKept
    PROVE  ReachInv'
<1> USE DEF config, acceptVars, stopVars, SessionFrame, ReachInv
<1>1. /\ sess \in [Conns -> Sessions] /\ loopOf \in [Conns -> Loops \cup {None}]
  BY DEF IInv, ServerInv, CountInv
<1>2. /\ sess'[c] = "gone" /\ \A d \in Conns : d # c => sess'[d] = sess[d] /\ loopOf'[d] = loopOf[d]
      /\ sock' = sock \ {c} /\ entry' = entry \ {c} /\ registry' = registry \ {c} /\ told' = told \ {c}
      /\ ending' \subseteq ending \cup {l}
  BY <1>1 DEF Leave
<1>3. ShapeInv'
  BY <1>2 DEF ShapeInv
<1>4. PlaceInv'
  <2>1. \A d \in Conns : d # c /\ d \in Held => d \in Held'
    BY <1>2 DEF Held, Reserved
  <2>2. sock' \cup entry' \cup registry' \subseteq Held'
    BY <1>2, <2>1 DEF PlaceInv, Held, Reserved
  <2>3. \A d \in Conns : sess'[d] \notin {"none", "gone"} => loopOf'[d] \in Loops
    BY <1>2 DEF PlaceInv
  <2>4. ASSUME NEW k \in Loops, acc'[k] \in {"checked", "over"}
        PROVE  \E d \in Conns : sess'[d] = "accepted" /\ loopOf'[d] = k
    <3>1. PICK d \in Conns : sess[d] = "accepted" /\ loopOf[d] = k
      BY <2>4 DEF PlaceInv
    <3>2. d # c
      BY <3>1 DEF Outside3
    <3> QED
      BY <1>2, <3>1, <3>2
  <2> QED
    BY <2>2, <2>3, <2>4 DEF PlaceInv
<1>5. KindInv' /\ StageInv'
  BY <1>2 DEF KindInv, StageInv, Live
<1>6. CloseInv' /\ ScanInv' /\ AskInv'
  <2>1. \A d \in Conns : sess'[d] \in Live => d # c
    BY <1>2 DEF Live
  <2>2. "open" \in Live
    BY DEF Live
  <2>3. \A d \in Conns : sess'[d] = "open" =>
              sess[d] = "open" /\ loopOf'[d] = loopOf[d] /\ (d \in told => d \in told')
    BY <1>2, <2>1, <2>2
  <2>4. \A d \in Conns : d \in sock' /\ sess'[d] \in Live =>
              /\ d \in sock /\ sess[d] \in Live /\ loopOf'[d] = loopOf[d]
              /\ \/ sess'[d] = "upgrading"
                 \/ sess[d] # "upgrading" /\ (d \in entry => d \in entry')
                 \/ loopOf[d] \in scanner => d \in entry'
    BY <1>2, <2>1
  <2> QED
    BY <2>3, <2>4, ReachKept DEF ShapeInv, QueuesKept
<1> QED
  BY <1>3, <1>4, <1>5, <1>6

\* A session goes on.
LEMMA ReachGoesOn ==
    ASSUME IInv, ReachInv, NEW c \in Conns, sess[c] \notin Outside3,
           NEW s \in Sessions, s \notin Outside3, sess' = [sess EXCEPT ![c] = s],
           entry' \subseteq entry \cup {c}, registry' \subseteq registry \cup {c},
           SessionFrame, UNCHANGED <<loopOf, sock, ending>>
    PROVE  ShapeInv' /\ PlaceInv' /\ StageInv'
<1> USE DEF config, acceptVars, stopVars, SessionFrame, ReachInv
<1>1. sess \in [Conns -> Sessions]
  BY DEF IInv, ServerInv, CountInv
<1>2. sess'[c] = s /\ \A d \in Conns : d # c => sess'[d] = sess[d]
  BY <1>1
<1>3. ShapeInv' /\ StageInv'
  BY DEF ShapeInv, StageInv
<1>4. PlaceInv'
  <2>1. Held' = Held /\ c \in Held
    BY <1>2 DEF Held, Reserved, Outside3
  <2>2. \A d \in Conns : sess'[d] \notin {"none", "gone"} => loopOf'[d] \in Loops
    BY <1>2 DEF PlaceInv, Outside3
  <2>3. ASSUME NEW k \in Loops, acc'[k] \in {"checked", "over"}
        PROVE  \E d \in Conns : sess'[d] = "accepted" /\ loopOf'[d] = k
    <3>1. PICK d \in Conns : sess[d] = "accepted" /\ loopOf[d] = k
      BY <2>3 DEF PlaceInv
    <3>2. d # c
      BY <3>1 DEF Outside3
    <3> QED
      BY <1>2, <3>1, <3>2
  <2> QED
    BY <2>1, <2>2, <2>3 DEF PlaceInv
<1> QED
  BY <1>3, <1>4

\* Steps of a session that has been started.  None enters Live unless the server
\* runs, and none begins to serve over TLS while it drains.
LEMMA ReachSession ==
    ASSUME IInv, ReachInv, NEW l \in Loops, NEW c \in Conns,
           \/ Register(l, c) \/ Recheck(l, c) \/ Handshaken(l, c) \/ PeerEnds(l, c) \/ Broken(l, c)
           \/ UpgradeBegin(l, c) \/ UpgradeEnd(l, c)
    PROVE  ReachInv'
<1> USE DEF config, acceptVars, stopVars
<1>1. SessionFrame /\ UNCHANGED tasks
  BY DEF Register, Recheck, Handshaken, PeerEnds, Broken, SessionEnds, UpgradeBegin, UpgradeEnd, SessionFrame
<1>2. QueuesKept
  BY <1>1 DEF QueuesKept
<1>3. sess[c] \notin Outside3 /\ loopOf[c] = l
  BY DEF Register, Recheck, Handshaken, PeerEnds, Broken, SessionEnds, UpgradeBegin, UpgradeEnd, Live, Outside3
<1>4. CASE Leave(l, c)
  BY <1>1, <1>2, <1>3, <1>4, ReachLeave
<1>5. CASE ~Leave(l, c)
  <2>1. /\ UNCHANGED <<loopOf, sock, ending, told>>
        /\ entry' \subseteq entry \cup {c} /\ registry' \subseteq registry \cup {c}
        /\ registry \subseteq registry'
    BY <1>5 DEF Register, Recheck, Handshaken, PeerEnds, Broken, SessionEnds, UpgradeBegin, UpgradeEnd
  <2>2. PICK s \in {"registering", "handshake", "open", "upgrading", "upgraded"} : sess' = [sess EXCEPT ![c] = s]
    BY <1>5 DEF Register, Recheck, Handshaken, PeerEnds, Broken, SessionEnds, UpgradeBegin, UpgradeEnd
  <2>3. s \in Sessions /\ s \notin Outside3
    BY DEF Sessions, Live, Outside3
  <2>4. ShapeInv' /\ PlaceInv' /\ StageInv'
    BY <1>1, <1>3, <2>1, <2>2, <2>3, ReachGoesOn
  <2>5. sess \in [Conns -> Sessions]
    BY DEF IInv, ServerInv, CountInv
  <2>6. sess'[c] = s /\ \A d \in Conns : d # c => sess'[d] = sess[d]
    BY <2>2, <2>5
  <2>7. KindInv'
    <3>1. ~tls => s \notin {"starting", "registering", "handshake"}
      BY <1>5, <2>5, <2>6 DEF Register, Recheck, Handshaken, PeerEnds, Broken, SessionEnds, UpgradeBegin, UpgradeEnd,
         ReachInv, KindInv
    <3>2. tls => c \in registry'
      BY <1>5, <2>1 DEF Register, Recheck, Handshaken, PeerEnds, Broken, SessionEnds, UpgradeBegin, UpgradeEnd,
         ReachInv, KindInv, Live
    <3>3. tls' = tls
      BY <1>1 DEF SessionFrame
    <3> QED
      BY <2>1, <2>6, <3>1, <3>2, <3>3 DEF ReachInv, KindInv
  <2>8. CloseInv' /\ ScanInv' /\ AskInv'
    <3>1. CASE Recheck(l, c) \/ Handshaken(l, c)
      <4>1. running /\ ~draining /\ sess[c] \in {"registering", "handshake"}
        BY <1>5, <3>1 DEF Recheck, Handshaken
      <4>2. stage = "idle" /\ timer # "armed" /\ tls
        BY <4>1 DEF ReachInv, StageInv, KindInv, ShapeInv, IInv, DrainInv
      <4>3. stage' = "idle" /\ timer' # "armed" /\ tls' = TRUE
        BY <1>1, <4>2 DEF SessionFrame, ReachInv, ShapeInv
      <4> QED
        BY <4>3 DEF CloseInv, ScanInv, AskInv
    <3>2. CASE Register(l, c) \/ UpgradeBegin(l, c) \/ UpgradeEnd(l, c)
      <4>1. s # "open"
        BY <2>5, <2>6, <3>2 DEF Register, UpgradeBegin, UpgradeEnd
      <4>2. s \in Live => sess[c] \in Live /\ (s = "upgrading" \/ (loopOf[c] \in scanner => c \in entry'))
        BY <1>3, <2>5, <2>6, <3>2 DEF Register, UpgradeBegin, UpgradeEnd, Live
      <4>3. \A d \in Conns : d # c => (d \in entry => d \in entry')
        BY <3>2 DEF Register, UpgradeBegin, UpgradeEnd
      <4>4. \A d \in Conns : sess'[d] = "open" =>
              sess[d] = "open" /\ loopOf'[d] = loopOf[d] /\ (d \in told => d \in told')
        BY <2>1, <2>6, <4>1
      <4>5. \A d \in Conns : d \in sock' /\ sess'[d] \in Live =>
              /\ d \in sock /\ sess[d] \in Live /\ loopOf'[d] = loopOf[d]
              /\ \/ sess'[d] = "upgrading"
                 \/ sess[d] # "upgrading" /\ (d \in entry => d \in entry')
                 \/ loopOf[d] \in scanner => d \in entry'
        <5> TAKE d \in Conns
        <5> HAVE d \in sock' /\ sess'[d] \in Live
        <5>1. CASE d = c
          BY <2>1, <2>6, <4>2, <5>1
        <5>2. CASE d # c
          <6>1. sess'[d] = sess[d] /\ loopOf'[d] = loopOf[d] /\ d \in sock
            BY <2>1, <2>6, <5>2
          <6> QED
            BY <4>3, <5>2, <6>1
        <5> QED
          BY <5>1, <5>2
      <4> QED
        BY <1>1, <4>4, <4>5, ReachKept DEF ReachInv, ShapeInv, SessionFrame
    <3> QED
      BY <1>5, <3>1, <3>2 DEF PeerEnds, Broken, SessionEnds
  <2> QED
    BY <2>4, <2>7, <2>8 DEF ReachInv
<1> QED
  BY <1>4, <1>5

\* handleSession() starts.
LEMMA ReachStart ==
    ASSUME IInv, ReachInv, NEW l \in Loops, SessionTask(l)
    PROVE  ReachInv'
<1> USE DEF config, acceptVars, stopVars
<1> DEFINE c == Head(tasks[l]).conn
<1>1. SessionFrame
  BY DEF SessionTask, SessionFrame
<1>2. tasks[l] # <<>> /\ Head(tasks[l]).op = "session" /\ tasks' = Rest(l)
  BY DEF SessionTask, Task
<1>3. c \in Conns /\ sess[c] = "spawned" /\ loopOf[c] = l
  BY <1>2, NoticeTaken DEF IInv, ServerInv
<1>4. QueuesKept
  BY <1>2, TakenTasks DEF QueuesKept, IInv, ServerInv
<1>5. sess[c] \notin Outside3
  BY <1>3 DEF Outside3
<1>6. \/ Leave(l, c)
      \/ /\ running /\ sess' = [sess EXCEPT ![c] = IF tls THEN "starting" ELSE "open"]
         /\ entry' = IF ~tls /\ l \in scanner THEN entry \cup {c} ELSE entry
         /\ UNCHANGED <<sock, loopOf, registry, told, ending>>
  BY DEF SessionTask
<1> HIDE DEF c
<1>7. CASE Leave(l, c)
  BY <1>1, <1>3, <1>4, <1>5, <1>7, ReachLeave
<1>8. CASE ~Leave(l, c)
  <2> DEFINE s == IF tls THEN "starting" ELSE "open"
  <2>1. /\ running /\ sess' = [sess EXCEPT ![c] = s]
        /\ entry' = IF ~tls /\ l \in scanner THEN entry \cup {c} ELSE entry
        /\ UNCHANGED <<sock, loopOf, registry, told, ending>>
    BY <1>6, <1>8
  <2>2. s \in Sessions /\ s \notin Outside3
    BY DEF Sessions, Live, Outside3
  <2>3. (s = "starting" /\ tls) \/ (s = "open" /\ ~tls)
    OBVIOUS
  <2> HIDE DEF s
  <2>4. ShapeInv' /\ PlaceInv' /\ StageInv'
    BY <1>1, <1>3, <1>5, <2>1, <2>2, ReachGoesOn
  <2>5. sess \in [Conns -> Sessions]
    BY DEF IInv, ServerInv, CountInv
  <2>6. sess'[c] = s /\ \A d \in Conns : d # c => sess'[d] = sess[d]
    BY <1>3, <2>1, <2>5
  <2>7. UNCHANGED <<tls, scan, stage, scanner, timer, missed>>
    BY <1>1 DEF SessionFrame
  <2>8. KindInv'
    BY <2>1, <2>3, <2>6, <2>7 DEF ReachInv, KindInv, Live
  <2>9. stage' = "idle" /\ (scan => scanner = Loops)
    BY <2>1, <2>7 DEF ReachInv, StageInv
  <2>10. CloseInv'
    BY <2>9 DEF CloseInv
  <2>11. ScanInv'
    BY <1>3, <2>1, <2>3, <2>6, <2>7, <2>9 DEF ReachInv, ScanInv
  <2>12. AskInv'
    <3> SUFFICES ASSUME timer = "armed", tls, NEW d \in Conns, sess'[d] = "open", d \notin told'
                 PROVE  \E t \in Queued(tasks'[loopOf'[d]]) : t.op = "notifyDrain" /\ d \in t.conns
      BY <2>7 DEF AskInv
    <3>1. d # c /\ sess[d] = "open" /\ loopOf'[d] = loopOf[d] /\ d \notin told
      BY <2>1, <2>3, <2>6
    <3>2. loopOf[d] \in Loops
      BY <3>1 DEF ReachInv, PlaceInv
    <3>3. PICK t \in Queued(tasks[loopOf[d]]) : t.op = "notifyDrain" /\ d \in t.conns
      BY <3>1 DEF ReachInv, AskInv
    <3> QED
      BY <1>4, <3>1, <3>2, <3>3 DEF QueuesKept
  <2> QED
    BY <2>4, <2>8, <2>10, <2>11, <2>12 DEF ReachInv
<1> QED
  BY <1>7, <1>8

\* What steps that leave the sessions and the accept loops alone keep.
LEMMA ReachFrame ==
    ASSUME ReachInv, UNCHANGED <<tls, scan, refused, sess, loopOf, entry, registry, acc, phase, ending>>,
           sock' \subseteq sock, accSock' \subseteq accSock, scanner' \subseteq scanner,
           timer' \in {"off", "armed"}, running' \in BOOLEAN, work' \in BOOLEAN,
           stopper' \in Loops \cup Threads \cup {None}
    PROVE  ShapeInv' /\ PlaceInv' /\ KindInv'
<1>1. ShapeInv'
  BY DEF ReachInv, ShapeInv
<1>2. Held' = Held
  BY DEF Held, Reserved
<1>3. PlaceInv'
  BY <1>2 DEF ReachInv, PlaceInv
<1>4. KindInv'
  BY DEF ReachInv, KindInv
<1> QED
  BY <1>1, <1>3, <1>4

\* Closures that close or tell.
LEMMA ReachNotice ==
    ASSUME IInv, ReachInv, RunInv, NEW l \in Loops,
           CloseAcceptorTask(l) \/ CloseAllTask(l) \/ NotifyCloseTask(l) \/ NotifyDrainTask(l)
    PROVE  ReachInv'
<1> USE DEF config, acceptVars, stopVars, sessVars
<1> DEFINE h == Head(tasks[l])
<1>1. tasks[l] # <<>> /\ tasks' = Rest(l)
  BY DEF CloseAcceptorTask, CloseAllTask, NotifyCloseTask, NotifyDrainTask, Task
<1>2. \A k \in Loops : \A t \in Queued(tasks[k]) : t \in Queued(tasks'[k]) \/ (k = l /\ t = h)
  BY <1>1, TakenTasks DEF IInv, ServerInv
<1>3. h \in Queued(tasks[l])
  <2>1. tasks[l] \in Seq(TaskSet)
    BY DEF IInv, ServerInv, TaskInv
  <2> QED
    BY <1>1, <2>1, TailElems
<1> HIDE DEF h
<1>4. /\ UNCHANGED <<tls, scan, refused, sess, loopOf, entry, registry, acc, phase, ending, running, work,
                     stopper, stage>>
      /\ sock' \subseteq sock /\ accSock' \subseteq accSock /\ scanner' \subseteq scanner /\ told \subseteq told'
      /\ timer' \in {timer, "off"} /\ timer' \in {"off", "armed"}
  BY DEF CloseAcceptorTask, CloseAllTask, NotifyCloseTask, NotifyDrainTask, ReachInv, ShapeInv
<1>5. ShapeInv' /\ PlaceInv' /\ KindInv'
  BY <1>4, ReachFrame DEF ReachInv, ShapeInv
<1>6. /\ PlaceInv /\ CloseInv /\ ScanInv /\ AskInv /\ KindInv /\ StageInv
      /\ scanner \subseteq Loops
  BY DEF ReachInv, ShapeInv
<1>7. CASE CloseAcceptorTask(l)
  <2>1. h.op = "closeAcceptor" /\ UNCHANGED <<sock, told, scanner, missed, timer>>
    BY <1>7 DEF CloseAcceptorTask, Task, h
  <2>2. CloseInv' /\ ScanInv' /\ AskInv'
    BY <1>2, <1>4, <1>6, <2>1, ReachKept
  <2>3. StageInv'
    BY <1>4, <1>6, <2>1 DEF StageInv
  <2> QED
    BY <1>5, <2>2, <2>3 DEF ReachInv
<1>8. CASE CloseAllTask(l)
  <2>1. h.op = "closeAll" /\ told' = told
    BY <1>8 DEF CloseAllTask, Task, h
  <2>2. Keeps("notifyClose") /\ Keeps("notifyDrain")
    BY <1>2, <2>1 DEF Keeps
  <2>3. CloseInv'
    BY <1>4, <1>6, <2>2, CloseKept
  <2>4. AskInv'
    BY <1>4, <1>6, <2>1, <2>2, AskKept
  <2>5. StageInv'
    <3>1. ~running
      BY <1>3, <2>1 DEF RunInv
    <3> QED
      BY <1>4, <3>1 DEF StageInv
  <2>6. ScanInv'
    <3> SUFFICES ASSUME scan, ~tls PROVE ScanInv'
      BY <1>4 DEF ScanInv
    <3>1. /\ sock' = sock \ (entry \cap On(l)) /\ scanner' = scanner \ {l}
          /\ missed' = missed \cup {c \in On(l) : sess[c] = "upgrading"}
      BY <1>8 DEF CloseAllTask
    <3>2. \A c \in Conns : c \in sock' \ missed' /\ sess'[c] \in Live =>
              /\ loopOf'[c] \in scanner'
              /\ sess'[c] # "upgrading" => c \in entry'
      BY <1>4, <1>6, <3>1 DEF ScanInv, On
    <3>3. ASSUME stage' = "done", NEW k \in scanner' PROVE \E t \in Queued(tasks'[k]) : t.op = "closeAll"
      <4>1. k \in scanner /\ k # l /\ k \in Loops /\ stage = "done"
        BY <1>4, <1>6, <3>1, <3>3
      <4>2. PICK t \in Queued(tasks[k]) : t.op = "closeAll"
        BY <1>6, <4>1 DEF ScanInv
      <4> QED
        BY <1>2, <4>1, <4>2
    <3> QED
      BY <3>2, <3>3 DEF ScanInv
  <2> QED
    BY <1>5, <2>3, <2>4, <2>5, <2>6 DEF ReachInv
<1>9. CASE NotifyCloseTask(l)
  <2>1. /\ h.op = "notifyClose" /\ UNCHANGED <<told, scanner, missed, timer>>
        /\ sock' = sock \ (h.conns \cap registry)
    BY <1>9 DEF NotifyCloseTask, Task, h
  <2>2. Keeps("closeAll") /\ Keeps("notifyDrain")
    BY <1>2, <2>1 DEF Keeps
  <2>3. ScanInv'
    BY <1>4, <1>6, <2>1, <2>2, ScanKept
  <2>4. AskInv'
    BY <1>4, <1>6, <2>1, <2>2, AskKept
  <2>5. StageInv'
    BY <1>4, <1>6, <2>1 DEF StageInv
  <2>6. CloseInv'
    <3> SUFFICES ASSUME tls, stage \in {"post", "done"}, NEW c \in Conns, c \in sock', sess[c] \in Live
                 PROVE  \E t \in Queued(tasks'[loopOf[c]]) : t.op = "notifyClose" /\ c \in t.conns
      BY <1>4 DEF CloseInv
    <3>1. c \in sock /\ c \in registry /\ loopOf[c] \in Loops
      BY <1>4, <1>6 DEF KindInv, PlaceInv, Live
    <3>2. PICK t \in Queued(tasks[loopOf[c]]) : t.op = "notifyClose" /\ c \in t.conns
      BY <1>6, <3>1 DEF CloseInv
    <3>3. t # h
      BY <2>1, <3>1, <3>2
    <3> QED
      BY <1>2, <3>1, <3>2, <3>3
  <2> QED
    BY <1>5, <2>3, <2>4, <2>5, <2>6 DEF ReachInv
<1>10. CASE NotifyDrainTask(l)
  <2>1. /\ h.op = "notifyDrain" /\ UNCHANGED <<sock, scanner, missed, timer>>
        /\ told' = told \cup (h.conns \cap registry)
    BY <1>10 DEF NotifyDrainTask, Task, h
  <2>2. Keeps("closeAll") /\ Keeps("notifyClose")
    BY <1>2, <2>1 DEF Keeps
  <2>3. ScanInv'
    BY <1>4, <1>6, <2>1, <2>2, ScanKept
  <2>4. CloseInv'
    BY <1>4, <1>6, <2>1, <2>2, CloseKept
  <2>5. StageInv'
    BY <1>4, <1>6, <2>1 DEF StageInv
  <2>6. AskInv'
    <3> SUFFICES ASSUME tls, timer = "armed", NEW c \in Conns, sess[c] = "open", c \notin told'
                 PROVE  \E t \in Queued(tasks'[loopOf[c]]) : t.op = "notifyDrain" /\ c \in t.conns
      BY <1>4, <2>1 DEF AskInv
    <3>1. c \notin told /\ c \in registry /\ loopOf[c] \in Loops
      BY <1>6, <2>1 DEF KindInv, PlaceInv, Live
    <3>2. PICK t \in Queued(tasks[loopOf[c]]) : t.op = "notifyDrain" /\ c \in t.conns
      BY <1>6, <3>1 DEF AskInv
    <3>3. t # h
      BY <2>1, <3>1, <3>2
    <3> QED
      BY <1>2, <3>1, <3>2, <3>3
  <2> QED
    BY <1>5, <2>3, <2>4, <2>5, <2>6 DEF ReachInv
<1> QED
  BY <1>7, <1>8, <1>9, <1>10

\* What a snapshot of the registry asks of loop k.
LEMMA NoticesHold ==
    ASSUME NEW op \in {"notifyClose", "notifyDrain"}, NEW p, NEW k \in Loops
    PROVE  /\ \A t \in Queued(Notices(op, p)[k]) : t.op = op
           /\ \A c \in registry \cap On(k) : k # p =>
                 \E t \in Queued(Notices(op, p)[k]) : t.op = op /\ c \in t.conns
<1> DEFINE r == [op |-> op, conns |-> registry \cap On(k)]
<1>1. r.op = op /\ r.conns = registry \cap On(k)
  OBVIOUS
<1>2. Queued(<<r>>) = {r}
  BY OneTask
<1>3. Notices(op, p)[k] = IF k = p \/ registry \cap On(k) = {} THEN <<>> ELSE <<r>>
  BY DEF Notices
<1>4. Queued(<<>>) = {}
  BY SMTT(60) DEF Queued
<1> HIDE DEF r
<1> QED
  BY <1>1, <1>2, <1>3, <1>4

\* The snapshot of stop() has everyone that serves over TLS.
LEMMA ReachSnapshot ==
    ASSUME IInv, ReachInv, RunInv, Snapshot
    PROVE  ReachInv' /\ RunInv'
<1> USE DEF acceptVars
<1> DEFINE n == Notices("notifyClose", stopper)
<1>1. /\ UNCHANGED <<tls, scan, refused, sess, loopOf, entry, registry, acc, accSock, phase, ending,
                     running, work, stopper, scanner, missed, timer, told>>
      /\ stage = "snapshot" /\ stage' = "post" /\ sock' = sock \ (registry \cap On(stopper))
  BY DEF Snapshot, config
<1>2. tasks' = [l \in Loops |-> tasks[l] \o n[l]]
  BY DEF Snapshot
<1>3. n \in [Loops -> Seq(TaskSet)] /\ tasks \in [Loops -> Seq(TaskSet)]
  BY SMTT(60), NoticeTypes DEF TaskSet, IInv, ServerInv, TaskInv
<1>4. /\ \A k \in Loops : \A t \in Queued(n[k]) : t.op = "notifyClose"
      /\ \A k \in Loops : \A c \in registry \cap On(k) : k # stopper =>
            \E t \in Queued(n[k]) : t.op = "notifyClose" /\ c \in t.conns
  BY NoticesHold
<1> HIDE DEF n
<1>5. \A k \in Loops : Queued(tasks'[k]) = Queued(tasks[k]) \cup Queued(n[k])
  BY <1>2, <1>3, PostedTasks
<1>6. /\ PlaceInv /\ CloseInv /\ ScanInv /\ AskInv /\ KindInv /\ StageInv /\ ShapeInv
      /\ scanner \subseteq Loops
  BY DEF ReachInv, ShapeInv
<1>7. ShapeInv' /\ PlaceInv' /\ KindInv'
  BY <1>1, <1>6, ReachFrame DEF ShapeInv
<1>8. Keeps("closeAll") /\ Keeps("notifyDrain")
  BY <1>5 DEF Keeps
<1>9. ScanInv'
  BY <1>1, <1>6, <1>8, ScanKept
<1>10. AskInv'
  BY <1>1, <1>6, <1>8, AskKept
<1>11. ~running
  BY <1>1, <1>6 DEF StageInv
<1>12. StageInv' /\ RunInv'
  BY <1>1, <1>11 DEF StageInv, RunInv
<1>13. CloseInv'
  <2> SUFFICES ASSUME tls, NEW c \in Conns, c \in sock', sess[c] \in Live
               PROVE  \E t \in Queued(tasks'[loopOf[c]]) : t.op = "notifyClose" /\ c \in t.conns
    BY <1>1 DEF CloseInv
  <2>1. c \in registry /\ loopOf[c] \in Loops
    BY <1>6 DEF KindInv, PlaceInv, Live
  <2>2. c \in On(loopOf[c]) /\ loopOf[c] # stopper
    BY <1>1, <2>1 DEF On
  <2> QED
    BY <1>4, <1>5, <2>1, <2>2
<1> QED
  BY <1>7, <1>9, <1>10, <1>12, <1>13 DEF ReachInv

\* stop() posts to every loop that has a scanner.
LEMMA ReachStopPost ==
    ASSUME IInv, ReachInv, RunInv, StopPost
    PROVE  ReachInv' /\ RunInv'
<1> USE DEF acceptVars, sessVars
<1>1. /\ UNCHANGED <<tls, scan, refused, sess, loopOf, entry, registry, acc, accSock, phase, ending,
                     running, scanner, missed, timer, told, sock>>
      /\ stage = "post" /\ stage' = "done" /\ stopper' = None /\ work' = FALSE
  BY DEF StopPost, config
<1> DEFINE a == <<[op |-> "closeAcceptor"]>>
           b(l) == IF l = Base \/ scan THEN <<[op |-> "closeAll"]>> ELSE <<>>
<1>2. tasks' = [l \in Loops |-> (tasks[l] \o a) \o b(l)]
  BY DEF StopPost
<1>3. /\ a \in Seq(TaskSet) /\ \A l \in Loops : b(l) \in Seq(TaskSet)
      /\ tasks \in [Loops -> Seq(TaskSet)]
  <2>1. [op |-> "closeAcceptor"] \in TaskSet /\ [op |-> "closeAll"] \in TaskSet
    BY NoticeTypes
  <2>2. <<>> \in Seq(TaskSet) /\ \A r \in TaskSet : <<r>> \in Seq(TaskSet)
    BY SMTT(60)
  <2> QED
    BY <2>1, <2>2 DEF IInv, ServerInv, TaskInv
<1>4. scan => \A l \in Loops : \E t \in Queued(b(l)) : t.op = "closeAll"
  BY SMTT(60), OneTask
<1> HIDE DEF a, b
<1>5. \A k \in Loops : Queued(tasks[k]) \subseteq Queued(tasks'[k]) /\ Queued(b(k)) \subseteq Queued(tasks'[k])
  <2> TAKE k \in Loops
  <2>1. tasks[k] \in Seq(TaskSet) /\ b(k) \in Seq(TaskSet) /\ tasks'[k] = (tasks[k] \o a) \o b(k)
    BY <1>2, <1>3
  <2>2. tasks[k] \o a \in Seq(TaskSet) /\ Queued(tasks[k] \o a) = Queued(tasks[k]) \cup Queued(a)
    BY <1>3, <2>1, ConcatElems
  <2>3. Queued((tasks[k] \o a) \o b(k)) = Queued(tasks[k] \o a) \cup Queued(b(k))
    BY <2>1, <2>2, ConcatElems
  <2> QED
    BY <2>1, <2>2, <2>3
<1>6. /\ PlaceInv /\ CloseInv /\ ScanInv /\ AskInv /\ KindInv /\ StageInv /\ ShapeInv
      /\ scanner \subseteq Loops
  BY DEF ReachInv, ShapeInv
<1>7. ShapeInv' /\ PlaceInv' /\ KindInv'
  BY <1>1, <1>6, ReachFrame DEF ShapeInv
<1>8. Keeps("notifyClose") /\ Keeps("notifyDrain")
  BY <1>5 DEF Keeps
<1>9. CloseInv'
  BY <1>1, <1>6, <1>8, CloseKept
<1>10. AskInv'
  BY <1>1, <1>6, <1>8, AskKept
<1>11. ~running
  BY <1>1, <1>6 DEF StageInv
<1>12. StageInv' /\ RunInv'
  BY <1>1, <1>11 DEF StageInv, RunInv
<1>13. ScanInv'
  <2>1. scan => \A l \in Loops : \E t \in Queued(tasks'[l]) : t.op = "closeAll"
    BY <1>4, <1>5
  <2> QED
    BY <1>1, <1>6, <2>1 DEF ScanInv
<1> QED
  BY <1>7, <1>9, <1>10, <1>12, <1>13 DEF ReachInv

\* The first graceful stop posts to the base loop.
LEMMA ReachGraceful ==
    ASSUME IInv, ReachInv, RunInv, NEW t \in Threads, Graceful(t)
    PROVE  ReachInv' /\ RunInv'
<1> USE DEF config, acceptVars, sessVars, stopVars
<1>1. UNCHANGED <<tls, scan, refused, sess, loopOf, sock, entry, registry, told, acc, accSock, phase,
                  ending, running, work, stopper, stage, scanner, missed, timer>>
  BY DEF Graceful
<1> DEFINE b == [op |-> "begin"]
<1>2. b \in TaskSet /\ b.op = "begin" /\ Base \in Loops
  BY NoticeTypes DEF Loops
<1>3. tasks' = tasks \/ tasks' = Posted(Base, <<b>>)
  BY DEF Graceful
<1> HIDE DEF b
<1>4. \A k \in Loops : /\ Queued(tasks[k]) \subseteq Queued(tasks'[k])
                       /\ \A x \in Queued(tasks'[k]) : x \in Queued(tasks[k]) \/ x.op # "closeAll"
  <2>1. CASE tasks' = tasks
    BY <2>1
  <2>2. CASE tasks' = Posted(Base, <<b>>)
    <3>1. \A k \in Loops : Queued(tasks'[k]) = Queued(tasks[k]) \cup (IF k = Base THEN {b} ELSE {})
      BY <1>2, <2>2, PostedOne DEF IInv, ServerInv
    <3> QED
      BY <1>2, <3>1
  <2> QED
    BY <1>3, <2>1, <2>2
<1>5. /\ PlaceInv /\ CloseInv /\ ScanInv /\ AskInv /\ KindInv /\ StageInv /\ ShapeInv
      /\ scanner \subseteq Loops
  BY DEF ReachInv, ShapeInv
<1>6. ShapeInv' /\ PlaceInv' /\ KindInv'
  BY <1>1, <1>5, ReachFrame DEF ShapeInv
<1>7. CloseInv' /\ ScanInv' /\ AskInv'
  BY <1>1, <1>4, <1>5, ReachKept
<1>8. StageInv' /\ RunInv'
  BY <1>1, <1>4, <1>5 DEF StageInv, RunInv
<1> QED
  BY <1>6, <1>7, <1>8 DEF ReachInv

\* The drain begins: who is in the registry is told, or has a closure on its loop.
LEMMA ReachBegin ==
    ASSUME IInv, ReachInv, RunInv, BeginTask
    PROVE  ReachInv' /\ RunInv'
<1> USE DEF config, acceptVars
<1>1. /\ UNCHANGED <<tls, scan, refused, sess, loopOf, sock, entry, registry, acc, accSock, phase,
                     ending, work, scanner, missed>>
      /\ Base \in Loops /\ tasks[Base] # <<>> /\ Head(tasks[Base]).op = "begin"
  BY DEF BeginTask, Task, Loops
<1>2. /\ \A k \in Loops : \A t \in Queued(tasks[k]) : t \in Queued(Rest(Base)[k]) \/ t.op = "begin"
      /\ Rest(Base) \in [Loops -> Seq(TaskSet)]
      /\ \A k \in Loops : Queued(Rest(Base)[k]) \subseteq Queued(tasks[k])
  BY <1>1, TakenTasks, RestTasks DEF IInv, ServerInv
<1>3. /\ PlaceInv /\ CloseInv /\ ScanInv /\ AskInv /\ KindInv /\ StageInv /\ ShapeInv
      /\ scanner \subseteq Loops
  BY DEF ReachInv, ShapeInv
<1>4. CASE ~running
  <2>1. tasks' = Rest(Base) /\ UNCHANGED <<running, stopper, stage, timer, told>>
    BY <1>4 DEF BeginTask
  <2>2. ShapeInv' /\ PlaceInv' /\ KindInv'
    BY <1>1, <1>3, <2>1, ReachFrame DEF ShapeInv
  <2>3. CloseInv' /\ ScanInv' /\ AskInv'
    BY <1>1, <1>2, <1>3, <2>1, ReachKept
  <2>4. StageInv' /\ RunInv'
    BY <1>4, <2>1 DEF StageInv, RunInv
  <2> QED
    BY <2>2, <2>3, <2>4 DEF ReachInv
<1>5. CASE running
  <2> DEFINE n == Notices("notifyDrain", Base)
             a == <<[op |-> "closeAcceptor"]>>
  <2>1. /\ tasks' = [l \in Loops |-> (Rest(Base)[l] \o n[l]) \o a]
        /\ told' = told \cup (registry \cap On(Base))
        /\ \/ UNCHANGED <<running, stopper, stage>> /\ timer' = "armed"
           \/ running' = FALSE /\ stopper' = Base /\ stage' = "announce" /\ timer' = timer
    BY <1>5 DEF BeginTask, Exchange
  <2>2. /\ \A k \in Loops : \A t \in Queued(n[k]) : t.op = "notifyDrain"
        /\ \A k \in Loops : \A c \in registry \cap On(k) : k # Base =>
              \E t \in Queued(n[k]) : t.op = "notifyDrain" /\ c \in t.conns
    BY NoticesHold
  <2>3. a \in Seq(TaskSet) /\ n \in [Loops -> Seq(TaskSet)] /\ \A t \in Queued(a) : t.op = "closeAcceptor"
    <3>1. [op |-> "closeAcceptor"] \in TaskSet
      BY NoticeTypes
    <3>2. a \in Seq(TaskSet)
      BY SMTT(60), <3>1
    <3>3. n \in [Loops -> Seq(TaskSet)]
      BY SMTT(60), NoticeTypes DEF TaskSet
    <3>4. Queued(a) = {[op |-> "closeAcceptor"]} /\ [op |-> "closeAcceptor"].op = "closeAcceptor"
      BY OneTask
    <3> QED
      BY <3>2, <3>3, <3>4
  <2> HIDE DEF n, a
  <2>4. \A k \in Loops : Queued(tasks'[k]) = Queued(Rest(Base)[k]) \cup Queued(n[k]) \cup Queued(a)
    <3> TAKE k \in Loops
    <3>1. tasks'[k] = (Rest(Base)[k] \o n[k]) \o a /\ Rest(Base)[k] \in Seq(TaskSet) /\ n[k] \in Seq(TaskSet)
      BY <1>2, <2>1, <2>3
    <3>2. /\ Rest(Base)[k] \o n[k] \in Seq(TaskSet)
          /\ Queued(Rest(Base)[k] \o n[k]) = Queued(Rest(Base)[k]) \cup Queued(n[k])
      BY <3>1, ConcatElems
    <3> QED
      BY <2>3, <3>1, <3>2, ConcatElems
  <2>5. stage = "idle" /\ stage' \in {"idle", "announce"} /\ (running' => stage' = "idle")
    BY <1>3, <1>5, <2>1 DEF StageInv
  <2>6. ShapeInv' /\ PlaceInv' /\ KindInv'
    <3>1. timer' \in {"off", "armed"} /\ running' \in BOOLEAN /\ stopper' \in Loops \cup Threads \cup {None}
      BY <1>1, <1>3, <1>5, <2>1 DEF ShapeInv
    <3> QED
      BY <1>1, <1>3, <3>1, ReachFrame DEF ShapeInv
  <2>7. StageInv' /\ CloseInv'
    BY <1>1, <1>3, <1>5, <2>5 DEF StageInv, CloseInv
  <2>8. ScanInv'
    <3>1. Keeps("closeAll")
      BY <1>2, <2>4 DEF Keeps
    <3> QED
      BY <1>1, <1>3, <2>5, <3>1, ScanKept
  <2>9. AskInv'
    <3> SUFFICES ASSUME tls, NEW c \in Conns, sess[c] = "open", c \notin told'
                 PROVE  \E t \in Queued(tasks'[loopOf[c]]) : t.op = "notifyDrain" /\ c \in t.conns
      BY <1>1 DEF AskInv
    <3>1. c \in registry /\ loopOf[c] \in Loops /\ c \in On(loopOf[c])
      BY <1>3 DEF KindInv, PlaceInv, Live, On
    <3>2. loopOf[c] # Base
      BY <2>1, <3>1
    <3> QED
      BY <2>2, <2>4, <3>1, <3>2
  <2>10. RunInv'
    <3> SUFFICES ASSUME NEW k \in Loops, NEW t \in Queued(tasks'[k]) PROVE t.op # "closeAll"
      BY DEF RunInv
    <3>1. t \in Queued(tasks[k]) \/ t \in Queued(n[k]) \/ t \in Queued(a)
      BY <1>2, <2>4
    <3> QED
      BY <1>5, <2>2, <2>3, <3>1 DEF RunInv
  <2> QED
    BY <2>6, <2>7, <2>8, <2>9, <2>10 DEF ReachInv
<1> QED
  BY <1>4, <1>5

LEMMA RunInit == Init => RunInv
<1>1. Queued(<<>>) = {}
  BY NothingQueued
<1> QED
  BY <1>1 DEF Init, RunInv

\* No other step posts a closure for the scanners.
LEMMA RunKept ==
    ASSUME RunInv, running' => running,
           \A k \in Loops : \A t \in Queued(tasks'[k]) : t \in Queued(tasks[k]) \/ t.op # "closeAll"
    PROVE  RunInv'
  BY DEF RunInv

LEMMA RunAccept ==
    ASSUME IInv, RunInv, NEW l \in Loops, NEW c \in Conns,
           AcceptCheck(l, c) \/ Reserve(l, c) \/ TurnAway(l, c)
    PROVE  RunInv'
<1>1. running' = running
  BY DEF AcceptCheck, Reserve, TurnAway
<1>2. CASE tasks' = tasks
  BY <1>1, <1>2, RunKept
<1>3. CASE tasks' # tasks
  <2> DEFINE t == [op |-> "session", conn |-> c]
  <2>1. tasks' = Posted(l, <<t>>) /\ t \in TaskSet /\ t.op = "session"
    BY <1>3 DEF AcceptCheck, Reserve, TurnAway, TaskSet
  <2> HIDE DEF t
  <2>2. \A k \in Loops : Queued(tasks'[k]) = Queued(tasks[k]) \cup (IF k = l THEN {t} ELSE {})
    BY <2>1, PostedOne DEF IInv, ServerInv
  <2> QED
    BY <1>1, <2>1, <2>2, RunKept
<1> QED
  BY <1>2, <1>3

LEMMA RunTask ==
    ASSUME IInv, RunInv, NEW l \in Loops,
           \/ SessionTask(l) \/ CloseAcceptorTask(l) \/ CloseAllTask(l)
           \/ NotifyCloseTask(l) \/ NotifyDrainTask(l)
    PROVE  RunInv'
<1>1. running' = running /\ tasks[l] # <<>> /\ tasks' = Rest(l)
  BY DEF SessionTask, CloseAcceptorTask, CloseAllTask, NotifyCloseTask, NotifyDrainTask, Task
<1>2. \A k \in Loops : Queued(tasks'[k]) \subseteq Queued(tasks[k])
  BY <1>1, RestTasks DEF IInv, ServerInv
<1> QED
  BY <1>1, <1>2, RunKept

LEMMA RunSession ==
    ASSUME RunInv, NEW l \in Loops, NEW c \in Conns,
           \/ Register(l, c) \/ Recheck(l, c) \/ Handshaken(l, c) \/ PeerEnds(l, c) \/ Broken(l, c)
           \/ UpgradeBegin(l, c) \/ UpgradeEnd(l, c)
    PROVE  RunInv'
<1>1. UNCHANGED <<running, tasks>>
  BY DEF Register, Recheck, Handshaken, PeerEnds, Broken, SessionEnds, UpgradeBegin, UpgradeEnd
<1> QED
  BY <1>1, RunKept

LEMMA RunQuiet ==
    ASSUME RunInv,
           \/ \E l \in Loops : \/ LastOut(l) \/ AcceptFails(l) \/ AcceptResumes(l) \/ AcceptAborted(l)
                               \/ \E c \in Conns : IdleClose(l, c)
           \/ Announce \/ Deadline \/ BaseReturns \/ Joined
           \/ \E t \in Threads : CallStop(t) \/ CallGraceful(t)
           \/ UNCHANGED vars
    PROVE  RunInv'
<1>1. tasks' = tasks
  BY DEF LastOut, AcceptFails, AcceptResumes, AcceptAborted, IdleClose, Announce, Deadline, BaseReturns,
         Joined, CallStop, CallGraceful, vars
<1>2. running' = running \/ running' = FALSE
  BY DEF LastOut, AcceptFails, AcceptResumes, AcceptAborted, IdleClose, Announce, Deadline, BaseReturns,
         Joined, CallStop, CallGraceful, Exchange, stopVars, vars
<1>3. running' => running
  BY <1>2
<1>4. \A k \in Loops : \A t \in Queued(tasks'[k]) : t \in Queued(tasks[k])
  BY <1>1
<1> QED
  BY <1>3, <1>4, RunKept

LEMMA ReachNext == IInv /\ ReachInv /\ RunInv /\ [Next]_vars => ReachInv' /\ RunInv'
<1> SUFFICES ASSUME IInv, ReachInv, RunInv, [Next]_vars PROVE ReachInv' /\ RunInv'
  OBVIOUS
<1>1. ASSUME NEW l \in Loops, Internal(l) \/ AcceptResumes(l) PROVE ReachInv' /\ RunInv'
  <2>1. CASE AcceptAborted(l) \/ LastOut(l) \/ AcceptResumes(l)
    BY <2>1, ReachQuiet, RunQuiet
  <2>2. CASE CloseAcceptorTask(l) \/ CloseAllTask(l) \/ NotifyCloseTask(l) \/ NotifyDrainTask(l)
    BY <2>2, ReachNotice, RunTask
  <2>3. CASE SessionTask(l)
    BY <2>3, ReachStart, RunTask
  <2>4. ASSUME NEW c \in Conns, Reserve(l, c) \/ TurnAway(l, c) PROVE ReachInv' /\ RunInv'
    BY <2>4, ReachAccept, RunAccept
  <2>5. ASSUME NEW c \in Conns, Register(l, c) \/ Recheck(l, c) \/ Broken(l, c) PROVE ReachInv' /\ RunInv'
    BY <2>5, ReachSession, RunSession
  <2> QED
    BY <1>1, <2>1, <2>2, <2>3, <2>4, <2>5 DEF Internal
<1>2. CASE (\E t \in Threads : Graceful(t)) \/ Stopping
  BY <1>2, ReachGraceful, ReachQuiet, RunQuiet, ReachSnapshot, ReachStopPost DEF Stopping
<1>3. CASE Main
  BY <1>3, ReachBegin, ReachQuiet, RunQuiet DEF Main
<1>4. CASE Outside
  <2>1. ASSUME NEW l \in Loops, NEW c \in Conns, AcceptCheck(l, c) PROVE ReachInv' /\ RunInv'
    BY <2>1, ReachAccept, RunAccept
  <2>2. ASSUME NEW l \in Loops, NEW c \in Conns,
               Handshaken(l, c) \/ PeerEnds(l, c) \/ UpgradeBegin(l, c) \/ UpgradeEnd(l, c)
        PROVE  ReachInv' /\ RunInv'
    BY <2>2, ReachSession, RunSession
  <2>3. CASE \/ \E l \in Loops : AcceptFails(l) \/ \E c \in Conns : IdleClose(l, c)
             \/ \E t \in Threads : CallStop(t) \/ CallGraceful(t)
    BY <2>3, ReachQuiet, RunQuiet
  <2> QED
    BY <1>4, <2>1, <2>2, <2>3 DEF Outside
<1>5. CASE UNCHANGED vars
  BY <1>5, ReachQuiet, RunQuiet
<1> QED
  BY <1>1, <1>2, <1>3, <1>4, <1>5 DEF Next

-----------------------------------------------------------------------------
(* The theorem                                                               *)

\* A loop that turns a client away has that client, which holds no reservation.
LEMMA ActiveBounded == ASSUME IInv, ReachInv PROVE active \in 0..Cardinality(Conns)
<1> DEFINE A == {c \in Conns : sess[c] = "accepted" /\ loopOf[c] \in Over}
           f == [c \in A |-> loopOf[c]]
<1>1. IsFiniteSet(A) /\ IsFiniteSet(Held) /\ Cardinality(A) \in Nat
  BY FiniteAssumption, FS_Subset, FS_CardinalityType, FiniteCounts
<1>2. f \in Surjection(A, Over)
  <2>1. \A l \in Over : \E c \in A : f[c] = l
    BY DEF Over, ReachInv, PlaceInv
  <2>2. f \in [A -> Over]
    OBVIOUS
  <2> QED
    BY <2>1, <2>2 DEF Surjection
<1>3. Cardinality(Over) <= Cardinality(A)
  BY <1>1, <1>2, FS_Surjection
<1>4. Cardinality(Held \cup A) <= Cardinality(Conns) /\ Cardinality(Conns) \in Nat
  <2>1. Held \cup A \subseteq Conns
    BY DEF Held, Reserved
  <2> QED
    BY <2>1, FiniteAssumption, FS_Subset, FS_CardinalityType
<1>5. Cardinality(Held \cup A) = Cardinality(Held) + Cardinality(A)
  <2>1. Held \cap A = {}
    BY DEF Held
  <2>2. Cardinality(Held \cup A) = Cardinality(Held) + Cardinality(A) - Cardinality(Held \cap A)
    BY <1>1, FS_Union
  <2>3. Cardinality(Held \cap A) = 0
    BY <2>1, FS_EmptySet
  <2> QED
    BY SMTT(60), <1>1, <2>2, <2>3, FiniteCounts
<1>6. active = Cardinality(Held) + Cardinality(Over)
  BY DEF IInv, ServerInv, CountInv, CountExact, Held, Over
<1> HIDE DEF A
<1> QED
  BY SMTT(60), <1>1, <1>3, <1>4, <1>5, <1>6, FiniteCounts

LEMMA ReachImplies == IInv /\ ReachInv => StopsSound
<1> SUFFICES ASSUME IInv, ReachInv PROVE StopsSound
  OBVIOUS
<1>1. TypeOK
  <2>1. active \in 0..Cardinality(Conns)
    BY ActiveBounded
  <2>2. {tls, scan, running, draining, work, refused} \subseteq BOOLEAN
    BY DEF ReachInv, ShapeInv, IInv, DrainInv
  <2>3. sock \subseteq Reserved /\ entry \cup registry \subseteq Reserved
    BY DEF ReachInv, PlaceInv, Held
  <2> QED
    BY <2>1, <2>2, <2>3 DEF TypeOK, ReachInv, ShapeInv, IInv, ServerInv, CountInv
<1>2. StopReaches
  <2> SUFFICES ASSUME stage = "done", scan \/ tls, NEW l \in Loops, tasks[l] = <<>>,
                      NEW c \in On(l), sess[c] \in Live, c \in sock \ missed
               PROVE  FALSE
    BY DEF StopReaches
  <2>1. c \in Conns /\ loopOf[c] = l /\ Queued(tasks[l]) = {}
    BY NothingQueued DEF On
  <2>2. CASE tls
    BY <2>1, <2>2 DEF ReachInv, CloseInv
  <2>3. CASE ~tls
    BY <2>1, <2>3 DEF ReachInv, ScanInv
  <2> QED
    BY <2>2, <2>3
<1>3. DrainReaches
  <2> SUFFICES ASSUME timer = "armed", tls, NEW l \in Loops, tasks[l] = <<>>,
                      NEW c \in On(l), sess[c] = "open"
               PROVE  c \in told
    BY DEF DrainReaches
  <2>1. c \in Conns /\ loopOf[c] = l /\ Queued(tasks[l]) = {}
    BY NothingQueued DEF On
  <2> QED
    BY <2>1 DEF ReachInv, AskInv
<1> QED
  BY <1>1, <1>2, <1>3 DEF StopsSound, IInv, DrainInv

\* stop() and gracefulStop() miss nobody, for any number of loops, clients and
\* callers: on a loop with nothing queued each session that still serves has lost
\* its socket after stop(), unless an upgrade took it off the scanner's list, and
\* was told to finish while a drain waits; and a drain that nobody holds up is
\* noticed (stop, beginGracefulStopOnLoop, registerTlsSession, ~ConnectionReservation).
THEOREM NobodyMissed == Spec => []StopsSound
<1>1. Init => ReachInv /\ RunInv
  BY ReachInit, RunInit
<1>2. Spec => [](ReachInv /\ RunInv)
  BY <1>1, Inductive, ReachNext, PTL DEF Spec
<1> QED
  BY <1>2, Inductive, ReachImplies, PTL
=============================================================================
