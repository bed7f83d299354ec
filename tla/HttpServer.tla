------------------------------- MODULE HttpServer -------------------------------
(* Accepting, draining and stopping an HTTP server (src/core/HttpServer.cpp,  *)
(* IdleScanner.cpp, HttpConnectionRegistry.cpp, and the start of              *)
(* handleSession in HttpSessionImpl.cpp).  Every loop has its own acceptor    *)
(* (SO_REUSEPORT) and runs one handler at a time; threads outside the loops   *)
(* call stop() and gracefulStop().  What a session serves is HttpSession's.   *)
EXTENDS Integers, Sequences, FiniteSets

CONSTANTS
    Conns,      \* clients that connect
    Base,       \* baseLoop_
    Workers,    \* the loops of ioPool_
    Threads,    \* threads that call gracefulStop() or stop()
    MaxConns    \* maxConnections_; 0 is no limit

Loops == {Base} \cup Workers
None == "nobody"

ASSUME NamesAssumption == None \notin Loops \cup Threads /\ Loops \cap Threads = {}
ASSUME LimitAssumption == MaxConns \in Nat
ASSUME FiniteAssumption == IsFiniteSet(Conns) /\ IsFiniteSet(Loops)

VARIABLES
    tls,        \* TLS with HTTP/2: sessions are in connectionRegistry_
    scan,       \* idleTimeout_ > 0: each loop has an IdleScanner
    running,    \* running_
    draining,   \* draining_
    active,     \* activeConnections_
    acc,        \* acceptLoop() of each loop
    accSock,    \* the acceptors that are open
    tasks,      \* closures posted to each loop
    sess,       \* the session of each connection
    loopOf,     \* its loop
    sock,       \* sessions whose socket is open
    entry,      \* sessions in their loop's scanner list
    registry,   \* sessions in connectionRegistry_
    told,       \* sessions asked to drain (Control::drainRequested)
    scanner,    \* loops whose scanner coroutine runs (tls_scanner is set)
    timer,      \* shutdownTimer_: "off" or "armed"
    ending,     \* loops inside ~ConnectionReservation, before it reads draining_
    stopper,    \* who is in stop() past its first test, or None
    stage,      \* how far it is
    tpc,        \* where each thread is
    work,       \* baseLoop_ still has its work guard
    phase,      \* start(): "run", "join" or "returned"
    missed,     \* sessions stop() did not reach when it closed their loop's
    refused     \* a client was refused at the limit while the server drained

config == <<tls, scan>>
acceptVars == <<acc, accSock>>
sessVars == <<sess, loopOf, sock, entry, registry, told>>
stopVars == <<stopper, stage, work>>
vars == <<config, running, draining, active, acceptVars, tasks, sessVars, scanner, timer,
          ending, stopVars, tpc, phase, missed, refused>>

\* start() has spawned the scanners and the accept loops.
Init ==
    /\ tls \in BOOLEAN /\ scan \in BOOLEAN
    /\ running = TRUE /\ draining = FALSE /\ active = 0
    /\ acc = [l \in Loops |-> "waiting"] /\ accSock = Loops
    /\ tasks = [l \in Loops |-> <<>>]
    /\ sess = [c \in Conns |-> "none"] /\ loopOf = [c \in Conns |-> None]
    /\ sock = {} /\ entry = {} /\ registry = {} /\ told = {}
    /\ scanner = IF scan THEN Loops ELSE {}
    /\ timer = "off" /\ ending = {}
    /\ stopper = None /\ stage = "idle" /\ work = TRUE
    /\ tpc = [t \in Threads |-> "idle"] /\ phase = "run"
    /\ missed = {} /\ refused = FALSE

\* Sessions that hold a ConnectionReservation.
Reserved == {c \in Conns : sess[c] \notin {"none", "gone"}}
On(l) == {c \in Conns : loopOf[c] = l}
Live == {"handshake", "open", "upgrading", "upgraded"}

\* run() of loop l has not returned.
Alive(l) == IF l = Base THEN phase = "run" ELSE phase # "returned"

\* Between two handlers.
Free(l) ==
    /\ Alive(l) /\ acc[l] \notin {"checked", "over"} /\ l \notin ending /\ stopper # l
    /\ \A c \in On(l) : sess[c] \notin {"starting", "registering"}

Posted(l, new) == [tasks EXCEPT ![l] = @ \o new]
Task(l, op) ==
    /\ Free(l) /\ tasks[l] # <<>> /\ Head(tasks[l]).op = op
Rest(l) == [tasks EXCEPT ![l] = Tail(@)]

-----------------------------------------------------------------------------
(* acceptLoop() and commitAcceptedSocket()                                   *)

\* Clients differ in nothing but their order.
NextClient == CHOOSE c \in Conns : sess[c] = "none"

\* A connection is accepted; the loop goes on unless the server stops.
AcceptCheck(l, c) ==
    /\ Free(l) /\ acc[l] = "waiting" /\ l \in accSock
    /\ sess[c] = "none" /\ c = NextClient
    /\ IF running /\ ~draining
       THEN /\ acc' = [acc EXCEPT ![l] = "checked"] /\ sess' = [sess EXCEPT ![c] = "accepted"]
            /\ loopOf' = [loopOf EXCEPT ![c] = l]
       ELSE /\ acc' = [acc EXCEPT ![l] = "ended"] /\ sess' = [sess EXCEPT ![c] = "gone"]
            /\ UNCHANGED loopOf
    /\ UNCHANGED <<config, running, draining, active, accSock, tasks, sock, entry, registry, told,
                   scanner, timer, ending, stopVars, tpc, phase, missed, refused>>

\* Back to the head of the loop.
AcceptAgain == IF running THEN "waiting" ELSE "ended"

\* Mutant of Reserve: one client too many.
ReserveOffByOne(l, c) ==
    /\ acc[l] = "checked" /\ loopOf[c] = l /\ sess[c] = "accepted"
    /\ active' = active + 1
    /\ IF MaxConns > 0 /\ active > MaxConns
       THEN /\ acc' = [acc EXCEPT ![l] = "over"] /\ refused' = (refused \/ draining)
            /\ UNCHANGED <<sess, sock, tasks>>
       ELSE /\ acc' = [acc EXCEPT ![l] = AcceptAgain] /\ sess' = [sess EXCEPT ![c] = "spawned"]
            /\ sock' = sock \cup {c}
            /\ tasks' = Posted(l, <<[op |-> "session", conn |-> c]>>)
            /\ UNCHANGED refused
    /\ UNCHANGED <<config, running, draining, accSock, loopOf, entry, registry, told, scanner, timer,
                   ending, stopVars, tpc, phase, missed>>

\* fetch_add() before the test against the limit.
Reserve(l, c) ==
    /\ acc[l] = "checked" /\ loopOf[c] = l /\ sess[c] = "accepted"
    /\ active' = active + 1
    /\ IF MaxConns > 0 /\ active >= MaxConns
       THEN /\ acc' = [acc EXCEPT ![l] = "over"] /\ refused' = (refused \/ draining)
            /\ UNCHANGED <<sess, sock, tasks>>
       ELSE /\ acc' = [acc EXCEPT ![l] = AcceptAgain] /\ sess' = [sess EXCEPT ![c] = "spawned"]
            /\ sock' = sock \cup {c}
            /\ tasks' = Posted(l, <<[op |-> "session", conn |-> c]>>)
            /\ UNCHANGED refused
    /\ UNCHANGED <<config, running, draining, accSock, loopOf, entry, registry, told, scanner, timer,
                   ending, stopVars, tpc, phase, missed>>

TurnAway(l, c) ==
    /\ acc[l] = "over" /\ loopOf[c] = l /\ sess[c] = "accepted"
    /\ active' = active - 1
    /\ refused' = (refused \/ draining)
    /\ acc' = [acc EXCEPT ![l] = AcceptAgain]
    /\ sess' = [sess EXCEPT ![c] = "gone"] /\ loopOf' = [loopOf EXCEPT ![c] = None]
    /\ UNCHANGED <<config, running, draining, accSock, tasks, sock, entry, registry, told,
                   scanner, timer, ending, stopVars, tpc, phase, missed>>

\* Out of descriptors: a client is shed and the loop sleeps.
AcceptFails(l) ==
    /\ Free(l) /\ acc[l] = "waiting" /\ l \in accSock
    /\ acc' = [acc EXCEPT ![l] = "sleeping"]
    /\ UNCHANGED <<config, running, draining, active, accSock, tasks, sessVars, scanner, timer,
                   ending, stopVars, tpc, phase, missed, refused>>

AcceptResumes(l) ==
    /\ Free(l) /\ acc[l] = "sleeping"
    /\ acc' = [acc EXCEPT ![l] = AcceptAgain]
    /\ UNCHANGED <<config, running, draining, active, accSock, tasks, sessVars, scanner, timer,
                   ending, stopVars, tpc, phase, missed, refused>>

\* The acceptor is closed: async_accept() fails and the loop ends.
AcceptAborted(l) ==
    /\ Free(l) /\ acc[l] = "waiting" /\ l \notin accSock
    /\ acc' = [acc EXCEPT ![l] = "ended"]
    /\ UNCHANGED <<config, running, draining, active, accSock, tasks, sessVars, scanner, timer,
                   ending, stopVars, tpc, phase, missed, refused>>

-----------------------------------------------------------------------------
(* Sessions                                                                  *)

\* stop() begins with running_.exchange(false): only one caller goes on.
Exchange(p) ==
    IF running
    THEN running' = FALSE /\ stopper' = p /\ stage' = "announce"
    ELSE UNCHANGED <<running, stopper, stage>>

\* Registration guards and the socket guard run, then ~ConnectionReservation.
\* The last session of a draining server stops it.
Leave(l, c) ==
    /\ sess' = [sess EXCEPT ![c] = "gone"]
    /\ sock' = sock \ {c} /\ entry' = entry \ {c} /\ registry' = registry \ {c}
    /\ active' = active - 1
    /\ ending' = IF active = 1 THEN ending \cup {l} ELSE ending
    /\ told' = told \ {c} /\ loopOf' = [loopOf EXCEPT ![c] = None]

LastOut(l) ==
    /\ l \in ending /\ ending' = ending \ {l}
    /\ IF draining THEN Exchange(l) ELSE UNCHANGED <<running, stopper, stage>>
    /\ UNCHANGED <<config, draining, active, acceptVars, tasks, sessVars, scanner, timer, work,
                   tpc, phase, missed, refused>>

\* Mutant of SessionTask: the early return keeps the reservation.
SessionTaskLeaks(l) ==
    /\ Task(l, "session") /\ tasks' = Rest(l)
    /\ LET c == Head(tasks[l]).conn IN
          IF ~running
          THEN /\ sess' = [sess EXCEPT ![c] = "gone"] /\ sock' = sock \ {c}
               /\ UNCHANGED <<registry, entry, loopOf, told, active, ending>>
          ELSE /\ sess' = [sess EXCEPT ![c] = IF tls THEN "starting" ELSE "open"]
               /\ entry' = IF ~tls /\ l \in scanner THEN entry \cup {c} ELSE entry
               /\ UNCHANGED <<sock, loopOf, registry, told, active, ending>>
    /\ UNCHANGED <<config, running, draining, acceptVars, scanner, timer, stopVars, tpc, phase,
                   missed, refused>>

\* handleSession() starts: nothing is begun on a stopped server.
SessionTask(l) ==
    /\ Task(l, "session") /\ tasks' = Rest(l)
    /\ LET c == Head(tasks[l]).conn IN
          IF ~running THEN Leave(l, c)
          ELSE /\ sess' = [sess EXCEPT ![c] = IF tls THEN "starting" ELSE "open"]
               /\ entry' = IF ~tls /\ l \in scanner THEN entry \cup {c} ELSE entry
               /\ UNCHANGED <<sock, loopOf, registry, told, active, ending>>
    /\ UNCHANGED <<config, running, draining, acceptVars, scanner, timer, stopVars, tpc, phase,
                   missed, refused>>

\* connectionRegistry_->add().
Register(l, c) ==
    /\ loopOf[c] = l /\ sess[c] = "starting"
    /\ sess' = [sess EXCEPT ![c] = "registering"] /\ registry' = registry \cup {c}
    /\ UNCHANGED <<config, running, draining, active, acceptVars, tasks, loopOf, sock, entry, told,
                   scanner, timer, ending, stopVars, tpc, phase, missed, refused>>

\* Mutant of Recheck: no second look after the registration.
RecheckBlind(l, c) ==
    /\ loopOf[c] = l /\ sess[c] = "registering"
    /\ sess' = [sess EXCEPT ![c] = "handshake"]
    /\ entry' = IF l \in scanner THEN entry \cup {c} ELSE entry
    /\ UNCHANGED <<sock, loopOf, registry, told, active, ending>>
    /\ UNCHANGED <<config, running, draining, acceptVars, tasks, scanner, timer, stopVars, tpc,
                   phase, missed, refused>>

\* After the registration: stop() or a drain may have taken its snapshot before.
Recheck(l, c) ==
    /\ loopOf[c] = l /\ sess[c] = "registering"
    /\ IF ~running \/ draining THEN Leave(l, c)
       ELSE /\ sess' = [sess EXCEPT ![c] = "handshake"]
            /\ entry' = IF l \in scanner THEN entry \cup {c} ELSE entry
            /\ UNCHANGED <<sock, loopOf, registry, told, active, ending>>
    /\ UNCHANGED <<config, running, draining, acceptVars, tasks, scanner, timer, stopVars, tpc,
                   phase, missed, refused>>

\* The TLS handshake is done; the session checks once more and serves.
Handshaken(l, c) ==
    /\ Free(l) /\ loopOf[c] = l /\ sess[c] = "handshake" /\ c \in sock
    /\ IF ~running \/ draining \/ c \in told THEN Leave(l, c)
       ELSE /\ sess' = [sess EXCEPT ![c] = "open"]
            /\ UNCHANGED <<sock, loopOf, entry, registry, told, active, ending>>
    /\ UNCHANGED <<config, running, draining, acceptVars, tasks, scanner, timer, stopVars, tpc,
                   phase, missed, refused>>

SessionEnds(l, c) ==
    /\ Free(l) /\ loopOf[c] = l /\ sess[c] \in Live
    /\ Leave(l, c)
    /\ UNCHANGED <<config, running, draining, acceptVars, tasks, scanner, timer, stopVars, tpc,
                   phase, missed, refused>>

\* The peer closes, or the session is done with it.
PeerEnds(l, c) == c \in sock /\ SessionEnds(l, c)

\* The socket was closed under the session: its pending operation fails.
Broken(l, c) == c \notin sock /\ SessionEnds(l, c)

\* A WebSocket upgrade takes the session off the list (idleGuard.release())
\* while the 101 response is written, then puts it back.
UpgradeBegin(l, c) ==
    /\ Free(l) /\ ~tls /\ loopOf[c] = l /\ sess[c] = "open" /\ c \in sock
    /\ sess' = [sess EXCEPT ![c] = "upgrading"] /\ entry' = entry \ {c}
    /\ UNCHANGED <<config, running, draining, active, acceptVars, tasks, loopOf, sock, registry, told,
                   scanner, timer, ending, stopVars, tpc, phase, missed, refused>>

UpgradeEnd(l, c) ==
    /\ Free(l) /\ loopOf[c] = l /\ sess[c] = "upgrading"
    /\ sess' = [sess EXCEPT ![c] = "upgraded"]
    /\ entry' = IF l \in scanner THEN entry \cup {c} ELSE entry
    /\ UNCHANGED <<config, running, draining, active, acceptVars, tasks, loopOf, sock, registry, told,
                   scanner, timer, ending, stopVars, tpc, phase, missed, refused>>

\* IdleScanner::run() closes a socket that has been idle too long.
IdleClose(l, c) ==
    /\ Free(l) /\ l \in scanner /\ c \in entry \cap sock /\ loopOf[c] = l
    /\ sock' = sock \ {c}
    /\ UNCHANGED <<config, running, draining, active, acceptVars, tasks, sess, loopOf, entry,
                   registry, told, scanner, timer, ending, stopVars, tpc, phase, missed, refused>>

-----------------------------------------------------------------------------
(* stop()                                                                    *)

Announce ==
    /\ stage = "announce" /\ stage' = IF tls THEN "snapshot" ELSE "post"
    /\ draining' = TRUE
    /\ UNCHANGED <<config, running, active, acceptVars, tasks, sessVars, scanner, timer, ending,
                   stopper, work, tpc, phase, missed, refused>>

\* requestClose() and requestDrain() take a snapshot and dispatch to the loop of
\* each session: at once on the caller's own loop p, as a task elsewhere.
Notices(op, p) == [l \in Loops |->
    IF l = p \/ registry \cap On(l) = {} THEN <<>>
    ELSE <<[op |-> op, conns |-> registry \cap On(l)]>>]

Snapshot ==
    /\ stage = "snapshot" /\ stage' = "post"
    /\ tasks' = [l \in Loops |-> tasks[l] \o Notices("notifyClose", stopper)[l]]
    /\ sock' = sock \ (registry \cap On(stopper))
    /\ UNCHANGED <<config, running, draining, active, acceptVars, sess, loopOf, entry, registry,
                   told, scanner, timer, ending, stopper, work, tpc, phase, missed, refused>>

\* Mutant of StopPost: the work guard is kept.
StopPostKeepsWork ==
    /\ stage = "post" /\ stage' = "done" /\ stopper' = None
    /\ tasks' = [l \in Loops |-> tasks[l] \o
                   <<[op |-> "closeAcceptor"]>> \o
                   (IF l = Base \/ scan THEN <<[op |-> "closeAll"]>> ELSE <<>>)]
    /\ work' = work
    /\ UNCHANGED <<config, running, draining, active, acceptVars, sessVars, scanner, timer,
                   ending, tpc, phase, missed, refused>>

\* closeAllAcceptors(), the closure that closes every session of each loop, and
\* releaseWork().
StopPost ==
    /\ stage = "post" /\ stage' = "done" /\ stopper' = None
    /\ tasks' = [l \in Loops |-> tasks[l] \o
                   <<[op |-> "closeAcceptor"]>> \o
                   (IF l = Base \/ scan THEN <<[op |-> "closeAll"]>> ELSE <<>>)]
    /\ work' = FALSE
    /\ UNCHANGED <<config, running, draining, active, acceptVars, sessVars, scanner, timer,
                   ending, tpc, phase, missed, refused>>

CloseAcceptorTask(l) ==
    /\ Task(l, "closeAcceptor") /\ tasks' = Rest(l)
    /\ accSock' = accSock \ {l}
    /\ UNCHANGED <<config, running, draining, active, acc, sessVars, scanner, timer, ending,
                   stopVars, tpc, phase, missed, refused>>

\* closeAll(), stop() and shutdown() of the loop's scanner; on the base loop the
\* shutdown timer is cancelled first.
CloseAllTask(l) ==
    /\ Task(l, "closeAll") /\ tasks' = Rest(l)
    /\ timer' = IF l = Base THEN "off" ELSE timer
    /\ sock' = IF scan THEN sock \ (entry \cap On(l)) ELSE sock
    /\ scanner' = scanner \ {l}
    /\ missed' = missed \cup {c \in On(l) : sess[c] = "upgrading"}
    /\ UNCHANGED <<config, running, draining, active, acceptVars, sess, loopOf, entry, registry,
                   told, ending, stopVars, tpc, phase, refused>>

\* Control::notify(): a session that has left the registry is not touched.
NotifyCloseTask(l) ==
    /\ Task(l, "notifyClose") /\ tasks' = Rest(l)
    /\ sock' = sock \ (Head(tasks[l]).conns \cap registry)
    /\ UNCHANGED <<config, running, draining, active, acceptVars, sess, loopOf, entry, registry,
                   told, scanner, timer, ending, stopVars, tpc, phase, missed, refused>>

-----------------------------------------------------------------------------
(* gracefulStop()                                                            *)

\* A thread may ask for a graceful stop first and lose patience.
CallStop(t) ==
    /\ tpc[t] \in {"idle", "asked"} /\ tpc' = [tpc EXCEPT ![t] = "done"]
    /\ Exchange(t)
    /\ UNCHANGED <<config, draining, active, acceptVars, tasks, sessVars, scanner, timer, ending,
                   work, phase, missed, refused>>

CallGraceful(t) ==
    /\ tpc[t] = "idle"
    /\ tpc' = [tpc EXCEPT ![t] = IF running THEN "graceful" ELSE "asked"]
    /\ UNCHANGED <<config, running, draining, active, acceptVars, tasks, sessVars, scanner, timer,
                   ending, stopVars, phase, missed, refused>>

\* draining_.exchange(true): the first caller posts to the base loop.
Graceful(t) ==
    /\ tpc[t] = "graceful" /\ tpc' = [tpc EXCEPT ![t] = "asked"]
    /\ draining' = TRUE
    /\ tasks' = IF draining THEN tasks ELSE Posted(Base, <<[op |-> "begin"]>>)
    /\ UNCHANGED <<config, running, active, acceptVars, sessVars, scanner, timer, ending, stopVars,
                   phase, missed, refused>>

\* beginGracefulStopOnLoop(): drain, close the acceptors, and stop at once when
\* nobody is connected, or at the deadline.
BeginTask ==
    /\ Task(Base, "begin")
    /\ IF ~running
       THEN tasks' = Rest(Base) /\ UNCHANGED <<running, stopper, stage, timer, told>>
       ELSE /\ tasks' = [l \in Loops |-> Rest(Base)[l] \o Notices("notifyDrain", Base)[l] \o
                           <<[op |-> "closeAcceptor"]>>]
            /\ told' = told \cup (registry \cap On(Base))
            /\ IF active = 0 THEN Exchange(Base) /\ UNCHANGED timer
               ELSE timer' = "armed" /\ UNCHANGED <<running, stopper, stage>>
    /\ UNCHANGED <<config, draining, active, acceptVars, sess, loopOf, sock, entry, registry,
                   scanner, ending, work, tpc, phase, missed, refused>>

\* Control::notify(): the session is asked to finish; when it does is up to it
\* (PeerEnds).
NotifyDrainTask(l) ==
    /\ Task(l, "notifyDrain") /\ tasks' = Rest(l)
    /\ told' = told \cup (Head(tasks[l]).conns \cap registry)
    /\ UNCHANGED <<config, running, draining, active, acceptVars, sess, loopOf, sock, entry,
                   registry, scanner, timer, ending, stopVars, tpc, phase, missed, refused>>

Deadline ==
    /\ Free(Base) /\ timer = "armed" /\ timer' = "off"
    /\ Exchange(Base)
    /\ UNCHANGED <<config, draining, active, acceptVars, tasks, sessVars, scanner, ending, work,
                   tpc, phase, missed, refused>>

-----------------------------------------------------------------------------
(* start() returns                                                           *)

\* A loop without work: run() returns once its work guard is gone.
Idle(l) ==
    /\ Free(l) /\ tasks[l] = <<>> /\ acc[l] = "ended"
    /\ l \notin scanner /\ \A c \in On(l) : sess[c] = "gone"

BaseReturns ==
    /\ phase = "run" /\ ~work /\ Idle(Base) /\ timer = "off"
    /\ phase' = "join"
    /\ UNCHANGED <<config, running, draining, active, acceptVars, tasks, sessVars, scanner, timer,
                   ending, stopVars, tpc, missed, refused>>

\* ioPool_->stop() joins the workers.
Joined ==
    /\ phase = "join" /\ \A l \in Workers : Idle(l)
    /\ phase' = "returned"
    /\ UNCHANGED <<config, running, draining, active, acceptVars, tasks, sessVars, scanner, timer,
                   ending, stopVars, tpc, missed, refused>>

-----------------------------------------------------------------------------
\* Steps the program takes by itself.
Internal(l) ==
    \/ AcceptAborted(l) \/ SessionTask(l) \/ LastOut(l)
    \/ CloseAcceptorTask(l) \/ CloseAllTask(l) \/ NotifyCloseTask(l) \/ NotifyDrainTask(l)
    \/ \E c \in Conns : Reserve(l, c) \/ TurnAway(l, c) \/ Register(l, c) \/ Recheck(l, c) \/ Broken(l, c)

Stopping == Announce \/ Snapshot \/ StopPost
Main == BeginTask \/ Deadline \/ BaseReturns \/ Joined

\* Steps that need a client or a caller.
Outside ==
    \/ \E l \in Loops, c \in Conns :
          \/ AcceptCheck(l, c) \/ Handshaken(l, c) \/ PeerEnds(l, c)
          \/ UpgradeBegin(l, c) \/ UpgradeEnd(l, c) \/ IdleClose(l, c)
    \/ \E l \in Loops : AcceptFails(l)
    \/ \E t \in Threads : CallStop(t) \/ CallGraceful(t)

Next ==
    \/ \E l \in Loops : Internal(l) \/ AcceptResumes(l)
    \/ \E t \in Threads : Graceful(t)
    \/ Stopping \/ Main \/ Outside

Fairness ==
    /\ \A l \in Loops : WF_vars(Internal(l)) /\ WF_vars(AcceptResumes(l))
    /\ WF_vars(Stopping) /\ WF_vars(Main)
    /\ \A t \in Threads : WF_vars(Graceful(t))

Spec == Init /\ [][Next]_vars /\ Fairness

-----------------------------------------------------------------------------
(* Properties                                                                *)

Accs == {"waiting", "sleeping", "checked", "over", "ended"}
Sessions == {"none", "accepted", "spawned", "starting", "registering", "gone"} \cup Live

\* Every variable keeps its type; only live sessions are in the lists.
TypeOK ==
    /\ {tls, scan, running, draining, work, refused} \subseteq BOOLEAN
    /\ active \in 0..(Cardinality(Conns))
    /\ acc \in [Loops -> Accs] /\ accSock \subseteq Loops
    /\ sess \in [Conns -> Sessions] /\ loopOf \in [Conns -> Loops \cup {None}]
    /\ sock \subseteq Reserved /\ entry \cup registry \subseteq Reserved
    /\ scanner \subseteq Loops /\ ending \subseteq Loops
    /\ timer \in {"off", "armed"} /\ phase \in {"run", "join", "returned"}
    /\ stopper \in Loops \cup Threads \cup {None}

\* activeConnections_ counts the sessions that hold a reservation and the
\* clients being turned away, whoever adds and removes at the same time.
CountExact ==
    active = Cardinality({c \in Reserved : sess[c] # "accepted"})
               + Cardinality({l \in Loops : acc[l] = "over"})

\* However many loops accept at once, no more than maxConnections_ sessions
\* are admitted (fetch_add() before the test in commitAcceptedSocket()).
LimitRespected ==
    MaxConns > 0 => Cardinality({c \in Reserved : sess[c] # "accepted"}) <= MaxConns

\* Once stop() has been carried out on a loop, every session that still lives
\* there has lost its socket, also one that was queued, registering or in its
\* handshake meanwhile; only a WebSocket upgrade in progress escapes.  (Of
\* plain sessions only the idle scanner knows.)
StopReaches ==
    stage = "done" /\ (scan \/ tls) => \A l \in Loops : tasks[l] = <<>> =>
        \A c \in On(l) : sess[c] \in Live => c \notin sock \/ c \in missed

\* Once a drain has been carried out on a loop, every session serving there was
\* asked to finish: a session that registers around the snapshot either is in
\* it or sees draining_ at its second look.
DrainReaches ==
    timer = "armed" /\ tls => \A l \in Loops : tasks[l] = <<>> =>
        \A c \in On(l) : sess[c] = "open" => c \in told

\* A drain does not wait for its deadline when nobody is connected: the last
\* session to leave stops the server (~ConnectionReservation), unless a client
\* was being refused at the limit while it left.
DrainNotStranded ==
    timer = "armed" /\ running /\ active = 0 /\ ending = {} => refused

\* gracefulStop() and stop() end: start() returns, however the clients behave,
\* where the sessions are known to a scanner or to the registry and no upgrade
\* was in progress when their sockets were closed.
StopEnds == (draining /\ (scan \/ tls)) ~> (phase = "returned" \/ missed # {})

\* stop() and gracefulStop() miss nobody, however sessions come and go while they
\* are carried out loop by loop (stop, beginGracefulStop, registerTlsSession).
StopsSound == TypeOK /\ StopReaches /\ DrainReaches /\ DrainNotStranded

=============================================================================
