------------------------------ MODULE EventLoop -----------------------------
(***************************************************************************)
(* An event loop with its timers and the pool that runs it                 *)
(* (AsioEventLoop.cpp, AsioTimer.cpp, EventLoopPool.cpp).  Timers are made *)
(* and cancelled by any thread while the loop's thread runs their          *)
(* handlers; cancelling sets a flag and posts the cancellation of the wait *)
(* to the loop.  A handler already queued for an expired wait still runs.  *)
(***************************************************************************)
EXTENDS Naturals, FiniteSets, TLC

CONSTANTS
    Timers,     \* the ids nextTimerId_ gives
    MaxTasks,   \* bound: closures posted
    MaxShots    \* bound: shots of one repeating timer

VARIABLE l

\* st: none, made (in timers_, start() not reached), wait, ready (its handler
\* is queued), call (past its check, its callback runs), again (a repeating one is about to be
\* scheduled again) or dead.  posts: the posted timer_.cancel() has not run.
\* forced (a ghost): stop() was called.
NoTimer == [st |-> "none", every |-> FALSE, cancelled |-> FALSE, map |-> FALSE, posts |-> FALSE, ran |-> 0]

Init ==
    l = [run |-> "off", guard |-> TRUE, stopped |-> FALSE, forced |-> FALSE, owner |-> "made", tasks |-> 0,
         posted |-> 0, quits |-> 0, quitRan |-> 0, t |-> [i \in Timers |-> NoTimer]]

Set(c, i, to) == [c EXCEPT !.t[i] = to @@ @]

\* The loop's thread is inside run() and between two handlers.
Free == l.run = "running" /\ \A i \in Timers : l.t[i].st \notin {"call", "again"}

-----------------------------------------------------------------------------
(* Timers: made and cancelled from anywhere, fired by the loop.            *)

runAfter(i) == l.t[i].st = "none" /\ l' = Set(l, i, [st |-> "made", map |-> TRUE])

runEvery(i) == l.t[i].st = "none" /\ l' = Set(l, i, [st |-> "made", map |-> TRUE, every |-> TRUE])

\* scheduleOnce() and scheduleRepeating().
Schedule(c, i) == Set(c, i, [st |-> IF c.t[i].cancelled THEN "dead" ELSE "wait"])

start(i) == l.t[i].st = "made" /\ l' = Schedule(l, i)

\* The id is known to others once runAfter() or runEvery() has returned.
cancelTimer(i) ==
    /\ l.t[i].st # "made" /\ l.t[i].map
    /\ l' = Set(l, i, [map |-> FALSE, cancelled |-> TRUE, posts |-> TRUE])

CancelRuns(i) ==
    /\ Free /\ l.t[i].posts
    /\ l' = Set(l, i, [posts |-> FALSE, st |-> IF l.t[i].st = "wait" THEN "dead" ELSE l.t[i].st])

Expires(i) == l.run = "running" /\ l.t[i].st = "wait" /\ l' = Set(l, i, [st |-> "ready"])

Fires(i) ==
    /\ Free /\ l.t[i].st = "ready" /\ l.t[i].ran < MaxShots
    /\ l' = Set(l, i, IF l.t[i].cancelled THEN [st |-> "dead"] ELSE [st |-> "call", ran |-> l.t[i].ran + 1])

\* handleTimeout() after the callback takes a one-shot out of timers_.
handleTimeout(i) ==
    /\ l.t[i].st = "call"
    /\ l' = Set(l, i, IF l.t[i].every THEN [st |-> IF l.t[i].cancelled THEN "dead" ELSE "again"]
                                      ELSE [st |-> "dead", map |-> FALSE])

scheduleRepeating(i) == l.t[i].st = "again" /\ l' = Schedule(l, i)

-----------------------------------------------------------------------------
(* Tasks, the end of the loop, and the pool's thread.                      *)

post == l.posted < MaxTasks /\ l' = [l EXCEPT !.tasks = @ + 1, !.posted = @ + 1]

TaskRuns == Free /\ l.tasks > 0 /\ l' = [l EXCEPT !.tasks = @ - 1]

runOnQuit == l.quits < 1 /\ l.run # "done" /\ l' = [l EXCEPT !.quits = @ + 1]

poolStart == l.owner = "made" /\ l' = [l EXCEPT !.owner = "started", !.run = "starting"]

run == l.run = "starting" /\ l' = [l EXCEPT !.run = "running"]

\* stop() drops the work guard and stops the context; releaseWork() and the
\* pool's stop() only drop the guard.
stop ==
    /\ l.run \in {"starting", "running"} /\ ~l.stopped
    /\ l' = [l EXCEPT !.guard = FALSE, !.stopped = TRUE, !.forced = TRUE]

poolStop == l.owner = "started" /\ l' = [l EXCEPT !.owner = "joining", !.guard = FALSE]

Joined == l.owner = "joining" /\ l.run = "done" /\ l' = [l EXCEPT !.owner = "joined"]

Work == l.guard \/ l.tasks > 0 \/ \E i \in Timers : l.t[i].posts \/ l.t[i].st \in {"wait", "ready"}

\* io_context::run() returns; the quit callbacks run once.
RunReturns ==
    /\ Free /\ (l.stopped \/ ~Work)
    /\ l' = [l EXCEPT !.run = "done", !.quitRan = @ + l.quits, !.quits = 0]

Next ==
    \/ post \/ TaskRuns \/ runOnQuit \/ poolStart \/ run \/ stop \/ poolStop \/ Joined \/ RunReturns
    \/ \E i \in Timers : \/ runAfter(i) \/ runEvery(i) \/ start(i) \/ cancelTimer(i) \/ CancelRuns(i)
                         \/ Expires(i) \/ Fires(i) \/ handleTimeout(i) \/ scheduleRepeating(i)

-----------------------------------------------------------------------------
TypeOK ==
    /\ l.run \in {"off", "starting", "running", "done"} /\ l.owner \in {"made", "started", "joining", "joined"}
    /\ l.tasks \in 0..MaxTasks /\ l.quitRan \in 0..1
    /\ \A i \in Timers : l.t[i].st \in {"none", "made", "wait", "ready", "call", "again", "dead"}

\* A cancelled timer lets go of the loop: once the posted cancellation has
\* run no wait of it is left that would fire again, or keep run() and with it
\* the pool's stop() from returning, also when it was cancelled inside its
\* callback or while its handler was queued (cancel, scheduleRepeating).
CancelSticks ==
    \A i \in Timers : l.t[i].cancelled /\ ~l.t[i].posts => l.t[i].st \in {"ready", "dead"}

\* timers_ holds exactly the timers that can still call back: one that may
\* still fire can be cancelled, and one that is over is not kept (runAfter,
\* handleTimeout, cancelTimer).
MapExact ==
    \A i \in Timers : l.t[i].map <=> ~l.t[i].cancelled /\ l.t[i].st \notin {"none", "dead"}

\* The pool's stop() loses nothing that was posted before the loop ended,
\* unless the loop itself was stopped (EventLoopPool::stop).
DrainsBeforeJoin ==
    l.run # "done" /\ l'.run = "done" /\ ~l.forced =>
        l.tasks = 0 /\ \A i \in Timers : l.t[i].st \notin {"wait", "ready"}
=============================================================================
