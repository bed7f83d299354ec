---------------------------- MODULE TimerService ----------------------------
(***************************************************************************)
(* The per-thread timer service (TimerService.cpp): one steady_timer for a *)
(* heap of deadlines, cancellation by marks that are dropped when the node *)
(* comes up, a batch of due nodes taken out before the first callback runs.*)
(* Callbacks, and other handlers of the loop between batches, may call     *)
(* every operation.  Re-arming aborts the wait it replaces, but a handler  *)
(* that is already queued for a reached deadline still runs.               *)
(***************************************************************************)
EXTENDS Naturals, Sequences, FiniteSets, SequencesExt

CONSTANTS
    TimerIds,   \* 1..n: at most so many calls of schedule
    MaxDelay,   \* the longest delay, in ticks
    Slack,      \* kCancelledSlack
    MaxTime     \* bound on the clock

VARIABLE z

Never == MaxTime + MaxDelay + 1     \* an empty armedDeadline, an idle timer

\* heap: the ids in the heap; due: the batch being fired; wait: the expiry of
\* the pending async_wait; queued: handlers of reached waits not run yet.
\* Ghosts: ran, the callbacks called; gone, the ids cancelled before that.
Init ==
    z = [now |-> 0, heap |-> {}, dl |-> [i \in TimerIds |-> 0], marks |-> {}, armed |-> Never, nextId |-> 1,
         firing |-> FALSE, stopped |-> FALSE, due |-> <<>>, wait |-> Never, queued |-> 0, ran |-> <<>>, gone |-> {}]

\* Later: the earlier deadline first, and of equal ones the earlier id.
Before(c, i, j) == c.dl[i] < c.dl[j] \/ (c.dl[i] = c.dl[j] /\ i < j)
Top(c) == CHOOSE i \in c.heap : \A j \in c.heap \ {i} : Before(c, i, j)

rearm(c) ==
    IF c.stopped \/ c.heap = {} THEN [c EXCEPT !.armed = Never]
    ELSE IF c.armed # Never /\ c.armed <= c.dl[Top(c)] THEN c
    ELSE [c EXCEPT !.armed = c.dl[Top(c)], !.wait = c.dl[Top(c)]]

compactCancelled(c) ==
    IF c.firing \/ Cardinality(c.marks) <= Cardinality(c.heap) + Slack THEN c
    ELSE [c EXCEPT !.marks = @ \cap c.heap]

schedule(d) ==
    /\ z.nextId \in TimerIds /\ ~z.stopped
    /\ z' = rearm([z EXCEPT !.heap = @ \cup {z.nextId}, !.dl[z.nextId] = z.now + d, !.nextId = @ + 1])

cancel(i) ==
    /\ ~z.stopped /\ i < z.nextId /\ i \notin z.marks
    /\ z' = compactCancelled([z EXCEPT !.marks = @ \cup {i},
                                       !.gone = @ \cup ({i} \ ToSet(z.ran))])

shutdown ==
    /\ ~z.stopped
    /\ z' = [z EXCEPT !.stopped = TRUE, !.armed = Never, !.marks = {}, !.heap = {}, !.wait = Never]

pendingCount(c) == Cardinality(c.heap \ c.marks)

Batch(c, s) == SetToSortSeq(s, LAMBDA i, j : Before(c, i, j))

\* The loop over the batch up to the next callback: what was cancelled is
\* skipped, and the end of the batch re-arms.
RECURSIVE FireNext(_)
FireNext(c) ==
    IF c.due = <<>> \/ c.stopped THEN rearm([c EXCEPT !.firing = FALSE, !.due = <<>>])
    ELSE LET i == Head(c.due)
         IN IF i \in c.marks THEN FireNext([c EXCEPT !.due = Tail(@), !.marks = @ \ {i}])
            ELSE [c EXCEPT !.due = Tail(@), !.ran = Append(@, i)]

fireDueKeepsArmed ==
    /\ z.queued > 0 /\ ~z.firing
    /\ LET ripe == {i \in z.heap : z.dl[i] <= z.now}
           c == [z EXCEPT !.queued = @ - 1]
       IN z' = IF z.stopped THEN c
               ELSE FireNext([c EXCEPT !.firing = TRUE, !.due = Batch(z, ripe), !.heap = @ \ ripe])
fireDue ==
    /\ z.queued > 0 /\ ~z.firing
    /\ LET ripe == {i \in z.heap : z.dl[i] <= z.now}
           c == [z EXCEPT !.queued = @ - 1, !.armed = Never]
       IN z' = IF z.stopped THEN c
               ELSE FireNext([c EXCEPT !.firing = TRUE, !.due = Batch(z, ripe), !.heap = @ \ ripe])

CallbackReturns == z.firing /\ z' = FireNext(z)

Expires ==
    /\ z.wait <= z.now
    /\ z' = [z EXCEPT !.wait = Never, !.queued = @ + 1]

Tick == z.now < MaxTime /\ z' = [z EXCEPT !.now = @ + 1]

\* The operations are called from callbacks and, between batches, from other
\* handlers of the loop.
Next ==
    \/ fireDue \/ CallbackReturns \/ Expires \/ Tick \/ shutdown
    \/ \E d \in 0..MaxDelay : schedule(d)
    \/ \E i \in TimerIds : cancel(i)

-----------------------------------------------------------------------------
TypeOK ==
    /\ z.heap \subseteq TimerIds /\ z.marks \subseteq TimerIds /\ z.gone \subseteq TimerIds
    /\ z.due \in Seq(TimerIds) /\ z.ran \in Seq(TimerIds)
    /\ z.wait \in 0..Never /\ z.armed \in 0..Never /\ z.queued \in Nat /\ z.nextId \in 1..Cardinality(TimerIds) + 1

\* No timer is forgotten: while something is in the heap, a wait is pending
\* that ends no later than the earliest deadline, or a handler that will look
\* is queued or running, also when a stale handler resets armedDeadline and
\* callbacks schedule and cancel in the middle of a batch (rearm, fireDue).
NeverForgotten ==
    z.heap # {} => z.queued > 0 \/ z.firing \/ z.wait <= z.dl[Top(z)]

\* A callback whose cancel() came first never runs, also when both were in
\* the same due batch or marks were compacted in between, and none runs twice
\* (cancel, compactCancelled, FireDueGuard).
CancelledNeverRuns ==
    /\ ToSet(z.ran) \cap z.gone = {}
    /\ IsInjective(z.ran)

\* pendingCount() counts exactly the timers that are still to be taken from
\* the heap: scheduled, not cancelled, not run and not in the running batch.
CountExact ==
    LET ids == {i \in TimerIds : i < z.nextId}
        done == ToSet(z.ran) \cup z.gone \cup ToSet(z.due)
    IN pendingCount(z) = IF z.stopped THEN 0 ELSE Cardinality(ids \ done)

\* A callback runs at its deadline or later, while the service is up, and
\* before every timer that has a later deadline or the same one and was
\* scheduled after it, in this batch or not (fireDue, Later).
FiresInOrder ==
    z.ran' # z.ran =>
        LET i == z.ran'[Len(z.ran')]
        IN z.dl[i] <= z.now /\ ~z.stopped
           /\ \A j \in (z'.heap \cup ToSet(z'.due)) \ z.marks : z.dl[i] < z.dl[j] \/ (z.dl[i] = z.dl[j] /\ i < j)
=============================================================================
