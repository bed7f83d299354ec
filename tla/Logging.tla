------------------------------- MODULE Logging ------------------------------
(***************************************************************************)
(* The logger (Log.cpp, LogChannel.cpp) with one asynchronous file sink    *)
(* (AsyncFileSink.cpp): threads take a snapshot of the sinks under the     *)
(* lock and write outside it; the sink's own thread swaps the buffer out   *)
(* and writes it to the rotating file; flush() waits for that thread;      *)
(* clearSinks() drops the logger's reference and the last holder of a      *)
(* snapshot destroys the sink; a fatal line flushes and aborts.  A new     *)
(* process finds the files of the one before.                              *)
(*                                                                         *)
(* The condition variable is waited for with a time limit and a predicate, *)
(* so a notification only decides when the predicate is looked at.         *)
(***************************************************************************)
EXTENDS LogFile, TLC

CONSTANTS
    Loggers,    \* threads
    MaxLines,   \* bound: lines logged in all
    Limit,      \* backpressureLimit, in lines
    MaxSeconds  \* bound on the clock

VARIABLE f

Levels == {"info", "error", "fatal"}    \* below, at and above flushLevel_

Idle == [pc |-> "idle", has |-> FALSE, lvl |-> "info", n |-> 0, need |-> 0, lost |-> FALSE]

Fresh(disk, now, n) ==
    [up |-> TRUE, attached |-> TRUE, t |-> [x \in Loggers |-> Idle], cur |-> <<>>, out |-> <<>>, reqs |-> {}, batch |-> {},
     dropped |-> 0, drops |-> 0, reported |-> 0, stop |-> FALSE, bg |-> "wait", accepted |-> <<>>,
     written |-> Content(disk), disk |-> disk, now |-> now, n |-> n]

Init == f = Fresh(NewDisk, 0, 0)

Go(c, x, to) == [c EXCEPT !.t[x] = to @@ @]

\* The snapshot of sinks_ under the lock.
emit(x, lvl) ==
    /\ f.up /\ f.t[x].pc = "idle" /\ f.n < MaxLines
    /\ f' = Go([f EXCEPT !.n = @ + 1], x, [pc |-> "write", has |-> f.attached, lvl |-> lvl, n |-> f.n + 1])

\* The end of emit(): the snapshot is dropped; a fatal line aborts.
Leave(c, x) ==
    IF c.t[x].lvl = "fatal" THEN [c EXCEPT !.up = FALSE]
    ELSE [c EXCEPT !.t[x] = Idle]

\* AsyncFileSink::write() for the sinks of the snapshot.
write(x) ==
    /\ f.up /\ f.t[x].pc = "write"
    /\ LET full == Len(f.cur) > Limit
           put == IF ~f.t[x].has THEN f
                  ELSE IF full THEN Go([f EXCEPT !.dropped = @ + 1, !.drops = @ + 1], x, [lost |-> TRUE])
                  ELSE [f EXCEPT !.cur = Append(@, f.t[x].n), !.accepted = Append(@, f.t[x].n)]
       IN f' = IF f.t[x].lvl = "info" \/ ~f.t[x].has THEN Leave(put, x) ELSE Go(put, x, [pc |-> "flush"])

flush(x) ==
    /\ f.up /\ f.t[x].pc = "flush"
    /\ f' = Go([f EXCEPT !.reqs = @ \cup {x}], x, [pc |-> "flushing", need |-> Len(f.accepted)])

\* backgroundLoop() under the lock: buffer and waiters are taken together.
TakeBatch ==
    /\ f.up /\ f.bg = "wait" /\ (f.cur # <<>> \/ f.reqs # {})
    /\ f' = [f EXCEPT !.out = f.cur, !.cur = <<>>, !.batch = f.reqs, !.reqs = {}, !.bg = "write"]

StopLoop ==
    /\ f.up /\ f.bg = "wait" /\ f.stop /\ f.cur = <<>> /\ f.reqs = {}
    /\ f' = [f EXCEPT !.bg = "done"]

RECURSIVE WakeAll(_, _)
WakeAll(c, xs) ==
    IF xs = {} THEN c ELSE LET x == CHOOSE x \in xs : TRUE IN WakeAll(Leave(c, x), xs \ {x})

\* ... and outside it: the report of dropped lines (0 in the file), the
\* batch, the flush, and then the waiters of this batch.
WriteBatch ==
    /\ f.up /\ f.bg = "write"
    /\ \E moved \in BOOLEAN :
         LET tell == f.out # <<>> /\ f.dropped > 0
             d == IF tell THEN append(f.disk, <<0>>, f.now, moved) ELSE f.disk
             e == IF f.out # <<>> THEN append(d, f.out, f.now, moved) ELSE d
         IN f' = WakeAll([f EXCEPT !.disk = e, !.out = <<>>, !.batch = {}, !.bg = "wait",
                                   !.written = @ \o (IF tell THEN <<0>> ELSE <<>>) \o f.out,
                                   !.reported = @ + (IF tell THEN f.dropped ELSE 0),
                                   !.dropped = IF tell THEN 0 ELSE @], f.batch)

\* The destructor runs when the last reference is gone.
clearSinks == f.up /\ f.attached /\ f' = [f EXCEPT !.attached = FALSE]

Destroy ==
    /\ f.up /\ ~f.attached /\ ~f.stop /\ \A x \in Loggers : ~f.t[x].has
    /\ f' = [f EXCEPT !.stop = TRUE]

\* A new process, in a later second: rotationSeq_ starts again.
Restart ==
    /\ ~f.up \/ f.bg = "done"
    /\ f.now < MaxSeconds
    /\ f' = Fresh([f.disk EXCEPT !.seq = 0], f.now + 1, f.n)

Tick == f.up /\ f.now < MaxSeconds /\ f' = [f EXCEPT !.now = @ + 1]

Next ==
    \/ TakeBatch \/ StopLoop \/ WriteBatch \/ clearSinks \/ Destroy \/ Restart \/ Tick
    \/ \E x \in Loggers : write(x) \/ flush(x) \/ \E lvl \in Levels : emit(x, lvl)

-----------------------------------------------------------------------------
TypeOK ==
    /\ f.up \in BOOLEAN /\ f.stop \in BOOLEAN /\ f.bg \in {"wait", "write", "done"}
    /\ f.reqs \subseteq Loggers /\ f.batch \subseteq Loggers /\ f.dropped \in 0..MaxLines
    /\ \A x \in Loggers : f.t[x].pc \in {"idle", "write", "flush", "flushing"} /\ f.t[x].lvl \in Levels

\* The files together hold a run of what was written that ends with the last
\* line: rotation and the limit on files lose only the oldest lines, in order,
\* over restarts and failed renames too (rotate, cleanOldFiles).
OldestLostFirst == IsSuffix(Content(f.disk), f.written)

\* There are never more than maxFiles rotated files (cleanOldFiles).
WithinMaxFiles == Cardinality(f.disk.old) <= MaxFiles

\* flush() returns only when every line the sink took before the call is in
\* the file, whichever batch was being written when it was called (flush,
\* backgroundLoop).
FlushWaits ==
    \A x \in Loggers :
        f.up /\ f.t[x].pc = "flushing" /\ f'.t[x].pc # "flushing" =>
            \A i \in 1..f.t[x].need : f.accepted[i] \in ToSet(f'.written)

\* A sink that has been destroyed holds nothing back: its thread ends with
\* the buffer written, nobody waiting, and every dropped line reported; and
\* no thread can still reach it (~AsyncFileSink, backgroundLoop, emit).
EndsClean ==
    /\ f.bg = "done" => f.cur = <<>> /\ f.out = <<>> /\ f.reqs = {} /\ f.dropped = 0
    /\ f.stop => \A x \in Loggers : ~f.t[x].has

\* Dropped lines are counted until a batch reports them, and there always is
\* such a batch: a line is dropped only behind others (write, backgroundLoop).
DropsReported ==
    /\ f.dropped + f.reported = f.drops
    /\ f.dropped > 0 => f.cur # <<>> \/ f.out # <<>>

\* The process aborts with its last words on disk: the fatal line that ends
\* it is in the file unless the buffer was full (emit, flush).
LastWords ==
    ~f.up => \E x \in Loggers : f.t[x].lvl = "fatal" /\ (f.t[x].has => f.t[x].lost \/ f.t[x].n \in ToSet(f.written))
=============================================================================
