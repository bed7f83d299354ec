----------------------------- MODULE MCServices -----------------------------
(* What the server's parts rest on: the timer service, the event loop, the *)
(* memory pools, logging; and what they call out with: a database          *)
(* connection and the requests that use one, the HTTP client and its pools.*)
(* One of them per behaviour.                                              *)
EXTENDS Integers, Sequences, FiniteSets, TLC

CONSTANTS TimerIds, MaxDelay, Slack, MaxTime, Timers, MaxTasks, MaxShots, Workers, Holders, MaxIdle, MaxClock,
          Loggers, MaxLines, Limit, MaxSeconds, MaxFileSize, MaxFiles, Sqls, CacheSize, MaxCalls,
          DbRequests, Slots, MaxMade,
          Requests, MaxGen, Users, Safe, MaxEntries, MaxPerOrigin, MaxQueue, MaxPeer, MaxOrigins,
          Calls, Local, Tasks, MaxWaiters, PeerLimits, Jobs, SafeJobs, MaxClients, MaxIdleClients

VARIABLES which, z, l, y, f, v, d, k, p, g, b

vars == <<which, z, l, y, f, v, d, k, p, g, b>>

\* What may go wrong in a behaviour of the client's pool.
Situations == {{"time", "cancel"}, {"stop"}, {"goaway"}, {"sweep"}}

Timing  == INSTANCE TimerService
Loop    == INSTANCE EventLoop
Memory  == INSTANCE MemoryPool
Log     == INSTANCE Logging
Driver  == INSTANCE DbDriver
Request == INSTANCE DbMiddleware
Client  == INSTANCE HttpClient
Pool    == INSTANCE HttpClientPool
Session == INSTANCE Http2ClientSession
Buckets == INSTANCE HttpClientBuckets WITH MaxIdle <- MaxIdleClients

Init ==
    /\ which \in {"timing", "loop", "memory", "log", "driver", "request", "client", "pool", "session", "buckets"}
    /\ IF which = "timing" THEN Timing!Init ELSE z = <<>>
    /\ IF which = "loop" THEN Loop!Init ELSE l = <<>>
    /\ IF which = "memory" THEN Memory!Init ELSE y = <<>>
    /\ IF which = "log" THEN Log!Init ELSE f = <<>>
    /\ IF which = "driver" THEN Driver!Init ELSE v = <<>>
    /\ IF which = "request" THEN Request!Init ELSE d = <<>>
    /\ IF which = "client" THEN Client!Init ELSE k = <<>>
    /\ IF which = "pool" THEN Pool!Init ELSE p = <<>>
    /\ IF which = "session" THEN Session!Init ELSE g = <<>>
    /\ IF which = "buckets" THEN Buckets!Init ELSE b = <<>>

Next ==
    \/ which = "timing" /\ Timing!Next /\ UNCHANGED <<which, l, y, f, v, d, k, p, g, b>>
    \/ which = "loop" /\ Loop!Next /\ UNCHANGED <<which, z, y, f, v, d, k, p, g, b>>
    \/ which = "memory" /\ Memory!Next /\ UNCHANGED <<which, z, l, f, v, d, k, p, g, b>>
    \/ which = "log" /\ Log!Next /\ UNCHANGED <<which, z, l, y, v, d, k, p, g, b>>
    \/ which = "driver" /\ Driver!Next /\ UNCHANGED <<which, z, l, y, f, d, k, p, g, b>>
    \/ which = "request" /\ Request!Next /\ UNCHANGED <<which, z, l, y, f, v, k, p, g, b>>
    \/ which = "client" /\ Client!Next /\ UNCHANGED <<which, z, l, y, f, v, d, p, g, b>>
    \/ which = "pool" /\ Pool!Next /\ UNCHANGED <<which, z, l, y, f, v, d, k, g, b>>
    \/ which = "session" /\ Session!Next /\ UNCHANGED <<which, z, l, y, f, v, d, k, p, b>>
    \/ which = "buckets" /\ Buckets!Next /\ UNCHANGED <<which, z, l, y, f, v, d, k, p, g>>

Spec == Init /\ [][Next]_vars

\* A transport serves one request at a time and gives it its own response: the gate of a
\* client has one holder whatever was cancelled in the same turn, a response is never left
\* on a connection that is used again, isAlive() tells the truth, and what lies idle in a
\* bucket is nobody's (HttpClient.cpp, HttpClientBucketPool).
TransportsOwned ==
    /\ which = "client" => Client!HttpClientTypeOK /\ Client!OneTransportUser /\ Client!OwnResponse /\ Client!AliveIsActive
    /\ which = "buckets" => Buckets!TypeOK /\ Buckets!IdleIsIdle /\ Buckets!NothingIdleAfterStop

\* No retry repeats what may not be repeated: a request that is not idempotent reaches a
\* server at most once, and a database call does its work at most once (canRetry of both
\* pools, query).
AtMostOnce ==
    /\ which = "pool" => Pool!SentAtMostOnce
    /\ which = "buckets" => Buckets!SentOnce
    /\ which = "driver" => Driver!AppliedAtMostOnce

\* No wake-up is lost: whoever waits for a gate, a connection or a stream waits for something
\* that is still going to tell them, and could not have it now (releaseGate, drain,
\* notifyStreams).
NobodyStranded ==
    /\ which = "client" => Client!NobodyStranded
    /\ which = "pool" => Pool!NobodyOverlooked
    /\ which = "session" => Session!NoPlaceForWaiters

\* Counters agree with what they count: an entry's active count with grants and leases, the
\* queue's with its waiters, pendingCount() with the timers still to run, and open streams
\* with the calls that use them (requeue, cancel, compactCancelled).
CountsExact ==
    /\ which = "pool" => Pool!HttpClientPoolTypeOK /\ Pool!ActiveExact /\ Pool!QueueExact
    /\ which = "timing" => Timing!CountExact
    /\ which = "session" => Session!TypeOK /\ Session!NothingLeftOpen

\* No timer is forgotten and none runs after its cancel() or twice; a cancelled timer of an
\* event loop keeps neither firing nor the loop alive (rearm, fireDue, AsioTimer::cancel).
TimersKept ==
    /\ which = "timing" => Timing!TypeOK /\ Timing!NeverForgotten /\ Timing!CancelledNeverRuns
    /\ which = "loop" => Loop!TypeOK /\ Loop!CancelSticks /\ Loop!MapExact

\* A live holder's memory is from its own thread's existing pool, and gc() takes none from a
\* thread that keeps allocating (getOrCreateThreadPool, gc).
MemoryHeld ==
    /\ which = "memory" => Memory!TypeOK /\ Memory!PoolIsOwn /\ Memory!BusyKeepsMemory

\* The log loses only its oldest lines and counts what it drops, a destroyed sink holds
\* nothing back, and the process aborts with the fatal line on disk (rotate, cleanOldFiles,
\* backgroundLoop, emit).
LogKept ==
    /\ which = "log" => Log!TypeOK /\ Log!OldestLostFirst /\ Log!WithinMaxFiles /\ Log!EndsClean /\ Log!DropsReported /\ Log!LastWords

\* A request's writes are saved exactly when it answered without an error, the next request
\* finds its connection in nobody's transaction, slots go back once, and the driver's cache
\* and transaction flag are what the server has (makeDbMiddleware, release, query).
TransactionsWhole ==
    /\ which = "driver" => Driver!TypeOK /\ Driver!ToldIsDone /\ Driver!CacheFresh /\ Driver!TransactionKnown
    /\ which = "request" => Request!TypeOK /\ Request!IdleIsClean /\ Request!WithinSlots /\ Request!AllOrNothing /\ Request!SlotsGivenBack

\* What a step reports or hands out is right when it does: callbacks fire in time and in
\* order, stop() and flush() return after what they wait for, a result that allows a retry
\* is true, a time-out is due, streams open within the limits and a client goes to one user.
StepsAllowed ==
    [][/\ which = "timing" => Timing!FiresInOrder
       /\ which = "loop" => Loop!DrainsBeforeJoin
       /\ which = "log" => Log!FlushWaits
       /\ which = "client" => Client!ClosedIsCancelled
       /\ which = "pool" => Pool!TimeoutIsDue
       /\ which = "session" => Session!OpensWithinLimits /\ Session!RetryIsSafe /\ Session!CompleteIsKept
       /\ which = "buckets" => Buckets!HandedOutAlone]_vars
=============================================================================
