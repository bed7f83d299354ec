# Hical: TLA+ models and proofs

Hical is a C++20 web framework on Boost.Asio: TCP and HTTP servers, HTTP clients,
WebSocket, database access. This directory holds TLA+ modules translated from its
source, TLC configurations that check them on small instances, and TLAPS proofs that
hold for every instance. `PROJECT.json` lists components, runs, mutants, the map from
definitions to source lines, findings, hazards and theorems. Paths below are those of
the repository (`src/core/...`).

## 1. The system

Everything runs on *loops*: an `io_context` with one thread, which runs closures and
coroutines one at a time. Code between two `co_await`s is atomic for the other
coroutines of its loop, not for other loops and threads. That is the grain of all
modules here: a step is a stretch of code up to the next `co_await`, posted closure,
mutex section or access to an atomic another thread uses.

A TCP server (or the HTTP server, with acceptors of its own) accepts sockets on its
loops. An HTTP session reads a connection into a buffer, parses requests, sends each
through the middleware chain to the handler the router finds, and writes the responses
back in batches; a session may turn into a WebSocket, an event stream or an HTTP/2
connection. Handlers use the database pool, the HTTP client and its pool, the session
store, static files. Timers, memory pools, logging and the loops serve them all.

| Part | What is hard | What is shown |
|---|---|---|
| Database pool (`src/db/DbConnectionPool`) | time-out against hand-over, work across `co_await`, failures | one owner per connection, exact count, waiters woken |
| Write queue (`src/asio/GenericConnection.h/.hci`) | half-linked nodes, giving up against a late push | nothing lost, freed twice or written by two |
| TCP connection (`GenericConnection.hci`) | calls from several threads and callbacks | one close callback, one read loop, every end noticed |
| TCP server, loop pool (`TcpServer`, `EventLoopPool`) | stop against accepts and closes, join | shards and counters agree with connections |
| HTTP/1 session (`HttpSessionImpl.cpp`) | pipelining, three body paths, batching | order, every byte once, no response held |
| HTTP server (`HttpServer`, `IdleScanner`, `HttpConnectionRegistry`) | snapshots against late sessions, limits, who stops | exact count, limit, a stop reaches everyone |
| HTTP/2 server and output (`src/core/http2`) | lost wake-ups, stale timers, partial writes, shared budgets | budgets exact, ends last, drain ends |
| HTTP client, HTTP/2 client, pools (`src/asio/HttpClient*`) | grants against deadlines and stop, retries, generations | one user per transport, at most one send, nobody overlooked |
| WebSocket, hub, SSE, sessions, rate limits | buffers and maps shared across awaits and locks | frames whole and in order, limits kept |
| Timers, loops, memory, logging, drivers, database middleware | cancel inside a batch, collection, rotation, retry | no timer forgotten, no line lost unreported, transactions whole |
| Routing, chain, files, responses, framing, header blocks, buffers | pure algorithms and caches | equal to a reference definition |

The `components` list of `PROJECT.json` has every part, with the reason where one is not
modelled. `hazards` lists what is hard to test, at its line.

## 2. Modules

Constants bound what is unbounded in the program; the name of each bound says what it
bounds. Definitions named in a comment as *Mutant* are not part of a specification: each
is a plausible bug, put in place of the definition it stands before to show that a
property fails. `MC*` modules only choose instances.

### Connections and servers

**DbConnectionPool** (`DbConnectionPool.cpp`). `idle`, `activeCount`, `waiters`, `shutdown`
are the members of the class; `pc` and `conn` say where each caller's coroutine is and what
it pings, holds or finds in its result slot; `rolling` are rollback coroutines; `health`,
`checking`, `alive`, `borrowed`, `deficit` are the locals of `healthCheckLoop`. Ages are not
modelled: whether a connection is dead or expired is chosen when the code looks.
`MaxFaults` bounds dead connections, failing factories and failing rollbacks.
**ConnectionLeases** is the abstract specification: a connection is granted to a caller
when nobody has it, and given back by that caller. Three consequences of the code that
no property excludes: between a hand-over and the waiter's resumption nobody counts
the connection, so `acquire()` may create one beyond `maxConnections`; connections the
health checker holds during shutdown return to `idle_` afterwards; a waiter is not woken
when a rollback or a factory fails and a slot becomes free, it waits for its time-out.

**WriteQueue** (`MpscQueue`, `enqueueEntry`, `tryStartWrite`, `writeLoop`). `next`, `head`,
`tail` are the intrusive list, `writing` and `queued` the atomics; a producer goes through
count, exchange, link, start; the loop pops for one of three goals (drain, re-check, purge).
Atomics are sequentially consistent here; the source's acquire/release orders are weaker,
so the module is about the algorithm and not the fences. A node found at the re-check is
pushed behind later ones: the model has this reordering. Callbacks for high water and
completion are left out, entries have size one.

**TcpConnection** (`GenericConnection.hci`). One record `con`, so that nested calls on the
loop compose as functions; `tasks` are posted closures, `tpc` is a thread inside the
test-then-store of `shutdown()`. Callbacks do not throw. The code's `close()` does nothing
after `shutdown()`, and data that arrives after `shutdown()` ends the read loop.

**TcpServer** (`TcpServer.cpp`, `EventLoopPool::stop`). `state` keeps of a connection what
`close()` and the close callback need; `todo` and `pc` follow the thread in `stop()`; `Wrap`
stands for 2^64. Not modelled: `start()` after `stop()`, running out of descriptors.

**HttpServer** (`HttpServer.cpp`, registry, idle scanners). Every loop accepts (the
`SO_REUSEPORT` layout). A session goes through start, register, re-check, hand-shake, open,
perhaps upgrade, and leaves through `~ConnectionReservation`; a handler that is not atomic
(the stop, the reservation's end) keeps its loop busy. `missed` are sessions that were
writing their 101 response when `closeAll()` came by; `refused` records a refusal during
a drain. Left out: `gcLoop`, periodic tasks, the fallback with one acceptor, the
destructor's `StopControl`, restart.

**HttpSession** (`handleSession`, `readRequestBody`, HTTP/1). The client's bytes are
positions of one stream, `buf` and `spill` slices of it, a request a head of `HeaderLen`
bytes and a body. `src` and `rem` are `spillSrc` and `remainingInBuf`; `after` is where
`readRequestBody` returns to. What middleware does is chosen freely. Writes are atomic
(`ResponseWriter` has the partial ones), bytes taken up in the middle of a body parse as
malformed, an over-long head counts as bad. `dirty` records that a response kept the
connection with the request's body unread.

**PmrBuffer** (`PmrBuffer.h`). Two buffers with read and write index; byte number n is n
itself, so that order and loss are visible. `makeSpace()` moves data down only when the
read index is beyond the prepended part, as the code does.

### HTTP/2

**Http2Server** (`Http2Connection`, `Http2ServerSession`, `Http2Receive`, `Http2Stream`,
`Http2Budget`). The connection is one record `h`; a method of a class is an operator from `h`
to `h`, and an action is one handler: a frame's callback, a deadline, the writer's look for
work, a job's step, the joins at the end of `run()`. nghttp2 is external: `Frames` and
`Generate` say what it sends and calls back. **Http2Output** (`Http2Output`,
`Http2FileBody`, `Http2Response`) has the payload: producers that wait for credit, the
send budget, DATA items that are active or deferred, the file reader and its prefetch,
acknowledgement of ends when their bytes are written. **Http2Headers** is the block of
header fields, field by field up to `seal()`, with the view that is made of it.

### Client

**HttpClient**: one client with its generation, the shared connection attempt, the gate
that gives the transport to one user, and `close()` from any thread. **Http2ClientSession**:
admission under both sides' limits, contexts of streams, what frames, failures and
deadlines make of a result. **HttpClientPool**: origins, grants, the bounded queue, one
retry, sweep, `stop()`. **HttpClientBuckets**: the HTTP/1 buckets with idle and checked-out
clients. Requests are identities; what the server does is chosen, but it is honest
about what it has not processed.

### What serves requests

| Module | Source | State and steps |
|---|---|---|
| `WebSocketSession` | `WebSocket.cpp`, `handleWebSocket` | write lock, frame batch, fragments; reader, heartbeat, broadcasts and a closer as coroutines of one loop; waiters for the lock poll |
| `WsHub` | `WsHub.cpp` | connections and rooms under one mutex; a broadcast spawns coroutines that run later |
| `WsProtocol` | `WsHandshake.h`, `WsFrame.h` | handshake decisions, frame headers byte by byte, lengths around every encoding boundary |
| `SseSession` | `SseSession.cpp` | application and heartbeat share `sendBuf_`; a write reads it twice |
| `SessionManager` | `Session.cpp` | each mutex section a step, several threads, ids and ages |
| `RateLimiter` | `RateLimiter.cpp` | the clock is read before the locks; whole tokens |
| `MiddlewareChain` | `Middleware.cpp`, `CompileTimeChain.h`, `RouteGroup.cpp` | chains built three ways, one request down and back up |
| `Router` | `Router.cpp`, `PerfectHashRouter.h` | registrations, then look-ups against the best route by definition; `exists()` and parameter values are left out |
| `StaticFiles` | `StaticFiles.h` | two caches as list and index, files that change between steps; directories, MIME types and the root test are left out |
| `ResponseWriter` | `HttpResponse.cpp`, writers in `HttpSessionImpl.cpp` | setters, lazily computed length, batch, partial writes |
| `DbDriver` | `MysqlConnection.cpp`, `PgsqlConnection.cpp`, statement caches | a call as a chain of exchanges, each may fail before or after its effect |
| `DbMiddleware` | `DbMiddleware.h`, `DbQueryLog.cpp` | acquire, BEGIN, handler, COMMIT or ROLLBACK, release |
| `TimerService` | `TimerService.cpp` | heap, marks of cancelled ids, the one armed wait, the batch of due callbacks |
| `EventLoop` | `AsioEventLoop.cpp`, `AsioTimer.cpp`, `EventLoopPool.cpp` | timers made and cancelled by any thread, quit, join |
| `MemoryPool` | `MemoryPool.cpp` | pools per thread behind a cache, collection that only marks |
| `Logging`, `LogFile` | `Log.cpp`, `AsyncFileSink.cpp`, `LogFile.cpp` | snapshot of sinks, swap of buffers, rotation over restarts |

`SeqFacts`, `DbConnectionPoolProofs`, `WriteQueueProofs`, `WriteQueueDelivery`,
`TcpServerProofs`, `HttpServerProofs`, `HttpServerStops`, `PmrBufferProofs` hold lemmas and
theorems (section 5).

## 3. Runs

A property of a run may be a conjunction of several that are defined and commented in the
component's module; the list below spells it out. The mutant given for it breaks one of
its conjuncts.

| Run | Instance | Shows |
|---|---|---|
| `db_pool_safety` | 3 clients, limit 2, 5 identities, health check, 1 fault | `SingleOwner`, `CountExact`, `NoLostHandOver` |
| `db_pool_wakeups` | 3 clients, 3 identities, limit 1, no faults, no health check | `WaitersJustified`, `WaiterWoken`, refinement `LeasesKept` |
| `write_queue` | 2 producers of 2 messages, batch 2, write errors | `SingleWriter`, `Delivered`, `EventuallyWritten` |
| `tcp_connection` | 2 threads of 2 calls, callbacks calling back, plain and TLS | `ConnectionSound`, `CleansUp` |
| `tcp_server` | 3 connections, pool of 2 loops or none | `ShardsSound`, `StopReturnsWithoutPool` |
| `http1_session` | pipelines of 2 or 3 requests, 3 kinds of chain | `PipelineSound`, `Served` |
| `http1_answered_twice` | same | violation of `AnsweredOnce` (section 4) |
| `http_server` | 2 clients, 2 loops, limit 1, 1 stopping thread | `CountExact`, `LimitRespected`, `StopsSound`, `StopEnds` |
| `http2_server` | 1 stream with every message, 1 stream with every failure, 2 streams with 1 task slot | `SessionSound`, `AnswersSent`, `DrainEnds` |
| `http2_output` | 2 responses, windows, bodies and files of 2 or 3 units, shared budget | `OutputSound`, `WaitsOnlyForPeer` |
| `services` | 10 modules, one per behaviour (`MCServices`) | nine properties over timers, loops, memory, logging, database, client |
| `messages` | 12 modules, one per behaviour (`MCMessages`) | seven properties over chain, routes, files, responses, frames, headers, buffers, push, store, limiter |

Conjunctions: `Delivered` = types, `NoDanglingLink`, `WrittenOnce`, `NothingStranded`.
`ConnectionSound` = types, `CloseOnce`, `OneReader`, `ReaderAlive`; `CleansUp` =
`CloseDisconnects`, `EofCleansUp`. `ShardsSound` = types, `Registered`, `FindShardFinds`.
`PipelineSound` = types, `WireOrder`, `NothingHeld`, `BytesAccounted`, `HandlerHasBody`;
`Served` = `Answered`, `GoneEnds`. `StopsSound` = types, `StopReaches`, `DrainReaches`,
`DrainNotStranded`. `SessionSound` = types, `TasksBounded`, `NothingBeyondGoaway`,
`NoLostWakeup`, `NoStaleTimeout`, `WholeBody`; `AnswersSent` = every step satisfies
`CleanStopSendsAll` and `EarlyAnswerSurvives`. `OutputSound` = types, `BudgetExact`,
`EndIsLast`, `ReportedWhenWritten`, `CreditUsable`, `NobodyOvertakenTwice`. Those of
`services` and `messages` are in `MCServices.tla` and `MCMessages.tla`.

Conditions. Some properties hold with an exception the code makes, which the model
records and the property names: `CloseOnce` unless another thread called `shutdown()`
(it tests and stores `state_` in two steps; a close in between is undone and the callbacks
come twice); `StopReaches` and `StopEnds` save for sessions in the middle of an upgrade and
where neither scanner nor registry knows the sessions (plain ones with the idle timeout
off); `DrainNotStranded` unless a client was refused meanwhile; `BytesAccounted` and
`WireOrder` for connections that are not `dirty`; `BusyKeepsMemory` for threads that
allocate at least every `MaxIdle`; `SlotsGivenBack` save for requests whose BEGIN failed;
`SentOncePerMember` save for a session that joined a room twice; `CompressedInOrder` unless
a compressed message had to wait for the lock; `ChunksIntact` unless an event met a
comment in the middle of a write. `WithinRate` needs an idle time after which a
bucket would be full again (idle · rate ≥ burst + lag): a collected bucket starts full.
`StopReturnsWithoutPool` is about servers without a loop pool: with one, `stop()` joins
loops that a half-closed connection, or one added behind the closing of its shard, keeps
alive.

Bounds. Three clients are the least with one holding, one waiting and one arriving between a
hand-over and its resumption; whenever these instances call the factory an identity is left
for it. Two producers meet each other inside push, two messages each let one overtake
itself; a batch of two is full and not full. Two threads of two calls give every pair of
racing calls and a call after it. Two clients under a limit of one reach the limit, a
refusal and a reuse; two loops are the least with sessions on a loop other than the one
that stops. Pipelines of three have a request before and after the one under test; heads
and bodies of two bytes can be split in the middle. Two streams share one slot and one
budget, and windows smaller than a body make each wait. Caches hold one entry, queues and
limits one or two: full, evicting and refusing all happen. Three timers have a batch of two
with one left; sequences of routes, middleware and header fields are as long as it takes
for each kind to stand before and behind each other kind. The client's pool splits
what may go wrong into four situations (`Situations`), one per behaviour, as does the
WebSocket session.

Deadlock is checked in `http2_server` and `http2_output`. Elsewhere it is not: pools that are
shut down, connections that are closed, clients that have sent everything and servers
that have returned do nothing more.

Fairness is weak throughout and covers what the program itself does: a loop runs what is
ready, a mutex section ends, a thread inside a call goes on, a client of the pool releases
what it holds, a started database call or socket write ends, an armed deadline fires. No
fairness on peers (connecting, sending, closing), users' calls, faults or the time-outs of
the pool's waiters. In `HttpServer`, `AcceptResumes` (the end of a sleep) has fairness of its
own, since failing accepts could otherwise starve the rest of its loop. In `HttpSession` a
write ends: a peer that does not read is the idle scanner's business. In `Http2Server` it is
the deadlines and handlers that are fair, and in the instance with two streams, which leaves
the write deadline out, the end of a write. `Http2Output`, `services` and `messages` check
safety only and have none.

## 4. Findings

`http1_answered_twice`: middleware that answers without reading the body, or a declared
length over the limit, leaves the request in `readBuf` of a connection that stays open;
`spillSrc` is 0, the saved bytes start with the same request, and it is parsed and answered
again. A comment at the early rejection and a test of `Expect` say that the connection is
closed. `PROJECT.json` has the lines.

## 5. Proofs

The theorems below hold for every value of the constants that satisfies the assumptions
named in the modules; nothing else is assumed. Each is an invariant or a refinement of
the same specification that TLC runs.

| Module | Theorem | States |
|---|---|---|
| `DbConnectionPoolProofs` | `TypeSafety` | fields keep their types; `activeCount_` never wraps |
| | `ExclusiveOwnership` | `SingleOwner`: no connection is in two hands |
| | `CountIsExact` | `CountExact`: `activeCount_` is what is in use |
| | `HandOverIsSafe` | `NoLostHandOver`: a time-out loses no connection handed over |
| | `LeasesImplemented` | `LeasesKept`: the pool refines `ConnectionLeases` |
| | `IdleIsUsed` | `NoWaiterBesideIdle`, whatever fails |
| | `LostToFaults` | `PlacesTaken`: an unused place beside a waiter was lost to a fault of its own |
| | `WaitsAreJustified` | `WaitersJustified` where nothing fails |
| `WriteQueueProofs` | `OneWriter` | `SingleWriter` |
| `WriteQueueDelivery` | `EveryMessageDelivered` | `Delivered` |
| `TcpServerProofs` | `ShardsAgree` | `ShardsSound` |
| `HttpServerProofs` | `ConnectionsCounted` | `CountExact` |
| | `LimitHolds` | `LimitRespected` |
| | `DrainNoticed` | `DrainNotStranded` |
| `HttpServerStops` | `NobodyMissed` | `StopsSound` |
| `PmrBufferProofs` | `IndicesInOrder`, `BytesInOrder` | `TypeOK`, `FirstInFirstOut` of `PmrBuffer` |

`SeqFacts` has what the proofs need of sequences: elements and repetitions of what
`push_back`, `pop_front`, concatenation and erasure return.

**Pool.** Assumed: finitely many clients and connections, a null pointer that is no
connection, sizes that are naturals. `IInv` = `TypeOK` ∧ `SingleOwner` ∧ `WaitInv` ∧
`HealthInv` ∧ `CountExact`. None of them is inductive alone: that nobody else has what a waiter
is given needs `WaitInv` (who is queued is queued once, has an empty slot and will look at
it), `TypeOK` needs the exact count for the unguarded decrements, and the count needs
`HealthInv` (the health checker has borrowed only between taking and returning). There is one
lemma per action; `CountedStep`, `RollingStep` and `CountedPositive` say what a step does to
the sets the counter counts. The refinement shows that a step gives a lease (`GrantStep`),
takes one (`ReturnStep`) or leaves all as they are (`LeaseKept`).

For who waits, `PlacesInv` adds to `IInv`: no health checker runs, nobody enters before
`init()` has ended, a stack beside waiters is empty, and `PlacesTaken`. The last one counts
faults: a connection that is dead, a factory that throws or a rollback that fails may cost the
pool one place that nobody hands on, so the places in use, the connections on their way to a
waiter and the faults so far always make up `maxConnections` when somebody waits. Without
faults this is `WaitersOnlyWhenFull`. With a health checker both are false of the code
(survivors return to the stack without waking anybody), hence the assumption.

**Write queue.** Assumed: the stub and null are no message nodes, batches have at least one
message. `OwnerInv`: `writing_` is set exactly while one coroutine, spawned or running, owns
it; one that has given it up owns nothing. `IInv` of `WriteQueueDelivery` = `OwnerInv` ∧
`DeliveryInv`: facts about the loop's locals and the batch on the wire, and a sequence of
nodes from `head_` to `tail_` in which consecutive nodes are linked unless the push of the
second is between its exchange and its store. The sequence is quantified existentially,
because a half-linked list cannot be followed along `next`. Every message accepted is in
exactly one place: with its producer, in that sequence, in the batch or written. The lemmas
go through the ways a push, a pop, a re-push of the stub and a purge change the sequence.

**TCP server.** Assumed: names that differ, finitely many connections, counters that can count
them all. `IInv` binds a connection to one loop when it is accepted (`PlaceInv`), lets only that
loop add it, once (`QueueInv`), has at most one closure that `stop()` waits for (`SignalInv`) and
clears `shards_` only when the loops of the pool have exited (`StopInv`); from these the
counters follow (`CountInv`). The agreement of both counters is proved until `stop()`, which is
what `ShardsSound` says.

**HTTP server.** Assumed: names that differ, finitely many clients and loops. `ServerInv`: each
accepted connection has one closure waiting, on its own loop, from the reservation to the start
of its session (`TaskInv`), so each reservation is given back once (`CountInv`). `DrainInv` adds
who will still look at `draining_` when the count reaches zero. `ReachInv` is why a stop and a
drain miss nobody: each session they have still to reach is named in a closure queued on its
own loop (`CloseInv`, `AskInv`) or on the list of a scanner that has yet to run `closeAll()`
(`ScanInv`). It was there to be found when the closure was posted: a session that serves is
registered or on the list first (`KindInv`, `PlaceInv`), and looks again at `running_` and
`draining_` before it serves. `RunInv`, that no scanner is stopped before the server is, keeps
newcomers on a list that is still scanned.

**Buffers.** For any sizes (`Sizes`), `BufferInv`: the readable bytes of each buffer are
consecutive numbers from the next one due.

## 6. What is not proved and not modelled

Checked by TLC only:

- liveness and fairness (`WaiterWoken`, `EventuallyWritten`, `CleansUp`,
  `StopReturnsWithoutPool`, `Served`, `StopEnds`, `DrainEnds`), which the provers here do not
  handle;
- `ConnectionSound`, `PipelineSound`, `SessionSound`, `OutputSound` and `WaitsOnlyForPeer`:
  their modules pass one large record through nested operators, and the inductive invariants
  have not been worked out;
- what `services` and `messages` check, except `PmrBuffer`: many of these modules define
  algorithms by recursion over data, whose results for every input need induction that
  the provers cannot instantiate.

Not modelled: authentication and response policies (headers set from options),
configuration, errors and addresses, reflection, JSON and OpenAPI generation, the vendored HTTP
parser, request objects and body decoding. They are functions without shared state or
depend on libraries; `PROJECT.json` names each, with what is left out of the parts that are
modelled in part. Weak memory orders, exceptions thrown by callbacks and exhaustion of
memory are left out throughout.
