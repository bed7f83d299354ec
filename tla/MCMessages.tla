----------------------------- MODULE MCMessages -----------------------------
(* From a request to its response: the buffer it is read into, the header  *)
(* blocks of HTTP/2, the route, the chain of middleware, the static files, *)
(* the response on the wire and the frames of a WebSocket; and what lives  *)
(* longer than a request: WebSocket session and hub, event stream, session *)
(* store and rate limiter.  One of them per behaviour.                     *)
EXTENDS Integers, Sequences, FiniteSets, TLC

CONSTANTS MaxEntries, Methods, MaxRoutes, MaxSegments,
          TextFiles, Binary, NTasks, MaxNodes, PathTtl, Ttl, MaxCached, MaxFile, MaxSize, MaxChanges, MaxTime, MaxRequests,
          MaxResponses, MaxOps, MaxBody, MaxBatch, MaxMessage, MaxFrames, WindowBits, MaxFields, MaxBytes, Longest,
          Prepend, Capacities, MaxChunk, BufferMaxBytes,
          Casts, MaxReplies, MaxPings, FramesPerBatch, WriteBatch, SocketMaxMessage,
          Sessions, Rooms, MaxCasts, MaxJoins, MaxEvents, MaxBeats,
          Threads, MaxSessions, MaxAge, GcInterval, StoreMaxTime, MaxIds, MaxWrites,
          Keys, Rate, Burst, LimiterMaxEntries, LimiterIdle, MaxLag, LimiterGcInterval, LimiterMaxTime

VARIABLES which, x, r, c, a, j, s, i, w, u, e, m, q

vars == <<which, x, r, c, a, j, s, i, w, u, e, m, q>>

\* Every kind of route, beside one another: static, with a trailing slash, with parameters,
\* with wildcards; and patterns that are no paths.
Patterns ==
    {<<"/">>, <<"/", "a">>, <<"/", "a", "/">>, <<"/", "a", "/", "b">>, <<"a">>,
     <<"/", "{}">>, <<"/", "a", "/", "{}">>, <<"/", "{}", "/", "b">>,
     <<"/", "*", "b">>, <<"/", "a", "*", "b">>, <<"/", "a", "/", "*", "b">>, <<"/", "a", "*">>}
GroupPrefixes == {<<>>, <<"/", "b">>, <<"/", "b", "/">>}
Paths == {<<"/">> \o p : p \in {<<"%">>, <<"a", "%">>, <<"a", "%", "b">>} \cup UNION {[1..n -> {"/", "a", "b"}] : n \in 0..3}}

\* Lengths at the boundaries of the three encodings.
Lengths == {0, 125, 126, 65535, 65536, 65537}
Offers == [name : {"permessage-deflate", "other"}, bits : {-1, 0, 8, 15}]

Plain(n, vs) == {[name |-> n, v |-> v, port |-> 0] : v \in vs}
WithPort(n, v, port) == {[name |-> n, v |-> v, port |-> port]}
Fields ==
    Plain(":method", {"GET", "CONNECT"}) \cup Plain(":scheme", {"https", "ftp"}) \cup Plain(":path", {"/"})
    \cup Plain(":authority", {"a", "bad"}) \cup WithPort(":authority", "a", 443)
    \cup WithPort("host", "a", 443) \cup WithPort("host", "a", 80)
    \cup Plain(":status", {"200", "103"}) \cup Plain("cookie", {"c1", "c2"}) \cup Plain("te", {"trailers"})
    \cup Plain("content-length", {"1"}) \cup Plain("upgrade", {"h2"})

\* What the peer may send, and who is there beside the reader.
Kinds == {<<"text", TRUE>>, <<"text", FALSE>>, <<"cont", TRUE>>, <<"cont", FALSE>>, <<"ping", TRUE>>, <<"pong", TRUE>>,
          <<"close", TRUE>>, <<"bad", TRUE>>}
Situations == {<<{"c1", "closer"}, 2>>, <<{"c1", "ping"}, 2>>, <<{"deadline"}, 2>>, <<{}, 3>>}

Chain    == INSTANCE MiddlewareChain
Routes   == INSTANCE Router
Static   == INSTANCE StaticFiles WITH Text <- TextFiles
Writer   == INSTANCE ResponseWriter
Protocol == INSTANCE WsProtocol
Headers  == INSTANCE Http2Headers
Buffers  == INSTANCE PmrBuffer WITH MaxBytes <- BufferMaxBytes
Socket   == INSTANCE WebSocketSession WITH MaxMessage <- SocketMaxMessage
Hub      == INSTANCE WsHub WITH Ids <- Sessions
Events   == INSTANCE SseSession
Store    == INSTANCE SessionManager WITH MaxTime <- StoreMaxTime
Limiter  == INSTANCE RateLimiter WITH MaxEntries <- LimiterMaxEntries, GcInterval <- LimiterGcInterval,
                                      MaxTime <- LimiterMaxTime, Idle <- LimiterIdle

Init ==
    /\ which \in {"chain", "routes", "static", "writer", "protocol", "headers", "buffers", "socket", "hub", "events", "store", "limiter"}
    /\ IF which = "chain" THEN Chain!Init ELSE x = <<>>
    /\ IF which = "routes" THEN Routes!Init ELSE r = <<>>
    /\ IF which = "static" THEN Static!Init ELSE c = <<>>
    /\ IF which = "writer" THEN Writer!Init ELSE a = <<>>
    /\ IF which = "protocol" THEN Protocol!Init ELSE j = <<>>
    /\ IF which = "headers" THEN Headers!Init ELSE s = <<>>
    /\ IF which = "buffers" THEN Buffers!Init ELSE i = <<>>
    /\ IF which = "socket" THEN Socket!Init ELSE w = <<>>
    /\ IF which = "hub" THEN Hub!Init ELSE u = <<>>
    /\ IF which = "events" THEN Events!Init ELSE e = <<>>
    /\ IF which = "store" THEN Store!Init ELSE m = <<>>
    /\ IF which = "limiter" THEN Limiter!Init ELSE q = <<>>

Next ==
    \/ which = "chain" /\ Chain!Next /\ UNCHANGED <<which, r, c, a, j, s, i, w, u, e, m, q>>
    \/ which = "routes" /\ Routes!Next /\ UNCHANGED <<which, x, c, a, j, s, i, w, u, e, m, q>>
    \/ which = "static" /\ Static!Next /\ UNCHANGED <<which, x, r, a, j, s, i, w, u, e, m, q>>
    \/ which = "writer" /\ Writer!Next /\ UNCHANGED <<which, x, r, c, j, s, i, w, u, e, m, q>>
    \/ which = "protocol" /\ Protocol!Next /\ UNCHANGED <<which, x, r, c, a, s, i, w, u, e, m, q>>
    \/ which = "headers" /\ Headers!Next /\ UNCHANGED <<which, x, r, c, a, j, i, w, u, e, m, q>>
    \/ which = "buffers" /\ Buffers!Next /\ UNCHANGED <<which, x, r, c, a, j, s, w, u, e, m, q>>
    \/ which = "socket" /\ Socket!Next /\ UNCHANGED <<which, x, r, c, a, j, s, i, u, e, m, q>>
    \/ which = "hub" /\ Hub!Next /\ UNCHANGED <<which, x, r, c, a, j, s, i, w, e, m, q>>
    \/ which = "events" /\ Events!Next /\ UNCHANGED <<which, x, r, c, a, j, s, i, w, u, m, q>>
    \/ which = "store" /\ Store!Next /\ UNCHANGED <<which, x, r, c, a, j, s, i, w, u, e, q>>
    \/ which = "limiter" /\ Limiter!Next /\ UNCHANGED <<which, x, r, c, a, j, s, i, w, u, e, m>>

Spec == Init /\ [][Next]_vars

\* However a chain was built, its entries run in the order of registration, their afters in
\* the reverse, nothing that needs the body runs before it was read once, and a request that
\* was refused in front of the gate costs no body (build, buildFor, withBodyGate).
ChainInOrder ==
    /\ which = "chain" => Chain!TypeOK /\ Chain!EntriesInOrder /\ Chain!AftersUnwind /\ Chain!AsyncLayersWrap /\ Chain!BodyBeforeNeed /\ Chain!RefusedUnread /\ Chain!CompiledChainAgrees

\* The most specific route answers, 405 lists exactly the methods the path has, and the same
\* holds of push routes and of the paths of groups (resolveRoute, allowedMethodsFromMask,
\* findWsRoute, joinPath).
RoutesExact ==
    /\ which = "routes" => Routes!TypeOK /\ Routes!BestRouteAnswers /\ Routes!AllowIsExact /\ Routes!JoinKeepsSegments /\ Routes!PushRouteIsBest

\* Contents, and the word that they have not changed, go out at most kTtl after they were
\* the file's; ranges have the bytes asked for (a pure function, so the initial states
\* suffice); no index of a cache points to an erased node (serveStatic, parseByteRange).
FilesFresh ==
    /\ which = "static" => Static!TypeOK /\ Static!IndexSound /\ Static!FreshWithinTtl /\ Static!NotModifiedIsTrue
    /\ which = "static" /\ c.asked = 0 => Static!RangeExact

\* What is written or parsed is whole and in order: the responses on the wire and the lengths
\* they declare, the frames cut out of a stream, the header blocks that are accepted and the
\* views of them, the bytes of a buffer (writeResponse, receiveBatch, seal, makeSpace).
MessagesIntact ==
    /\ which = "writer" => Writer!TypeOK /\ Writer!WireExact /\ Writer!Framed
    /\ which = "protocol" => Protocol!TypeOK /\ Protocol!FramesIntact /\ Protocol!NothingWaits /\ Protocol!WindowAgreed
    /\ which = "headers" => Headers!TypeOK /\ Headers!SealedIfWellFormed /\ Headers!ViewFaithful
    /\ which = "buffers" => Buffers!TypeOK /\ Buffers!FirstInFirstOut

\* What is pushed to a client arrives whole, once, in order and with whom it was meant for:
\* one writer at a time on a WebSocket with nothing held back or left behind, rooms that
\* agree with the calls made, chunks of an event stream with their size (acquireWrite,
\* endBatch, broadcastImpl, sendEvent).
PushIntact ==
    /\ which = "socket" => Socket!TypeOK /\ Socket!WriterHoldsLock /\ Socket!NothingHeldBack /\ Socket!MessagesWhole /\ Socket!RepliesInOrder /\ Socket!NothingLeftBehind /\ Socket!CompressedInOrder
    /\ which = "hub" => Hub!TypeOK /\ Hub!RoomsAgree /\ Hub!OnlyMembers /\ Hub!SentOncePerMember
    /\ which = "events" => Events!TypeOK /\ Events!HeartbeatStops /\ Events!ChunksIntact

\* Whatever races between the locks, the store holds at most maxSessions and a retired id is
\* dead with its data under one id; a key passes no more calls than burst and rate allow,
\* with at most maxEntries buckets (create, regenerate, check, gc).
WithinLimits ==
    /\ which = "store" => Store!TypeOK /\ Store!WithinMaxSessions /\ Store!OldIdsDead
    /\ which = "limiter" => Limiter!TypeOK /\ Limiter!WithinRate /\ Limiter!WithinMaxEntries

\* Expired entries never keep a new session out, and a session leaves the store only by
\* destroy(), regenerate() or age (create, gc).
StoreSteps ==
    [][/\ which = "store" => Store!TurnedAwayByLive /\ Store!KeptWhileFresh]_vars
=============================================================================
