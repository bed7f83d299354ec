--------------------------- MODULE MiddlewareChain ---------------------------
(***************************************************************************)
(* How the middleware of a server and of a route group is composed into a  *)
(* call chain, and how one request runs through it (core/Middleware.cpp,   *)
(* core/CompileTimeChain.h, core/RouteGroup.cpp, core/RequestDispatch.h).  *)
(* The server's pipeline is built once by build(); its innermost node is   *)
(* the session's tail, which reads the body unless a body gate has already *)
(* done so and dispatches to the route, whose handler is wrapped in the    *)
(* group's own chain.                                                      *)
(*                                                                         *)
(* A chain is a sequence of nodes, outermost first: a coroutine of its own *)
(* for an async entry or a body gate, one shared coroutine for a run of    *)
(* consecutive sync entries.  A request walks down the nodes, and its      *)
(* response (or an exception) walks back up.                               *)
(***************************************************************************)
EXTENDS Integers, Sequences, SequencesExt

CONSTANTS MaxEntries  \* entries registered in all

VARIABLE x

E(kind, before, after, body) ==
    [kind |-> kind, before |-> before, after |-> after, body |-> body]

\* What the overloads of use() and useBody() register.
Entry == {E("async", TRUE, TRUE, b) : b \in BOOLEAN} \cup {E("sync", TRUE, a, b) : a, b \in BOOLEAN}
         \cup {E("sync", FALSE, TRUE, FALSE)}

All(s) == s.global \o s.group

\* Ids of the entries of a list, numbered through both lists.
GlobalIds(s) == [i \in DOMAIN s.global |-> i]
GroupIds(s) == [i \in DOMAIN s.group |-> Len(s.global) + i]

-----------------------------------------------------------------------------
(* Building a chain.                                                        *)

Gate == [kind |-> "gate", es |-> <<>>]
Node(kind, i) == [kind |-> kind, es |-> <<i>>]

GateFirst(s, ids) ==
    LET nodes == [i \in DOMAIN ids |-> Node(All(s)[ids[i]].kind, ids[i])]
    IN IF \E i \in DOMAIN ids : All(s)[ids[i]].body THEN <<Gate>> \o nodes ELSE nodes

\* One gate, before the first entry that needs the body.
WithBodyGate(s, ids) ==
    LET need == {i \in DOMAIN ids : All(s)[ids[i]].body}
        nodes == [i \in DOMAIN ids |-> Node(All(s)[ids[i]].kind, ids[i])]
    IN IF need = {} THEN nodes
       ELSE InsertAt(nodes, CHOOSE i \in need : \A j \in need : i <= j, Gate)

\* From the innermost entry outwards: a sync entry joins the run inside it.
BuildOptimizedChain(s, ids) ==
    FoldRight(LAMBDA n, acc : IF n.kind = "sync" /\ acc # <<>> /\ Head(acc).kind = "sync"
                              THEN <<[n EXCEPT !.es = @ \o Head(acc).es]>> \o Tail(acc)
                              ELSE <<n>> \o acc,
              WithBodyGate(s, ids), <<>>)

\* The templates of CompileTimeChain collect a run from its outermost entry.
SyncRun(s, ids) ==
    LET stop == {i \in DOMAIN ids : All(s)[ids[i]].kind # "sync"}
    IN IF stop = {} THEN Len(ids) ELSE (CHOOSE i \in stop : \A j \in stop : i <= j) - 1

RECURSIVE CompileTimeChain(_, _)
CompileTimeChain(s, ids) ==
    LET n == SyncRun(s, ids)
    IN IF ids = <<>> THEN <<>>
       ELSE IF n = 0 THEN <<Node("async", Head(ids))>> \o CompileTimeChain(s, Tail(ids))
       ELSE <<[kind |-> "sync", es |-> SubSeq(ids, 1, n)]>>
            \o CompileTimeChain(s, SubSeq(ids, n + 1, Len(ids)))

\* The profiling chain is made of async handlers only.
ProfilingChain(s, ids) ==
    [i \in DOMAIN SelectSeq(ids, LAMBDA j : All(s)[j].kind = "async") |->
        Node("async", SelectSeq(ids, LAMBDA j : All(s)[j].kind = "async")[i])]

Build(s) ==
    IF s.profiling /\ \A i \in DOMAIN s.global : s.global[i].kind = "async" /\ ~s.global[i].body
    THEN ProfilingChain(s, GlobalIds(s)) ELSE BuildOptimizedChain(s, GlobalIds(s))

\* A sync handler in a group of sync entries is called by one plain function that runs
\* them all, and no gate; every other route gets the optimized chain, or the chain the
\* templates of compileTimeRoute() built.
RouteChain(s) ==
    IF s.handler = "compiled" THEN CompileTimeChain(s, GroupIds(s))
    ELSE IF s.handler = "sync" /\ s.group # <<>> /\ \A i \in DOMAIN s.group : s.group[i].kind = "sync"
    THEN <<[kind |-> "sync", es |-> GroupIds(s)]>>
    ELSE BuildOptimizedChain(s, GroupIds(s))

\* The chains of a WebSocket or SSE route end in the session, and no body is read.
Chain(s) ==
    IF s.path = "push" THEN Build(s) \o <<[kind |-> "handler", es |-> <<>>]>>
    ELSE Build(s) \o <<[kind |-> "tail", es |-> <<>>]>> \o RouteChain(s)
         \o <<[kind |-> "handler", es |-> <<>>]>>

-----------------------------------------------------------------------------
(* Running one request through it.                                          *)

\* Who gave the response: an entry, the handler, the session that could not read the
\* body, an async middleware that caught an exception.
Handler == -1
Session == -2
Rescue == -3

Say(s, es) == [s EXCEPT !.trace = @ \o es]
Answer(s, who) == [s EXCEPT !.dir = "up", !.by = who]
Descend(s) == [s EXCEPT !.pos = @ + 1]

\* ctx->readBody: only where the session attached its context, and once.  HTTP/1 without
\* server middleware attaches none: its tail reads the body before the route is called.
ReadBody(s, ok) ==
    IF s.body THEN Descend(s)
    ELSE IF ok THEN Descend(Say([s EXCEPT !.body = TRUE], <<<<"body", 0>>>>))
    ELSE Answer(Say(s, <<<<"nobody", 0>>>>), Session)

BodyGate(s, ok) == IF s.path = "request" THEN ReadBody(s, ok) ELSE Descend(s)

\* The befores of a run in order; the k-th answers (0: none).
Befores(s, n) == SelectSeq(n.es, LAMBDA i : All(s)[i].before)
In(is) == [j \in DOMAIN is |-> <<"in", is[j]>>]
SyncBefores(s, n, k) ==
    IF k = 0 THEN Descend(Say(s, In(Befores(s, n))))
    ELSE Answer(Say(s, In(SubSeq(Befores(s, n), 1, k))), Befores(s, n)[k])

\* The afters of a run, the last registered first.
Afters(s, n) == Reverse(SelectSeq(n.es, LAMBDA i : All(s)[i].after))
Out(is) == [j \in DOMAIN is |-> <<"out", is[j]>>]

Down(s, n) ==
    CASE n.kind = "async" -> {Descend(Say(s, In(n.es))), Answer(Say(s, In(n.es)), n.es[1]),
                              [Say(s, In(n.es)) EXCEPT !.dir = "throw"]}
      [] n.kind = "gate" -> {BodyGate(s, ok) : ok \in BOOLEAN}
      [] n.kind = "tail" -> {ReadBody(s, ok) : ok \in BOOLEAN}
      [] n.kind = "sync" -> {SyncBefores(s, n, k) : k \in 0..Len(Befores(s, n))}
      [] n.kind = "handler" -> {Answer(Say(s, <<<<"handler", 0>>>>), Handler),
                                [Say(s, <<<<"handler", 0>>>>) EXCEPT !.dir = "throw"]}

\* A response passes every node whose coroutine waits in co_await next(r).  An exception
\* passes them too and runs no after; an async middleware may catch it.
Up(s, n) ==
    CASE n.kind = "async" /\ s.dir = "up" -> {Say(s, Out(n.es))}
      [] n.kind = "async" -> {s, Answer(s, Rescue)}
      [] n.kind = "sync" /\ s.dir = "up" -> {Say(s, Out(Afters(s, n)))}
      [] OTHER -> {s}

-----------------------------------------------------------------------------
Init ==
    \E path \in {"request", "push"}, profiling \in BOOLEAN,
       handler \in {"sync", "async", "compiled"} :
        x = [pc |-> "setup", global |-> <<>>, group |-> <<>>, path |-> path,
             profiling |-> profiling, handler |-> handler, nodes |-> <<>>, pos |-> 1,
             dir |-> "down", by |-> 0, body |-> FALSE, trace |-> <<>>]

Use(list) ==
    /\ x.pc = "setup" /\ Len(All(x)) < MaxEntries
    /\ \E n \in Entry : x' = [x EXCEPT ![list] = Append(@, n)]

\* A compiled chain has no entries that need the body and none without a before.
Compilable(s) == \A i \in DOMAIN s.group : s.group[i].before /\ ~s.group[i].body

Start ==
    /\ x.pc = "setup" /\ (x.handler = "compiled" => Compilable(x))
    /\ x' = [x EXCEPT !.nodes = Chain(x), !.pc = "run"]

Enter == /\ x.pc = "run" /\ x.dir = "down" /\ x' \in Down(x, x.nodes[x.pos])

\* The node that answered is left; the response goes to the one around it.
Leave ==
    /\ x.pc = "run" /\ x.dir # "down"
    /\ IF x.pos = 1 THEN x' = [x EXCEPT !.pc = "done"]
       ELSE \E s \in Up(x, x.nodes[x.pos - 1]) : x' = [s EXCEPT !.pos = @ - 1]

Next == (\E list \in {"global", "group"} : Use(list)) \/ Start \/ Enter \/ Leave

-----------------------------------------------------------------------------
TypeOK ==
    /\ x.pc \in {"setup", "run", "done"} /\ x.dir \in {"down", "up", "throw"} /\ x.body \in BOOLEAN
    /\ x.global \in Seq(Entry) /\ x.group \in Seq(Entry) /\ x.pos \in 1..(Len(x.nodes) + 1)

Ids(s, Test(_)) == SelectSeq([i \in DOMAIN All(s) |-> i], LAMBDA i : Test(All(s)[i]))
Events(tag) == SelectSeq(x.trace, LAMBDA ev : ev[1] = tag)
Seen(tag) == [i \in DOMAIN Events(tag) |-> Events(tag)[i][2]]
Reached == IF x.path = "push" THEN [x EXCEPT !.group = <<>>] ELSE x

\* No entry is skipped and none runs twice or out of order, whichever way its chain was
\* built (merged, gated, profiled, compiled, the plain function of a sync route): what has
\* run is a prefix of the registration order, and all of it once the handler runs.
EntriesInOrder ==
    LET all == Ids(Reached, LAMBDA n : n.before)
    IN /\ IsPrefix(Seen("in"), all)
       /\ Events("handler") # <<>> => Seen("in") = all

\* A response of the handler is shown to the after of every entry, the last registered
\* first, whatever the merging did.
AftersUnwind ==
    x.pc = "done" /\ x.by = Handler => Seen("out") = Reverse(Ids(Reached, LAMBDA n : n.after))

\* An answer of an inner entry, or of a gate that could not read the body, still passes
\* the after of every async entry around it.
AsyncLayersWrap ==
    x.pc = "done" /\ x.dir = "up" /\ x.by # Rescue =>
        \A i \in DOMAIN All(x) : All(x)[i].kind = "async" /\ i # x.by =>
            (i \in ToSet(Seen("in")) <=> i \in ToSet(Seen("out")))

\* The body is there when an entry registered with useBody() runs, and when the handler
\* of a request does; it is read at most once though the gate of the server, the tail and
\* the gate of a group may each ask for it.
BodyBeforeNeed ==
    x.path = "request" =>
        /\ Len(Events("body")) <= 1
        /\ \A j \in DOMAIN x.trace :
              (x.trace[j][1] = "handler" \/ (x.trace[j][1] = "in" /\ All(x)[x.trace[j][2]].body))
              => \E i \in 1..(j - 1) : x.trace[i][1] = "body"

\* A request that an entry in front of the first useBody() entry of the server answers
\* costs no body: nothing of it has been read.
RefusedUnread ==
    LET need == {i \in DOMAIN x.global : x.global[i].body}
    IN \A k \in DOMAIN x.global :
          x.by = k /\ (\A i \in need : k < i) => Events("body") = <<>> /\ Events("nobody") = <<>>

\* The templates and the run-time builder group the same entries alike
\* (CompileTimeChain.h: the semantics are those of buildOptimizedChain()).
CompiledChainAgrees ==
    Compilable(x) => CompileTimeChain(x, GroupIds(x)) = BuildOptimizedChain(x, GroupIds(x))
=============================================================================
