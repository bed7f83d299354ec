-------------------------------- MODULE Router --------------------------------
(***************************************************************************)
(* The route table and its look-up (core/Router.cpp, core/RouteGroup.cpp,  *)
(* core/MetaRoutes.h, core/PerfectHashRouter.h): static routes in a hash   *)
(* table with an optional perfect hash in front of it, parameter and       *)
(* wildcard routes in order of registration, and the index by first        *)
(* segment that decides which methods a 405 has to look at.                *)
(*                                                                         *)
(* A path is a sequence of "/", letters and "%", an escaped slash; in a    *)
(* pattern "{}" is a parameter segment and "*" starts a wildcard's name    *)
(* (a letter).  An entry of a table is the number of the registration      *)
(* that made it.                                                           *)
(***************************************************************************)
EXTENDS Integers, Sequences, FiniteSets, SequencesExt

CONSTANTS
    Methods,     \* HttpMethod
    Patterns,    \* paths given to route()
    GroupPrefixes,    \* prefixes of route groups ("" is the router itself)
    Paths,       \* request paths
    MaxRoutes,   \* registrations
    MaxSegments  \* kMaxPathSegments

VARIABLE r

First(S) == CHOOSE i \in S : \A j \in S : i <= j
At(p, c) == {i \in DOMAIN p : p[i] = c}
From(p, i) == SubSeq(p, i, Len(p))

-----------------------------------------------------------------------------
(* Paths and patterns.                                                      *)

JoinPath(prefix, path) ==
    IF prefix = <<>> THEN path
    ELSE IF path = <<>> THEN prefix
    ELSE IF Last(prefix) = "/" /\ Head(path) = "/" THEN prefix \o Tail(path)
    ELSE IF Last(prefix) # "/" /\ Head(path) # "/" THEN prefix \o <<"/">> \o path
    ELSE prefix \o path

UrlDecode(p) == [i \in DOMAIN p |-> IF p[i] = "%" THEN "/" ELSE p[i]]

IsWildcardRoute(p) == At(p, "*") # {} /\ First(At(p, "*")) < Len(p)
IsParamRoute(p) == At(p, "{}") # {}
WildPrefix(p) == SubSeq(p, 1, First(At(p, "*")) - 1)

DropSlash(p) == IF p # <<>> /\ Head(p) = "/" THEN Tail(p) ELSE p
FirstSeg(p) == IF At(p, "/") = {} THEN p ELSE SubSeq(p, 1, First(At(p, "/")) - 1)
RestSegs(p) == IF At(p, "/") = {} THEN <<>> ELSE From(p, First(At(p, "/")) + 1)

RECURSIVE MatchSegs(_, _, _)
MatchSegs(pat, path, n) ==
    IF pat = <<>> \/ path = <<>> THEN pat = <<>> /\ path = <<>>
    ELSE /\ n < MaxSegments
         /\ FirstSeg(pat) = <<"{}">> \/ FirstSeg(pat) = FirstSeg(path)
         /\ MatchSegs(RestSegs(pat), RestSegs(path), n + 1)

MatchParamPath(pat, path) == MatchSegs(DropSlash(pat), DropSlash(path), 0)
FirstPathSegment(p) == FirstSeg(DropSlash(p))

-----------------------------------------------------------------------------
(* Registration.                                                            *)

SegmentIndexCoarse(p) ==
    IF IsWildcardRoute(p) /\ WildPrefix(p) # <<>> /\ Head(WildPrefix(p)) = "/"
    THEN <<"seg", FirstSeg(Tail(WildPrefix(p)))>>
    ELSE IF IsParamRoute(p) /\ FirstPathSegment(p) = <<"{}">> THEN <<"any", <<>>>>
    ELSE <<"seg", FirstPathSegment(p)>>

\* What the index says of a route: any first segment, this one, or one with this prefix.
SegmentIndex(p) ==
    IF IsWildcardRoute(p)
    THEN LET pre == WildPrefix(p)
         IN IF pre = <<>> \/ Head(pre) # "/" THEN <<"any", <<>>>>
            ELSE IF At(Tail(pre), "/") = {} THEN <<"pre", Tail(pre)>>
            ELSE <<"seg", FirstSeg(Tail(pre))>>
    ELSE IF IsParamRoute(p) /\ FirstPathSegment(p) = <<"{}">> THEN <<"any", <<>>>>
    ELSE <<"seg", FirstPathSegment(p)>>

Route(s, m, p) ==
    LET n == Len(s.log) + 1
        t == [s EXCEPT !.log = Append(@, [method |-> m, path |-> p]),
                       !.index = @ \cup {<<SegmentIndex(p), m>>}]
    IN IF IsWildcardRoute(p) THEN [t EXCEPT !.wildcard[m] = Append(@, n)]
       ELSE IF IsParamRoute(p) THEN [t EXCEPT !.param[m] = Append(@, n)]
       ELSE [t EXCEPT !.static = (<<m, p>> :> n) @@ @, !.methods = @ \cup {<<m, p>>}]

\* registerRoutes(): a handler's table of routes, then a perfect hash over its static ones.
\* The hash keeps the addresses of their entries; no seed separates two equal keys.
StaticKeys(table) == SelectSeq(table, LAMBDA k : At(k[2], "{}") = {} /\ At(k[2], "*") = {})
BuildFromKeys(s, keys) ==
    IF keys = <<>> \/ ~IsInjective(keys) THEN s ELSE [s EXCEPT !.hash = ToSet(keys)]
RegisterRoutes(s, table) ==
    BuildFromKeys(FoldLeft(LAMBDA t, k : Route(t, k[1], k[2]), s, table), StaticKeys(table))

-----------------------------------------------------------------------------
(* Look-up.                                                                 *)

None == [kind |-> "none", entry |-> 0, allow |-> {}]
Hit(kind, n) == [None EXCEPT !.kind = kind, !.entry = n]
PathOf(s, n) == s.log[n].path

MatchWildcard(s, n, p) == IsPrefix(WildPrefix(PathOf(s, n)), p)

\* The methods whose routes may match a path that begins with this segment.
CandidateMask(s, p) ==
    {ix[2] : ix \in {e \in s.index :
        \/ e[1][1] = "any"
        \/ e[1][1] = "seg" /\ e[1][2] = FirstPathSegment(p)
        \/ e[1][1] = "pre" /\ IsPrefix(e[1][2], FirstPathSegment(p))}}

AllowedMethods(s, m, p) ==
    LET other == CandidateMask(s, p) \ {m}
    IN IF other = {} THEN {}
       ELSE {k[1] : k \in {e \in s.methods : e[2] = p /\ e[1] # m}}
            \cup {o \in other : \E i \in DOMAIN s.param[o] : MatchParamPath(PathOf(s, s.param[o][i]), p)}
            \cup {o \in other : \E i \in DOMAIN s.wildcard[o] : MatchWildcard(s, s.wildcard[o][i], p)}

LookUp(s, m, p) ==
    LET ps == {i \in DOMAIN s.param[m] : MatchParamPath(PathOf(s, s.param[m][i]), p)}
        ws == {i \in DOMAIN s.wildcard[m] : MatchWildcard(s, s.wildcard[m][i], p)}
    IN IF <<m, p>> \in s.hash THEN Hit("static", s.static[<<m, p>>])
       ELSE IF <<m, p>> \in DOMAIN s.static THEN Hit("static", s.static[<<m, p>>])
       ELSE IF ps # {} THEN Hit("param", s.param[m][First(ps)])
       ELSE IF ws # {} THEN Hit("wildcard", s.wildcard[m][First(ws)])
       ELSE [None EXCEPT !.allow = AllowedMethods(s, m, p)]

\* The depth is counted before escapes are decoded.
ResolveRoute(s, m, raw) ==
    IF Len(SelectSeq(raw, LAMBDA c : c = "/")) > MaxSegments THEN [None EXCEPT !.kind = "deep"]
    ELSE LookUp(s, m, UrlDecode(raw))

\* dispatchResolved(): a handler, 400, 405 with Allow, or 404.
Dispatch(s, m, raw) ==
    LET v == ResolveRoute(s, m, raw)
    IN IF v.kind = "deep" THEN <<400, {}>> ELSE IF v.entry # 0 THEN <<200, {v.entry}>>
       ELSE IF v.allow # {} THEN <<405, v.allow>> ELSE <<404, {}>>

\* findWsRoute() and findSseRoute(), over patterns in order of registration: an exact
\* route before a parameter route, and no decoding.
FindPushRoute(ps, path) ==
    LET exact == {i \in DOMAIN ps : ~IsParamRoute(ps[i]) /\ ps[i] = path}
        param == {i \in DOMAIN ps : IsParamRoute(ps[i]) /\ MatchParamPath(ps[i], path)}
    IN IF exact # {} THEN First(exact) ELSE IF param # {} THEN First(param) ELSE 0

-----------------------------------------------------------------------------
Init ==
    r = [log |-> <<>>, static |-> <<>>, methods |-> {}, hash |-> {}, index |-> {}, push |-> <<>>,
         param |-> [m \in Methods |-> <<>>], wildcard |-> [m \in Methods |-> <<>>],
         joined |-> <<<<>>, <<>>>>]

Room(n) == Len(r.log) + Len(r.push) + n <= MaxRoutes

\* RouteGroup::route(): the group's prefix goes in front.
AddRoute ==
    /\ Room(1)
    /\ \E m \in Methods, pre \in GroupPrefixes, p \in Patterns :
          r' = [Route(r, m, JoinPath(pre, p)) EXCEPT !.joined = <<pre, p>>]

AddHandler ==
    \E n \in {1, 2} : /\ Room(n)
                      /\ \E table \in [1..n -> Methods \X Patterns] : r' = RegisterRoutes(r, table)

\* ws() and sse().
AddPushRoute == /\ Room(1) /\ \E p \in Patterns : r' = [r EXCEPT !.push = Append(@, p)]

Next == AddRoute \/ AddHandler \/ AddPushRoute

-----------------------------------------------------------------------------
TypeOK ==
    /\ DOMAIN r.static \subseteq Methods \X Seq({"/", "a", "b", "*"}) /\ r.hash \subseteq DOMAIN r.static
    /\ \A m \in Methods : ToSet(r.param[m]) \cup ToSet(r.wildcard[m]) \subseteq DOMAIN r.log

\* The segments of a path, without a last empty one.
Segments(p) ==
    LET d == DropSlash(p)
        ends == {i \in 1..(Len(d) + 1) : i = Len(d) + 1 \/ d[i] = "/"}
        cut == [n \in 1..Cardinality(ends) |-> CHOOSE i \in ends : Cardinality({j \in ends : j < i}) = n - 1]
        segs == [n \in DOMAIN cut |-> SubSeq(d, IF n = 1 THEN 1 ELSE cut[n - 1] + 1, cut[n] - 1)]
    IN IF Last(segs) = <<>> THEN Front(segs) ELSE segs

\* What a registered pattern means, said once for a whole path.
Matches(pat, p) ==
    IF IsWildcardRoute(pat) THEN IsPrefix(WildPrefix(pat), p)
    ELSE IF ~IsParamRoute(pat) THEN pat = p
    ELSE LET s == Segments(pat) t == Segments(p)
         IN Len(s) = Len(t) /\ Len(s) <= MaxSegments
            /\ \A i \in DOMAIN s : s[i] = <<"{}">> \/ s[i] = t[i]

Rank(pat) == IF IsWildcardRoute(pat) THEN 3 ELSE IF IsParamRoute(pat) THEN 2 ELSE 1

Deep(raw) == Cardinality(At(raw, "/")) > MaxSegments
Fits(m, p) == {n \in DOMAIN r.log : r.log[n].method = m /\ Matches(r.log[n].path, p)}

\* A request is given to the best route that matches it: a static route before a
\* parameter route before a wildcard, the last registered of equal static routes and the
\* first registered otherwise, whichever tables and hashes stand in between.
BestRouteAnswers ==
    \A m \in Methods, raw \in Paths :
        LET fits == Fits(m, UrlDecode(raw))
            best == {n \in fits : \A o \in fits : Rank(r.log[n].path) <= Rank(r.log[o].path)}
            d == Dispatch(r, m, raw)
        IN ~Deep(raw) /\ fits # {} =>
              d = <<200, {IF Rank(r.log[First(best)].path) = 1
                          THEN CHOOSE n \in best : \A o \in best : o <= n ELSE First(best)}>>

\* A path no route of the method matches is 405 exactly when another method has it, and
\* Allow lists those methods: the index by first segment hides none of them.
AllowIsExact ==
    \A m \in Methods, raw \in Paths :
        LET allow == {o \in Methods \ {m} : Fits(o, UrlDecode(raw)) # {}}
        IN ~Deep(raw) /\ Fits(m, UrlDecode(raw)) = {} =>
              Dispatch(r, m, raw) = IF allow = {} THEN <<404, {}>> ELSE <<405, allow>>

\* A WebSocket or SSE path is given to the route registered for exactly it, and without
\* one to the first parameter route whose segments match.
PushRouteIsBest ==
    \A p \in Paths :
        LET fits == {i \in DOMAIN r.push : ~IsWildcardRoute(r.push[i]) /\ Matches(r.push[i], p)}
            best == {i \in fits : \A j \in fits : Rank(r.push[i]) <= Rank(r.push[j])}
            n == FindPushRoute(r.push, p)
        IN n = IF fits = {} THEN 0 ELSE First(best)

\* A group's prefix and a route's path are joined segment to segment.
JoinKeepsSegments ==
    LET pre == r.joined[1] p == r.joined[2]
    IN ~IsWildcardRoute(p) => Segments(JoinPath(pre, p)) = Segments(pre) \o Segments(p)
=============================================================================
