---------------------------- MODULE Http2Headers ----------------------------
(***************************************************************************)
(* The header block of an HTTP/2 message (core/http2/Http2Headers.cpp):    *)
(* fields are appended one by one as they are decoded, checked on the way, *)
(* and sealed into the view the request or response is made from.          *)
(*                                                                         *)
(* A field has a name, a value and, for an authority, a port that is 0     *)
(* when there is none.  "bad" is a value with bytes no such field may have. *)
(***************************************************************************)
EXTENDS Integers, Sequences, FiniteSets, SequencesExt

CONSTANTS
    Fields,       \* the fields that arrive
    MaxFields,    \* maxHeaderFields, at most kMaxHeaderFields
    MaxBytes,     \* maxHeaderBytes, in the sizes of SizeOf
    Longest       \* fields of a block

VARIABLE s

None == "none"
Absent == [name |-> "", v |-> "none", port |-> 0]
Pseudo == {":method", ":scheme", ":authority", ":path", ":status"}
ConnectionFields == {"connection", "transfer-encoding", "upgrade"}
ForbiddenTrailers == {"content-length", "host", "te", "cookie", "if-match"}

SizeOf(f) == IF f.name = "cookie" THEN 2 ELSE 1

-----------------------------------------------------------------------------
FindEntry(b, name) == SelectInSeq(b.entries, LAMBDA f : f.name = name)
Has(b, name) == FindEntry(b, name) # 0
Entry(b, name) == IF Has(b, name) THEN b.entries[FindEntry(b, name)] ELSE Absent
Fail(b, kind) == IF b.error = None THEN [b EXCEPT !.error = kind] ELSE b

PortOf(a, scheme) == IF a.port # 0 THEN a.port ELSE IF scheme = "https" THEN 443 ELSE IF scheme = "http" THEN 80 ELSE 0

SameAuthority(x, y, scheme) == x.v = y.v /\ PortOf(x, scheme) = PortOf(y, scheme)

\* May the pseudo-header be appended?
ValidatePseudo(b, f) ==
    /\ ~b.regularSeen /\ b.kind # "trailers" /\ ~Has(b, f.name)
    /\ IF b.kind = "response" THEN f.name = ":status" /\ f.v # "101" ELSE f.name # ":status"
    /\ f.v # "bad"

\* May the other field be appended?
ValidateRegular(b, f) ==
    /\ f.name \notin ConnectionFields
    /\ b.kind = "trailers" => f.name \notin ForbiddenTrailers
    /\ f.name = "te" => b.kind = "request" /\ f.v = "trailers"
    /\ f.name = "content-length" => ~Has(b, f.name)
    /\ f.name = "host" /\ b.kind = "request" => ~Has(b, f.name)
    /\ f.v # "bad"

AppendField(b, f) ==
    IF b.sealed \/ b.error # None THEN b
    ELSE IF b.fields >= MaxFields \/ SizeOf(f) > MaxBytes - b.bytes THEN Fail(b, "resource")
    ELSE IF ~(IF f.name \in Pseudo THEN ValidatePseudo(b, f) ELSE ValidateRegular(b, f)) THEN Fail(b, "protocol")
    ELSE [b EXCEPT !.entries = Append(@, f), !.fields = @ + 1, !.bytes = @ + SizeOf(f),
                   !.regularSeen = @ \/ f.name \notin Pseudo]

\* validateComplete(): what only the whole block shows.
Complete(b) ==
    LET method == Entry(b, ":method").v
        scheme == Entry(b, ":scheme").v
        path == Entry(b, ":path").v
        authority == Entry(b, ":authority")
        host == Entry(b, "host")
    IN CASE b.kind = "trailers" -> TRUE
         [] b.kind = "response" -> Has(b, ":status") /\ ~(Entry(b, ":status").v = "103" /\ Has(b, "content-length"))
         [] b.kind = "request" ->
              /\ method # None
              /\ IF method = "CONNECT" THEN authority.port # 0 /\ scheme = None /\ path = None
                 ELSE /\ scheme # None /\ path # None
                      /\ scheme \in {"http", "https"} =>
                            /\ authority # Absent \/ host # Absent
                            /\ path = "/" \/ (method = "OPTIONS" /\ path = "*")
              /\ authority # Absent /\ host # Absent => SameAuthority(authority, host, scheme)

\* Several cookie fields of a request become one, at the place of the first.
Named(n, v, port) == [name |-> n, v |-> v, port |-> port]
Cookies(b) == SelectSeq(b.entries, LAMBDA f : f.name = "cookie")
CombineCookies(b) ==
    LET first == FindEntry(b, "cookie")
        value == [i \in DOMAIN Cookies(b) |-> Cookies(b)[i].v]
        kept(i) == i = first \/ b.entries[i].name # "cookie"
        merged == [i \in DOMAIN b.entries |-> IF i = first THEN Named("cookie", value, 0) ELSE b.entries[i]]
    IN IF b.kind # "request" \/ Len(Cookies(b)) < 2 THEN b
       ELSE [b EXCEPT !.entries = [i \in 1..(Len(merged) - Len(value) + 1) |->
                 merged[CHOOSE k \in DOMAIN merged : kept(k) /\ Cardinality({m \in 1..k : kept(m)}) = i]]]

\* The view: the other fields, with the authority for Host.
Seal(b) ==
    IF b.error # None \/ b.sealed THEN b
    ELSE IF ~Complete(b) THEN Fail(b, "protocol")
    ELSE LET c == CombineCookies(b)
             authority == [Entry(c, ":authority") EXCEPT !.name = "host"]
             given == c.kind = "request" /\ Has(c, ":authority")
             others == SelectSeq(c.entries, LAMBDA f : f.name \notin Pseudo)
             named == [i \in DOMAIN others |->
                          IF given /\ others[i].name = "host" THEN authority ELSE others[i]]
         IN [c EXCEPT !.sealed = TRUE,
                      !.view = IF given /\ ~Has(c, "host") THEN Append(named, authority) ELSE named]

-----------------------------------------------------------------------------
Block(kind) == [kind |-> kind, entries |-> <<>>, fields |-> 0, bytes |-> 0, regularSeen |-> FALSE,
                error |-> None, sealed |-> FALSE, view |-> <<>>, got |-> <<>>, ended |-> FALSE]

Init == \E kind \in {"request", "response", "trailers"} : s = Block(kind)

\* The codec reports a field.
Field ==
    /\ Len(s.got) < Longest /\ ~s.ended /\ s.error = None
    /\ \E f \in Fields : s' = AppendField([s EXCEPT !.got = Append(@, f)], f)

EndHeaders == ~s.ended /\ s.error = None /\ s' = [Seal(s) EXCEPT !.ended = TRUE]

Next == Field \/ EndHeaders

-----------------------------------------------------------------------------
TypeOK == s.error \in {None, "protocol", "resource"} /\ Len(s.entries) <= s.fields

\* What RFC 9113 asks of a block: the rules no further field can mend, and the whole.
With(name) == {i \in DOMAIN s.got : s.got[i].name = name}
Given(name) == With(name) # {}
The(name) == s.got[CHOOSE i \in With(name) : TRUE]
Allowed ==
    LET pseudo == {i \in DOMAIN s.got : s.got[i].name \in Pseudo}
        mine == CASE s.kind = "request" -> Pseudo \ {":status"}
                  [] s.kind = "response" -> {":status"}
                  [] s.kind = "trailers" -> {}
        once == Pseudo \cup {"content-length"} \cup IF s.kind = "request" THEN {"host"} ELSE {}
    IN /\ \A i \in DOMAIN s.got : s.got[i].v # "bad" /\ (i \in pseudo => s.got[i].name \in mine)
       /\ \A i \in pseudo, k \in DOMAIN s.got : k < i => k \in pseudo
       /\ \A n \in once : Cardinality(With(n)) <= 1
       /\ \A n \in ConnectionFields : ~Given(n)
       /\ Given("te") => s.kind = "request"
       /\ s.kind = "trailers" => \A n \in ForbiddenTrailers : ~Given(n)
       /\ s.kind = "response" /\ Given(":status") => The(":status").v # "101"

Whole ==
    /\ s.kind = "response" => Given(":status") /\ (The(":status").v = "103" => ~Given("content-length"))
    /\ s.kind = "request" =>
          LET scheme == IF Given(":scheme") THEN The(":scheme").v ELSE None
          IN /\ Given(":method")
             /\ Given("host") /\ Given(":authority") =>
                   /\ The("host").v = The(":authority").v
                   /\ PortOf(The("host"), scheme) = PortOf(The(":authority"), scheme)
             /\ IF The(":method").v = "CONNECT"
                THEN ~Given(":scheme") /\ ~Given(":path") /\ Given(":authority") /\ The(":authority").port # 0
                ELSE /\ Given(":scheme") /\ Given(":path")
                     /\ scheme \in {"http", "https"} =>
                           /\ Given("host") \/ Given(":authority")
                           /\ The(":path").v = "/" \/ (The(":path").v = "*" /\ The(":method").v = "OPTIONS")

\* A block is sealed exactly when it is well-formed, though its fields are checked as they
\* come: an early refusal is of a field nothing could mend, and a late one of what is missing
\* or contradictory in the whole block.
SealedIfWellFormed ==
    /\ s.sealed => Allowed /\ Whole
    /\ s.error = "protocol" => IF s.ended THEN ~Whole ELSE ~Allowed

\* The view has one Host, the authority when there is one, every other field as often and
\* in the order it came, and the cookies of a request in one field; it fits its array.
ViewFaithful ==
    s.sealed =>
        LET plain(q) == SelectSeq(q, LAMBDA f : f.name \notin Pseudo \cup {"host", "cookie"})
            cookies(q) == SelectSeq(q, LAMBDA f : f.name = "cookie")
            hosts == SelectSeq(s.view, LAMBDA f : f.name = "host")
        IN /\ plain(s.view) = plain(s.got) /\ Len(s.view) <= MaxFields
           /\ s.kind = "request" =>
                 /\ Len(hosts) <= 1
                 /\ Given(":authority") => hosts = <<[The(":authority") EXCEPT !.name = "host"]>>
                 /\ Len(cookies(s.got)) > 1 =>
                       cookies(s.view) = <<Named("cookie", [i \in DOMAIN cookies(s.got) |-> cookies(s.got)[i].v], 0)>>
=============================================================================
