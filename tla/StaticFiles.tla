----------------------------- MODULE StaticFiles -----------------------------
(***************************************************************************)
(* serveStatic() and the two caches one thread keeps for it                *)
(* (core/StaticFiles.h): canonical paths, and the bodies and ETags of      *)
(* small text files.  Each cache is a list, the most recently used first,  *)
(* and an index of list nodes by key.  A file may change or disappear      *)
(* between any two steps of a request; with asynchronous file reads        *)
(* (BOOST_ASIO_HAS_FILE) the requests of the thread interleave at the      *)
(* read, otherwise a request runs to its end.                              *)
(*                                                                         *)
(* The contents of a file are its version; an ETag is its size and its     *)
(* modification time, which is the version too.  Every path names a file    *)
(* under the root directory.                                               *)
(***************************************************************************)
EXTENDS Integers, Sequences, FiniteSets, SequencesExt

CONSTANTS
    Text, Binary,   \* files, by the kind their extension gives them
    NTasks,         \* requests of the thread at a time
    MaxNodes,       \* kMaxEntries of either cache is in 1..MaxNodes
    PathTtl, Ttl,   \* kTtl of the path cache and of the content cache, in ticks
    MaxCached,      \* kMaxFileSize of the content cache, and kInlineThreshold of a range
    MaxFile,        \* maxFileSize given to serveStatic()
    MaxSize,        \* sizes are 0..MaxSize
    MaxChanges, MaxTime, MaxRequests

VARIABLE c

Files == Text \cup Binary
None == -1
Tasks == 1..NTasks

-----------------------------------------------------------------------------
(* parseByteRange(): the numbers are those from_chars finds.  Missing and   *)
(* Bad are an empty and an unreadable one; a header with several ranges, or *)
(* with an If-Range of other contents, is Ignored.                          *)

Missing == -8
Bad == -9
Ignored == <<-7, -7>>
NoRange == [kind |-> "invalid"]

RangeOf(s, e, size) ==
    LET end == IF e >= size THEN size - 1 ELSE e
    IN IF s < 0 \/ s > end \/ s >= size THEN NoRange ELSE [kind |-> "range", s |-> s, e |-> end]

ParseByteRange(spec, size) ==
    LET f == spec[1] l == spec[2]
    IN IF Bad \in {f, l} \/ (f = Missing /\ l <= 0) THEN NoRange
       ELSE IF f = Missing THEN RangeOf(IF l >= size THEN 0 ELSE size - l, size - 1, size)
       ELSE RangeOf(f, IF l = Missing THEN size - 1 ELSE l, size)

RangeSpecs == ({Missing, Bad} \cup 0..(MaxSize + 1)) \X ({Missing, Bad} \cup (-1)..(MaxSize + 1))

-----------------------------------------------------------------------------
(* A cache: its list of nodes and its index from keys to node ids.          *)

Cache(n) == [max |-> n, list |-> <<>>, index |-> <<>>]
NodeOf(ch, key) == ch.list[CHOOSE i \in DOMAIN ch.list : ch.list[i].id = ch.index[key]]
Has(ch, key) == key \in DOMAIN ch.index
Unindex(ch, key) == [ch EXCEPT !.index = [k \in DOMAIN @ \ {key} |-> @[k]]]
Unlist(ch, id) == [ch EXCEPT !.list = SelectSeq(@, LAMBDA n : n.id # id)]

\* splice(): the node goes to the front.
Touch(ch, key) ==
    [ch EXCEPT !.list = <<NodeOf(ch, key)>> \o SelectSeq(@, LAMBDA n : n.id # ch.index[key])]

\* The victim is the last node, and its key leaves the index; emplace() keeps the node an
\* index entry already has.
EvictNodeOnly(ch) ==
    IF Cardinality(DOMAIN ch.index) < ch.max THEN ch ELSE [ch EXCEPT !.list = Front(@)]

Evict(ch) ==
    IF Cardinality(DOMAIN ch.index) < ch.max THEN ch
    ELSE [Unindex(ch, Last(ch.list).key) EXCEPT !.list = Front(@)]

Insert(ch, node) ==
    LET e == Evict(ch)
    IN [e EXCEPT !.list = <<node>> \o @, !.index = @ @@ (node.key :> node.id)]

-----------------------------------------------------------------------------
(* The request.                                                             *)

File(s, f) == s.file[f]
Etag(s, f) == <<File(s, f).size, File(s, f).v>>

\* What a response says, for the properties: the contents it carries and their ETag, and
\* for a 304 the ETag it confirms.
Reply(s, t, status, f, v, etag) ==
    [s EXCEPT !.task[t] = <<>>,
              !.sent = IF status = 200 THEN @ \cup {<<f, v, etag>>} ELSE @,
              !.reply = [status |-> status, file |-> f, v |-> v, etag |-> etag]]
Refuse(s, t, status, f) == Reply(s, t, status, f, None, <<>>)

FindPath(s, f) ==
    IF Has(s.paths, f) /\ s.now - NodeOf(s.paths, f).at < PathTtl
    THEN [s EXCEPT !.paths = Touch(@, f)]
    ELSE [s EXCEPT !.paths = Insert(@, [id |-> s.ids, key |-> f, at |-> s.now]), !.ids = @ + 1]

KnownPath(s, f) == Has(s.paths, f) /\ s.now - NodeOf(s.paths, f).at < PathTtl

\* A cached body is trusted for kTtl, then as long as the file's time is the cached one.
ContentUsable(s, f) ==
    /\ Has(s.contents, f)
    /\ \/ s.now - NodeOf(s.contents, f).at < Ttl
       \/ File(s, f).v = NodeOf(s.contents, f).mtime

\* An expired body of a changed file leaves list and index.
Revalidate(s, f) ==
    IF ~Has(s.contents, f) THEN s
    ELSE IF ContentUsable(s, f)
    THEN [s EXCEPT !.contents = Touch([@ EXCEPT !.list =
             [i \in DOMAIN @ |-> IF @[i].id = s.contents.index[f] /\ s.now - @[i].at >= Ttl
                                 THEN [@[i] EXCEPT !.at = s.now] ELSE @[i]]], f)]
    ELSE [s EXCEPT !.contents = Unindex(Unlist(@, @.index[f]), f)]

FromCache(s, t, f, ifNoneMatch) ==
    LET n == NodeOf(s.contents, f)
    IN Reply(s, t, IF ifNoneMatch = n.etag THEN 304 ELSE 200, f, n.v, n.etag)

\* file_size() and last_write_time(), then 304, the range, a file body, or a read.
FromFile(s, t, f, ifNoneMatch, range) ==
    LET size == File(s, f).size
        read == [s EXCEPT !.task[t] = [file |-> f, size |-> size, mtime |-> File(s, f).v,
                                       etag |-> Etag(s, f), range |-> range]]
    IN IF size > MaxFile THEN Refuse(s, t, 413, f)
       ELSE IF ifNoneMatch = Etag(s, f) THEN Reply(s, t, 304, f, None, Etag(s, f))
       ELSE IF range \notin {<<>>, Ignored}
       THEN LET r == ParseByteRange(range, size)
            IN IF r = NoRange THEN Refuse(s, t, 416, f)
               ELSE IF r.e - r.s >= MaxCached THEN Reply(s, t, 206, f, File(s, f).v, Etag(s, f))
               ELSE read
       ELSE IF f \in Binary THEN Reply(s, t, 200, f, File(s, f).v, Etag(s, f))
       ELSE read

Serve(s, t, f, ifNoneMatch, range) ==
    IF ~KnownPath(s, f) /\ ~File(s, f).there THEN Refuse(s, t, 404, f)
    ELSE LET p == FindPath(s, f)
             q == Revalidate(p, f)
         IN IF ~File(s, f).there THEN Refuse(p, t, 404, f)
            ELSE IF f \in Text /\ range = <<>>
            THEN IF Has(q.contents, f) THEN FromCache(q, t, f, ifNoneMatch)
                 ELSE FromFile(q, t, f, ifNoneMatch, range)
            ELSE FromFile(p, t, f, ifNoneMatch, range)

\* The body has been read, from the open file if it is gone by now.  A short read is an
\* exception of an asynchronous file and a shorter body of a stream; nothing at all is 500.
Loaded(s, t) ==
    LET k == s.task[t]
        f == k.file
        now == File(s, f)
        v == IF now.there THEN now.v ELSE k.mtime
        got == IF now.there /\ now.size < k.size THEN now.size
               ELSE IF now.there \/ s.async THEN k.size ELSE 0
        node == [id |-> s.ids, key |-> f, at |-> s.now, v |-> v, etag |-> k.etag, mtime |-> k.mtime]
    IN IF s.async /\ got < k.size THEN Refuse(s, t, 500, f)
       ELSE IF k.range \notin {<<>>, Ignored} THEN Reply(s, t, 206, f, v, k.etag)
       ELSE IF got = 0 THEN Refuse(s, t, 500, f)
       ELSE Reply(IF k.size > MaxCached THEN s
                  ELSE [s EXCEPT !.contents = Insert(@, node), !.ids = @ + 1], t, 200, f, v, k.etag)

-----------------------------------------------------------------------------
Init ==
    \E async \in BOOLEAN, n \in 1..MaxNodes :
        c = [async |-> async, now |-> 0, ids |-> 1, asked |-> 0, changes |-> 0, paths |-> Cache(n), contents |-> Cache(n),
             file |-> [f \in Files |-> [v |-> 1, size |-> 1, there |-> TRUE]],
             gone |-> [f \in Files |-> [v \in 1..(MaxChanges + 1) |-> None]],
             task |-> [t \in Tasks |-> <<>>], sent |-> {}, reply |-> <<>>]

Busy == {t \in Tasks : c.task[t] # <<>>}

\* A client asks for a file, for a range of it, or whether the contents it got have changed.
\* A task is only a name: the first free one is taken.
Request(t) ==
    /\ c.asked < MaxRequests /\ (c.async \/ Busy = {})
    /\ c.task[t] = <<>> /\ 1..(t - 1) \subseteq Busy
    /\ \E f \in Files, range \in {<<>>, <<0, 0>>, <<0, Missing>>, Ignored} :
       \E ifNoneMatch \in {<<>>} \cup {x[3] : x \in {y \in c.sent : y[1] = f}} :
          c' = Serve([c EXCEPT !.asked = @ + 1, !.reply = <<>>], t, f, ifNoneMatch, range)

Resume(t) == /\ c.task[t] # <<>> /\ c' = Loaded([c EXCEPT !.reply = <<>>], t)

\* Somebody writes, truncates or removes a file.
Modify ==
    \E f \in Files, size \in 0..MaxSize, there \in BOOLEAN :
        /\ c.changes < MaxChanges /\ (there \/ size = 0)
        /\ c' = [c EXCEPT !.file[f] = [v |-> @.v + 1, size |-> size, there |-> there],
                          !.gone[f][c.file[f].v] = c.now, !.changes = @ + 1, !.reply = <<>>]

\* A read is short beside the times-to-live.
Tick == /\ c.now < MaxTime /\ Busy = {} /\ c' = [c EXCEPT !.now = @ + 1, !.reply = <<>>]

Next == Modify \/ Tick \/ \E t \in Tasks : Request(t) \/ Resume(t)

-----------------------------------------------------------------------------
TypeOK ==
    /\ c.now \in 0..MaxTime /\ c.async \in BOOLEAN
    /\ \A f \in Files : c.file[f].v \in 1..(MaxChanges + 1) /\ c.file[f].size \in 0..MaxSize

\* An index entry points to a node of its list with its key: no iterator of an evicted or
\* erased node is left behind, in spite of nodes that share a key.
IndexSound ==
    \A ch \in {c.paths, c.contents} : \A k \in DOMAIN ch.index :
        \E i \in DOMAIN ch.list : ch.list[i].id = ch.index[k] /\ ch.list[i].key = k

\* Contents go out at most kTtl after they stopped being the file's.
FreshWithinTtl ==
    c.reply # <<>> /\ c.reply.status \in {200, 206} =>
        LET gone == c.gone[c.reply.file][c.reply.v] IN gone = None \/ c.now - gone <= Ttl

\* "Not modified" is said to a client whose copy was the file's contents at most kTtl ago.
NotModifiedIsTrue ==
    c.reply # <<>> /\ c.reply.status = 304 =>
        \A x \in c.sent : x[1] = c.reply.file /\ x[3] = c.reply.etag =>
            LET gone == c.gone[x[1]][x[2]] IN gone = None \/ c.now - gone <= Ttl

\* A range is the one the header asks for: the last n bytes, or first to last clipped to
\* the file; it is refused when it has no byte of the file.
RangeExact ==
    \A spec \in RangeSpecs, size \in 0..MaxSize :
        LET r == ParseByteRange(spec, size)
            asked == IF spec[1] = Missing THEN {i \in 0..(size - 1) : size - i <= spec[2]}
                     ELSE {i \in 0..(size - 1) : i >= spec[1] /\ (spec[2] = Missing \/ i <= spec[2])}
        IN Bad \notin {spec[1], spec[2]} /\ spec # <<Missing, Missing>> =>
              IF asked = {} THEN r = NoRange ELSE r.kind = "range" /\ r.s..r.e = asked
=============================================================================
