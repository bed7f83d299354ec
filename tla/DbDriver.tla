------------------------------ MODULE DbDriver ------------------------------
(***************************************************************************)
(* One database connection (MysqlConnection.cpp, PgsqlConnection.cpp) with *)
(* its cache of prepared statements (StmtCache.cpp, PgStmtCache.cpp) and   *)
(* the server behind it.  A call is a chain of exchanges with the server:  *)
(* prepare, close what the cache threw out (MySQL), execute, and after any *)
(* failure once more with a fresh statement.  The server may refuse a      *)
(* statement, forget it, or go away before or after it did its work.       *)
(* The connection is leased to one coroutine at a time.                    *)
(***************************************************************************)
EXTENDS Naturals, Sequences, FiniteSets, SequencesExt, TLC

CONSTANTS
    Sqls,       \* statement texts
    CacheSize,  \* stmtCacheSize
    MaxCalls    \* bound on the calls made

VARIABLE v

NoCall == [pc |-> "idle", sql |-> "", st |-> 0, first |-> TRUE, n |-> 0]

\* cache: most recently used first.  srv: the statements the server holds;
\* made: how many it was asked for; stx: the server's transaction (none, open
\* or, PostgreSQL, failed).  The work of call n is pending in the transaction
\* or done; told: the calls that returned without an error.
Init ==
    \E be \in {"mysql", "pgsql"} :
      v = [be |-> be, up |-> TRUE, alive |-> TRUE, cache |-> <<>>, srv |-> {}, made |-> 0, lost |-> {}, tx |-> FALSE,
           stx |-> "none", call |-> NoCall, calls |-> 0, pending |-> <<>>, done |-> <<>>, undone |-> {}, told |-> {}]

-----------------------------------------------------------------------------
(* The statement caches.                                                   *)

\* find() moves a hit to the front.
Find(c, sql) == {i \in DOMAIN c.cache : c.cache[i].sql = sql}
Promote(s, i) == <<s[i]>> \o RemoveAt(s, i)

\* insert(): what the caller has to close, as a set, and the new cache.
insert(c, sql, st) ==
    LET e == <<[sql |-> sql, st |-> st]>>
        old == SelectSeq(c.cache, LAMBDA x : x.sql # sql)
        full == Find(c, sql) = {} /\ Len(c.cache) >= CacheSize
    IN IF CacheSize = 0 THEN [out |-> {st}, cache |-> <<>>]
       ELSE IF full THEN [out |-> {Last(old).st}, cache |-> e \o Front(old)]
       ELSE [out |-> {}, cache |-> e \o old]

erase(c, sql) == [c EXCEPT !.cache = SelectSeq(@, LAMBDA e : e.sql # sql)]

-----------------------------------------------------------------------------
(* A parameterised query, exchange by exchange.                            *)

\* getOrPrepare(): a hit goes straight to the execution.
getOrPrepare(c) ==
    LET hit == Find(c, c.call.sql)
    IN IF hit # {} THEN LET i == CHOOSE i \in hit : TRUE
                        IN [c EXCEPT !.cache = Promote(@, i), !.call.st = c.cache[i].st, !.call.pc = "execute"]
       ELSE [c EXCEPT !.call.pc = "prepare"]

query(sql) ==
    /\ v.call.pc = "idle" /\ v.calls < MaxCalls
    /\ v' = getOrPrepare([v EXCEPT !.calls = @ + 1, !.call = [NoCall EXCEPT !.sql = sql, !.n = v.calls + 1]])

Return(c, ok) ==
    [c EXCEPT !.call = NoCall, !.told = IF ok THEN @ \cup {c.call.n} ELSE @]

\* A failed exchange: the first execution is tried again from a fresh
\* statement, anything else is thrown at the caller.
Fail(c) ==
    IF c.call.pc = "execute" /\ c.call.first
    THEN LET d == [erase(c, c.call.sql) EXCEPT !.call.first = FALSE]
         IN IF c.be = "mysql" THEN [d EXCEPT !.call.pc = "prepare"] ELSE getOrPrepare(d)
    ELSE Return(c, FALSE)

\* What the cache throws out is closed on the server (MySQL only), and
\* closing cannot fail the call.
CloseEvicted(c, out) == IF c.be = "mysql" THEN [c EXCEPT !.srv = @ \ out] ELSE c

\* After a prepare MySQL caches at once in the first attempt and after the
\* execution in the second; libpq always caches at once.
Prepared(c) ==
    LET st == c.made + 1
        d == [c EXCEPT !.made = st, !.srv = @ \cup {st}, !.call.st = st, !.call.pc = "execute"]
        r == insert(d, c.call.sql, st)
    IN IF c.be = "mysql" /\ ~c.call.first THEN d
       ELSE CloseEvicted([d EXCEPT !.cache = r.cache], r.out)

\* The work is done: pending in an open transaction, for good outside one.
Apply(c) ==
    IF c.stx = "open" THEN [c EXCEPT !.pending = Append(@, c.call.n)] ELSE [c EXCEPT !.done = Append(@, c.call.n)]

Executed(c) ==
    LET r == insert(c, c.call.sql, c.call.st)
        d == IF c.be = "mysql" /\ ~c.call.first
             THEN CloseEvicted([c EXCEPT !.cache = r.cache], r.out) ELSE c
    IN Return(d, TRUE)

\* The server refuses: always while its transaction has failed, always a
\* statement it does not hold; a refusal fails a PostgreSQL transaction.
Refused(c) == Fail([c EXCEPT !.stx = IF c.be = "pgsql" /\ @ = "open" THEN "failed" ELSE @])

Prepare ==
    /\ v.up /\ v.call.pc = "prepare"
    /\ \/ v.stx # "failed" /\ v' = Prepared(v)
       \/ v' = Refused(v)

Execute ==
    /\ v.up /\ v.call.pc = "execute"
    /\ \/ v.stx # "failed" /\ v.call.st \in v.srv /\ v' = Executed(Apply(v))
       \/ v' = Refused(v)

\* The connection breaks, before or after an execution or a COMMIT took
\* effect; the server rolls an open transaction back.
Breaks ==
    /\ v.up
    /\ \E after \in {FALSE, v.call.pc = "execute" /\ v.stx = "none" /\ v.call.st \in v.srv} :
         LET c == IF after THEN Apply(v) ELSE v
         IN v' = [c EXCEPT !.up = FALSE, !.srv = {}, !.stx = "none", !.undone = @ \cup ToSet(v.pending), !.pending = <<>>]

\* An exchange on a broken connection can only fail.
Broken == ~v.up /\ v.call.pc \in {"prepare", "execute"} /\ v' = Fail(v)

\* The server forgets a statement (its own limits, a change of schema).
Forgets == v.up /\ \E s \in v.srv : v' = [v EXCEPT !.srv = @ \ {s}, !.lost = @ \cup {s}]

-----------------------------------------------------------------------------
(* Transactions, and the ping of the pool.                                 *)

\* query(sql): a command is sent, flushed and answered; one that fails throws
\* and changes nothing here.
Command == v.call.pc = "idle" /\ v.up

beginTransaction ==
    /\ Command /\ ~v.tx
    /\ v' = [v EXCEPT !.stx = "open", !.tx = TRUE]

\* COMMIT of a failed PostgreSQL transaction succeeds and rolls it back.
\* When it breaks off the server may have committed or not.
Committed(c) ==
    [c EXCEPT !.stx = "none", !.pending = <<>>, !.done = IF c.stx = "open" THEN @ \o c.pending ELSE @,
              !.undone = IF c.stx = "open" THEN @ ELSE @ \cup ToSet(c.pending)]

commit ==
    /\ Command /\ v.tx
    /\ \/ v' = [Committed(v) EXCEPT !.tx = FALSE]
       \/ v' = [Committed(v) EXCEPT !.up = FALSE, !.srv = {}]

rollback ==
    /\ Command /\ v.tx
    /\ v' = [v EXCEPT !.tx = FALSE, !.stx = "none", !.undone = @ \cup ToSet(v.pending), !.pending = <<>>]

ping == v.call.pc = "idle" /\ v.alive # v.up /\ v' = [v EXCEPT !.alive = v.up]

Next ==
    \/ Prepare \/ Execute \/ Breaks \/ Broken \/ Forgets \/ beginTransaction \/ commit \/ rollback \/ ping
    \/ \E sql \in Sqls : query(sql)

-----------------------------------------------------------------------------
TypeOK ==
    /\ v.up \in BOOLEAN /\ v.tx \in BOOLEAN /\ v.stx \in {"none", "open", "failed"}
    /\ v.call.pc \in {"idle", "prepare", "execute"} /\ v.told \subseteq 1..MaxCalls
    /\ Len(v.cache) <= CacheSize

\* The retry never does a call's work twice, whether the first attempt failed
\* on a stale statement, was refused or broke off after the server had done
\* it (query).
AppliedAtMostOnce == IsInjective(v.done \o v.pending)

\* A call that returned did its work: it is done, waits in the transaction,
\* or went with one that was rolled back.
ToldIsDone == v.told \subseteq ToSet(v.done) \cup ToSet(v.pending) \cup v.undone

\* A cached statement is one the server holds, unless it forgot it or is
\* gone: a statement is never closed while the cache still gives it out, and
\* no text has two entries (insert, getOrPrepare).
CacheFresh ==
    /\ v.up => \A i \in DOMAIN v.cache : v.cache[i].st \in v.srv \cup v.lost
    /\ IsInjective([i \in DOMAIN v.cache |-> v.cache[i].sql])

\* inTransaction() does not miss one: while the connection works and the
\* server is in a transaction the driver says so, which is what the pool
\* relies on to roll back before it hands the connection on (commit, rollback).
TransactionKnown == v.up /\ v.stx # "none" => v.tx
=============================================================================
