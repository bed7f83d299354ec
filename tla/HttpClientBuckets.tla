--------------------------- MODULE HttpClientBuckets ----------------------------
(* The HTTP/1 side of HttpClientPool, for one bucket: idle clients, the       *)
(* record of those checked out, requests of the pool itself (doRequest, two   *)
(* attempts) and an application that acquires a client, uses it, and gives it *)
(* back when it likes, also with a request still pending.                     *)
EXTENDS Integers, Sequences, FiniteSets, FiniteSetsExt, SequencesExt

CONSTANTS Jobs,           \* requests made through the pool
          SafeJobs,       \* those that are idempotent
          MaxClients, MaxIdle

VARIABLE b

NoClient == [made |-> FALSE, alive |-> FALSE, pending |-> 0, closed |-> FALSE]
NoJob == [pc |-> "idle", cl |-> 0, reused |-> FALSE, attempt |-> 0, sent |-> 0]
Clients == 1 .. MaxClients

Init == b = [stopping |-> FALSE, posted |-> FALSE, idle |-> <<>>, out |-> {}, managed |-> {}, app |-> 0,
             cl |-> [c \in Clients |-> NoClient], j |-> [r \in Jobs |-> NoJob]]

J(s, r, f) == [s EXCEPT !.j[r] = f @@ @]
Close(s, c) == [s EXCEPT !.cl[c].alive = FALSE, !.cl[c].closed = TRUE]

\* What acquireFrom passes over at the front of the queue: clients in use, and dead ones.
Skipped(s) == Min({i \in 0 .. Len(s.idle) :
                     i = Len(s.idle) \/ (s.cl[s.idle[i + 1]].alive /\ s.cl[s.idle[i + 1]].pending = 0)})

Free(s) == {c \in Clients : ~s.cl[c].made}

\* acquireFrom: the state after it, the client, and whether it is a reused one.
AcquireFrom(s, forPool) ==
    LET n    == Skipped(s)
        busy == {c \in {s.idle[i] : i \in 1 .. n} : s.cl[c].pending > 0}
        t    == [s EXCEPT !.out = @ \cup busy, !.managed = @ \ busy]
        hit  == n < Len(s.idle)
        c    == IF hit THEN s.idle[n + 1] ELSE Min(Free(s))
    IN  <<[t EXCEPT !.idle = IF hit THEN SubSeq(@, n + 2, Len(@)) ELSE <<>>,
                    !.out = @ \cup {c}, !.managed = IF forPool THEN @ \cup {c} ELSE @ \ {c},
                    !.cl[c].made = TRUE], c, hit>>

\* A client nobody refers to any more is destroyed.
Collect(s) ==
    LET held == ToSet(s.idle) \cup {s.app} \cup {s.j[r].cl : r \in Jobs} \cup {c \in Clients : s.cl[c].pending > 0}
    IN  [s EXCEPT !.out = @ \cap held, !.managed = @ \cap held,
                  !.cl = [c \in Clients |-> IF c \in held THEN @[c] ELSE NoClient]]

ReleaseTo(s, c) ==
    IF c \notin s.out \/ s.cl[c].pending > 0 THEN s
    ELSE LET t == [s EXCEPT !.out = @ \ {c}, !.managed = @ \ {c}]
             q == Append(t.idle, c)
         IN  IF ~t.cl[c].alive \/ t.stopping THEN t
             ELSE IF Len(q) <= MaxIdle THEN [t EXCEPT !.idle = q]
             ELSE [(IF t.cl[Head(q)].pending = 0 THEN Close(t, Head(q)) ELSE t) EXCEPT !.idle = Tail(q)]

--------------------------------------------------------------------------------
(* doRequest. *)

Begins(r) ==
    LET a == AcquireFrom(b, TRUE)
    IN  /\ b.j[r].pc \in {"idle", "retry"}
        /\ \/ b.stopping /\ b' = Collect(J(b, r, [pc |-> "done", cl |-> 0]))
           \/ /\ ~b.stopping /\ (Skipped(b) < Len(b.idle) \/ Free(b) # {})
              /\ b' = Collect([J(a[1], r, [pc |-> "run", cl |-> a[2], reused |-> a[3]]) EXCEPT !.cl[a[2]].pending = @ + 1])

\* The exchange; a fresh client connects first.
Sends(r) ==
    /\ b.j[r].pc = "run" /\ ~b.cl[b.j[r].cl].closed /\ (b.j[r].reused => b.cl[b.j[r].cl].alive)
    /\ b' = [J(b, r, [pc |-> "sent", sent |-> b.j[r].sent + 1]) EXCEPT !.cl[b.j[r].cl].alive = TRUE]

CanRetry(r, transient) == r \in SafeJobs /\ transient /\ b.j[r].reused /\ b.j[r].attempt = 0

\* The result, good (with the connection kept or not) or a transport error; then releaseTo.
Ends(r, ok, keep) ==
    LET c == b.j[r].cl
        s == [b EXCEPT !.cl[c].pending = @ - 1, !.cl[c].alive = @ /\ ok /\ keep]
        t == ReleaseTo(s, c)
    IN  /\ b.j[r].pc \in {"run", "sent"} /\ (ok => b.j[r].pc = "sent" /\ b.cl[c].alive) /\ (keep => ok)
        /\ b' = Collect(IF ~b.stopping /\ ~ok /\ CanRetry(r, TRUE)
                        THEN J(t, r, [pc |-> "retry", cl |-> 0, attempt |-> 1])
                        ELSE J(t, r, [pc |-> "done", cl |-> 0]))

--------------------------------------------------------------------------------
(* The application, the peer, the sweep and the stop. *)

AppAcquires ==
    LET a == AcquireFrom(b, FALSE)
    IN  /\ b.app = 0 /\ ~b.stopping /\ (Skipped(b) < Len(b.idle) \/ Free(b) # {})
        /\ b' = Collect([a[1] EXCEPT !.app = a[2]])
AppSends == b.app # 0 /\ b.cl[b.app].pending = 0
            /\ b' = [b EXCEPT !.cl[b.app] = [made |-> TRUE, alive |-> TRUE, pending |-> 1, closed |-> FALSE]]
AppAnswered == b.app # 0 /\ b.cl[b.app].pending > 0 /\ (\A r \in Jobs : b.j[r].cl # b.app)
               /\ b' = [b EXCEPT !.cl[b.app].pending = 0]
AppReleases == b.app # 0 /\ b' = ReleaseTo(b, b.app)
AppForgets == b.app # 0 /\ b.cl[b.app].pending = 0 /\ b' = Collect([b EXCEPT !.app = 0])

PeerCloses(c) == b.cl[c].alive /\ b' = [b EXCEPT !.cl[c].alive = FALSE]

\* sweep(): from the front, up to the first client that is alive and not old.
Sweep(old) ==
    LET stay(i) == b.cl[b.idle[i]].pending = 0 /\ b.cl[b.idle[i]].alive /\ ~old
        n    == Min({i \in 0 .. Len(b.idle) : i = Len(b.idle) \/ stay(i + 1)})
        cut  == {b.idle[i] : i \in 1 .. n}
        busy == {c \in cut : b.cl[c].pending > 0}
    IN  /\ b.idle # <<>> /\ ~b.stopping
        /\ b' = Collect([b EXCEPT !.idle = SubSeq(@, n + 1, Len(@)), !.out = @ \cup busy, !.managed = @ \ busy,
                   !.cl = [c \in Clients |-> IF c \in cut \ busy THEN [@[c] EXCEPT !.alive = FALSE, !.closed = TRUE]
                                             ELSE @[c]]])

Shutdown == ~b.stopping /\ b' = [b EXCEPT !.stopping = TRUE, !.posted = TRUE]

StopRuns ==
    LET dead == {c \in ToSet(b.idle) : b.cl[c].pending = 0} \cup (b.managed \cap b.out)
    IN  /\ b.posted
        /\ b' = Collect([b EXCEPT !.posted = FALSE, !.idle = <<>>, !.out = {}, !.managed = {},
                   !.cl = [c \in Clients |-> IF c \in dead THEN [@[c] EXCEPT !.alive = FALSE, !.closed = TRUE] ELSE @[c]]])

Next ==
    \/ \E r \in Jobs : Begins(r) \/ Sends(r) \/ (\E ok, keep \in BOOLEAN : Ends(r, ok, keep))
    \/ AppAcquires \/ AppSends \/ AppAnswered \/ AppReleases \/ AppForgets
    \/ (\E c \in Clients : PeerCloses(c)) \/ (\E old \in BOOLEAN : Sweep(old)) \/ Shutdown \/ StopRuns

Spec == Init /\ [][Next]_b

--------------------------------------------------------------------------------
(* Properties; those with primed variables are of steps. *)

TypeOK ==
    /\ ToSet(b.idle) \cup b.out \cup b.managed \subseteq Clients /\ b.app \in {0} \cup Clients
    /\ \A r \in Jobs : b.j[r].pc \in {"idle", "run", "sent", "retry", "done"}

(* A client goes to a request of the pool only when nobody else uses it: no   *)
(* other request has it, and no request the application left on it is pending.*)
HandedOutAlone ==
    \A r \in Jobs : LET c == b'.j[r].cl IN
       c # 0 /\ b.j[r].cl # c => (\A x \in Jobs \ {r} : b'.j[x].cl # c) /\ b.cl[c].pending = 0

(* The idle queue holds each client once, none that is also recorded as       *)
(* checked out or that a request of the pool is using, and no more than       *)
(* maxIdlePerBucket.                                                          *)
IdleIsIdle ==
    /\ IsInjective(b.idle) /\ Len(b.idle) <= MaxIdle /\ ToSet(b.idle) \cap b.out = {}
    /\ \A r \in Jobs : b.j[r].cl \notin ToSet(b.idle)

(* After shutdown has run on the loop the pool keeps no client, and none      *)
(* comes back to it.                                                          *)
NothingIdleAfterStop == b.stopping /\ ~b.posted => b.idle = <<>>

(* A request that is not idempotent is sent once, another at most twice.      *)
SentOnce == \A r \in Jobs : b.j[r].sent <= IF r \in SafeJobs THEN 2 ELSE 1
================================================================================
