--------------------------- MODULE Http2ClientSession ---------------------------
(* The client side of one HTTP/2 connection: admission of requests under the  *)
(* limits of both sides, the context of each open stream, and what the frames *)
(* of the server, a failure or a deadline make of its result.  The server is  *)
(* honest about what it has not processed: that is what a retry relies on.    *)
EXTENDS Integers, FiniteSets, FiniteSetsExt, TLC

CONSTANTS Calls,        \* calls of request(), numbered in their order
          Local,        \* maxConcurrentStreams
          Tasks,        \* maxApplicationTasks
          MaxWaiters, PeerLimits

VARIABLE g

NoCall == [pc |-> "idle", id |-> 0, open |-> FALSE, app |-> FALSE,
           late |-> FALSE, ready |-> FALSE, inTime |-> FALSE, err |-> FALSE,
           disp |-> "possibly", processed |-> FALSE, out |-> "none"]

Init == g = [seen |-> FALSE, peer |-> 0, goaway |-> FALSE, last |-> Cardinality(Calls), failed |-> FALSE,
             next |-> 1, woken |-> {}, x |-> [r \in Calls |-> NoCall]]

X(s, r, f) == [s EXCEPT !.x[r] = f @@ @]
Streams(s) == Cardinality({r \in Calls : s.x[r].open})
Accepting(s) == s.seen /\ ~s.failed /\ ~s.goaway
Available(s) ==
    IF Accepting(s) THEN Min({Max({0, Min({Local, s.peer}) - Streams(s)}),
                              Max({0, Tasks - Cardinality({r \in Calls : s.x[r].app})})}) ELSE 0
Waiters(s) == {r \in Calls : s.x[r].pc = "wait"}

\* notify(): whoever waits for a stream looks again.
Notify(s) == [s EXCEPT !.woken = Waiters(s)]

\* The result; of the call nothing else is left.
Done(s, r, out, disp) ==
    [s EXCEPT !.x[r] = [NoCall EXCEPT !.pc = "done", !.out = out, !.disp = disp,
                                      !.open = s.x[r].open]]
Unsent(s, r) == Done(s, r, "error", "not sent")

\* cancel() of a context: output, stream and context go together, and the capacity changed.
Cancel(s, r) == Notify(X(s, r, [open |-> FALSE]))

\* submit() without suspension: nothing is written before it returns.
Submit(s, r, ok) ==
    LET t == X(s, r, [pc |-> "open", id |-> s.next, open |-> TRUE, app |-> TRUE])
    IN  IF s.x[r].late \/ ~ok THEN Unsent(s, r)
        ELSE Notify([t EXCEPT !.next = @ + 1])

\* stateError() of waitAdmission
Refuses(s, r) == s.x[r].late \/ s.failed \/ s.goaway

Request(r, ok) ==
    /\ g.x[r].pc = "idle" /\ (\A q \in Calls : q < r => g.x[q].pc # "idle")
    /\ g' = IF Refuses(g, r) THEN Unsent(g, r)
            ELSE IF Available(g) # 0 THEN Submit(g, r, ok)
            ELSE IF Cardinality(Waiters(g)) >= MaxWaiters THEN Unsent(g, r)
            ELSE X(g, r, [pc |-> "wait"])

WaiterRuns(r, ok) ==
    LET s == [g EXCEPT !.woken = @ \ {r}]
    IN  /\ r \in g.woken
        /\ g' = IF Refuses(g, r) THEN Unsent(s, r)
                ELSE IF Available(g) # 0 THEN Submit(s, r, ok) ELSE s

QueueTimeout(r) ==
    g.x[r].pc = "wait" /\ g' = Unsent([g EXCEPT !.woken = @ \ {r}], r)

\* waitBody() returns: with the body, the stream's error, or its deadline.
Returns(r) ==
    LET c  == g.x[r]
        ok == c.ready /\ c.inTime
        s  == IF ~ok \/ c.open THEN Cancel(g, r) ELSE g        \* cancel() or retireUpload()
    IN  /\ c.pc = "open" /\ (c.ready \/ c.err \/ ~c.open \/ c.late)
        /\ g' = Notify(Done(s, r, IF ok THEN "ok" ELSE "error", IF ok THEN "possibly" ELSE s.x[r].disp))

Deadline(r) == g.x[r].pc \in {"wait", "open"} /\ ~g.x[r].late /\ g' = X(g, r, [late |-> TRUE])

--------------------------------------------------------------------------------
(* The frames of the server. *)

ServerProcesses(r) ==
    /\ g.x[r].open /\ ~g.x[r].processed /\ g.x[r].id <= g.last /\ ~g.failed
    /\ g' = X(g, r, [processed |-> TRUE])

CaptureError(s, r) == IF s.x[r].open /\ ~s.x[r].ready THEN X(s, r, [err |-> TRUE]) ELSE s

\* onStreamClose: the context is dropped, with its error if the response is not complete.
StreamClose(s, r) == Notify(X(CaptureError(s, r), r, [open |-> FALSE]))

\* END_STREAM of the response; the stream closes with it when the upload is done.
OnEndStream(r, uploaded) ==
    LET c == g.x[r]
        s == IF ~c.err THEN X(g, r, [ready |-> TRUE, inTime |-> ~c.late]) ELSE g
    IN  /\ c.open /\ c.processed /\ ~c.ready /\ ~g.failed
        /\ g' = IF uploaded THEN StreamClose(s, r) ELSE s

\* RST_STREAM; only a stream the server has not processed is refused.
OnReset(r, refused) ==
    LET c == g.x[r]
        t == IF refused /\ ~c.ready THEN X(g, r, [disp |-> "not processed"]) ELSE g
    IN  /\ c.open /\ ~g.failed /\ (refused => ~c.processed)
        /\ g' = StreamClose(t, r)

OnSettings(n) == ~g.failed /\ (~g.seen \/ n # g.peer) /\ g' = Notify([g EXCEPT !.seen = TRUE, !.peer = n])

OnGoawayAll(last) ==
    LET out == {r \in Calls : g.x[r].open /\ ~g.x[r].ready}
    IN  /\ ~g.failed /\ last <= g.last /\ (g.goaway => last < g.last)
        /\ \A r \in Calls : g.x[r].processed => g.x[r].id <= last
        /\ g' = Notify([g EXCEPT !.goaway = TRUE, !.last = last,
                                 !.x = [r \in Calls |-> IF r \in out
                                        THEN [@[r] EXCEPT !.disp = "not processed", !.err = TRUE, !.open = FALSE] ELSE @[r]]])
OnGoaway(last) ==
    LET out == {r \in Calls : g.x[r].open /\ g.x[r].id > last /\ ~g.x[r].ready}
    IN  /\ ~g.failed /\ last <= g.last /\ (g.goaway => last < g.last)
        /\ \A r \in Calls : g.x[r].processed => g.x[r].id <= last
        /\ g' = Notify([g EXCEPT !.goaway = TRUE, !.last = last,
                                 !.x = [r \in Calls |-> IF r \in out
                                        THEN [@[r] EXCEPT !.disp = "not processed", !.err = TRUE, !.open = FALSE] ELSE @[r]]])

\* fail(): the run ended, the connection erred or close() was called.
Fail ==
    /\ ~g.failed
    /\ g' = Notify([g EXCEPT !.failed = TRUE,
                             !.x = [r \in Calls |-> [@[r] EXCEPT !.err = @ \/ (g.x[r].open /\ ~g.x[r].ready),
                                                                 !.open = FALSE]]])

Next ==
    \/ \E r \in Calls :
          \/ \E ok \in BOOLEAN : Request(r, ok) \/ WaiterRuns(r, ok)
          \/ QueueTimeout(r) \/ Returns(r) \/ Deadline(r) \/ ServerProcesses(r)
          \/ \E yes \in BOOLEAN : OnEndStream(r, yes) \/ OnReset(r, yes)
    \/ (\E n \in PeerLimits : OnSettings(n)) \/ (\E last \in 0 .. Cardinality(Calls) : OnGoaway(last)) \/ Fail

Spec == Init /\ [][Next]_g

--------------------------------------------------------------------------------
(* Properties; those with primed variables are of steps. *)

TypeOK ==
    /\ g.last \in 0 .. Cardinality(Calls) /\ g.next \in 1 .. Cardinality(Calls) + 1 /\ g.woken \subseteq Calls
    /\ \A r \in Calls : g.x[r].pc \in {"idle", "wait", "open", "done"} /\ g.x[r].id \in 0 .. Cardinality(Calls)

(* A result that allows a retry is true: what is reported as not sent or not  *)
(* processed was not processed, though resets, GOAWAY, failure and deadline   *)
(* meet in any order.                                                         *)
RetryIsSafe ==
    \A r \in Calls : g.x[r].processed /\ g'.x[r].pc = "done" => g'.x[r].disp = "possibly"

(* A response that was complete before the deadline is returned, whatever the *)
(* server or the connection did before the caller ran; one completed after    *)
(* the deadline is not.                                                       *)
CompleteIsKept ==
    \A r \in Calls : g.x[r].pc # "done" /\ g'.x[r].pc = "done" => (g'.x[r].out = "ok") = g.x[r].inTime

(* No stream is opened beyond the limit of either side, none after GOAWAY or  *)
(* failure, though waiters are all woken for one place.                       *)
OpensWithinLimits ==
    \A r \in Calls : g'.x[r].open /\ ~g.x[r].open =>
       Streams(g') <= Local /\ Streams(g') <= g.peer /\ ~g.goaway /\ ~g.failed

(* Whoever still waits for a stream and has not been woken could not have one:*)
(* every way a stream or a task is given back is followed by a notification.  *)
NoPlaceForWaiters ==
    \A r \in Waiters(g) \ g.woken : Available(g) = 0 /\ ~g.goaway /\ ~g.failed

(* A finished call leaves no stream open behind it.                           *)
NothingLeftOpen == \A r \in Calls : g.x[r].pc = "done" => ~g.x[r].open
================================================================================
