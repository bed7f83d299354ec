------------------------------- MODULE WsHub --------------------------------
(***************************************************************************)
(* The registry of WebSocket connections and rooms (WsHub.cpp).  Any       *)
(* thread may call it; every operation runs under mutex_, so it is one     *)
(* step.  A broadcast only spawns coroutines, one per member, on the       *)
(* members' own loops: they run later, in any order.                       *)
(***************************************************************************)
EXTENDS Naturals, Sequences, FiniteSets, SequencesExt

CONSTANTS
    Ids,      \* connection ids, handed out in order by nextId_
    Rooms,    \* room names
    MaxCasts, \* messages sent in all
    MaxJoins  \* calls of join() in all

VARIABLE u

Targets == [id : Ids, m : 1..MaxCasts]

\* conns: the rooms of each registered connection; rooms: the members of
\* each room, a vector; live: sessions somebody still owns, open: those that
\* are open; due: coroutines spawned and not run; got: what was sent.
\* belongs, meant and again are history: who joined what, whom a message was for, and who
\* joined a room it was in.
Init ==
    u = [next |-> 1, regd |-> {}, conns |-> [i \in Ids |-> {}], rooms |-> [r \in Rooms |-> <<>>],
         live |-> {}, open |-> {}, due |-> <<>>, got |-> <<>>, casts |-> 0, joins |-> 0,
         belongs |-> {}, meant |-> <<>>, again |-> {}]

EraseMember(s, id) == SelectSeq(s, LAMBDA x : x # id)

add ==
    /\ u.next \in Ids
    /\ u' = [u EXCEPT !.next = @ + 1, !.regd = @ \cup {u.next},
                      !.live = @ \cup {u.next}, !.open = @ \cup {u.next}]

remove(id) ==
    /\ id \in u.regd
    /\ u' = [u EXCEPT !.regd = @ \ {id}, !.conns[id] = {},
                      !.rooms = [r \in Rooms |-> IF r \in u.conns[id] THEN EraseMember(@[r], id) ELSE @[r]],
                      !.belongs = {p \in @ : p[1] # id}]

\* The connection's set of rooms keeps a room once; the vector takes the
\* member again at every call.
join(id, r) ==
    /\ id \in u.regd /\ u.joins < MaxJoins
    /\ u' = [u EXCEPT !.joins = @ + 1, !.conns[id] = @ \cup {r}, !.rooms[r] = Append(@, id),
                      !.belongs = @ \cup {<<id, r>>},
                      !.again = IF <<id, r>> \in u.belongs THEN @ \cup {id} ELSE @]

\* Both parts are done whether or not the connection is registered.
leave(id, r) ==
    u' = [u EXCEPT !.conns[id] = @ \ {r}, !.rooms[r] = EraseMember(@, id),
                   !.belongs = @ \ {<<id, r>>}]

\* Spawn one coroutine for each of the ids whose session is alive and open.
Spawn(ids, meant) ==
    LET to == SelectSeq(ids, LAMBDA x : x \in u.live /\ x \in u.open)
    IN /\ u.casts < MaxCasts
       /\ u' = [u EXCEPT !.casts = @ + 1, !.meant = Append(@, meant),
                         !.due = @ \o [i \in DOMAIN to |-> [id |-> to[i], m |-> u.casts + 1]]]

broadcastImpl(r, exclude) ==
    Spawn(SelectSeq(u.rooms[r], LAMBDA x : x # exclude), {x \in Ids : <<x, r>> \in u.belongs} \ {exclude})

broadcastAll(exclude) == Spawn(SetToSeq(u.regd \ {exclude}), u.regd \ {exclude})

sendTo(id) == id \in u.regd /\ Spawn(<<id>>, {id})

\* A spawned coroutine runs on the session's loop: isOpen() again, then send().
CastRuns(i) ==
    u' = [u EXCEPT !.due = RemoveAt(@, i),
                   !.got = IF u.due[i].id \in u.open THEN Append(@, u.due[i]) ELSE @]

\* The session is closed by its peer or its reader; then its owner lets go of
\* it, which spawned coroutines (they hold a shared_ptr) put off.
SessionCloses(id) == id \in u.open /\ u' = [u EXCEPT !.open = @ \ {id}]
SessionFreed(id) ==
    /\ id \in u.live \ u.open /\ \A i \in DOMAIN u.due : u.due[i].id # id
    /\ u' = [u EXCEPT !.live = @ \ {id}]

Next ==
    \/ add
    \/ \E id \in Ids : remove(id) \/ sendTo(id) \/ SessionCloses(id) \/ SessionFreed(id)
    \/ \E id \in Ids, r \in Rooms : join(id, r) \/ leave(id, r)
    \/ \E r \in Rooms, x \in Ids \cup {0} : broadcastImpl(r, x)
    \/ \E x \in Ids \cup {0} : broadcastAll(x)
    \/ \E i \in DOMAIN u.due : CastRuns(i)

-----------------------------------------------------------------------------
TypeOK ==
    /\ u.regd \subseteq Ids /\ u.open \subseteq u.live /\ u.live \subseteq Ids
    /\ \A r \in Rooms : ToSet(u.rooms[r]) \subseteq Ids
    /\ ToSet(u.due) \cup ToSet(u.got) \subseteq Targets

\* The two indexes of membership agree with each other and with the calls
\* made: a connection is in a room's vector exactly when the room is in the
\* connection's set, which is when it joined and neither left nor was
\* removed since (join, leave, remove).
RoomsAgree ==
    \A id \in Ids, r \in Rooms :
        /\ id \in ToSet(u.rooms[r]) <=> <<id, r>> \in u.belongs
        /\ r \in u.conns[id] <=> <<id, r>> \in u.belongs

\* A message goes only to connections it was meant for when it was sent, and
\* never to one that was excluded, however long its coroutine waited.
OnlyMembers == \A i \in DOMAIN u.got : u.got[i].id \in u.meant[u.got[i].m]

\* A session gets a message at most once, whatever joins, leaves and removals came before
\* it, unless it joined a room it was in: the vector has it twice then (join, leave).
SentOncePerMember ==
    \A i, j \in DOMAIN u.got : i # j /\ u.got[i] = u.got[j] => u.got[i].id \in u.again
=============================================================================
