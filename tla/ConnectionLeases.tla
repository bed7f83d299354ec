-------------------------- MODULE ConnectionLeases --------------------------
(* What the database connection pool promises its callers: acquire() grants  *)
(* a connection nobody else uses, and it stays the caller's until release(). *)
CONSTANTS Clients, Conns, NoConn

VARIABLE lease   \* the connection each client may use

Init == lease = [c \in Clients |-> NoConn]

Grant(c, n) ==
    /\ lease[c] = NoConn
    /\ \A d \in Clients : lease[d] # n
    /\ lease' = [lease EXCEPT ![c] = n]

Return(c) ==
    /\ lease[c] # NoConn
    /\ lease' = [lease EXCEPT ![c] = NoConn]

Next == \E c \in Clients : Return(c) \/ \E n \in Conns : Grant(c, n)

Spec == Init /\ [][Next]_lease

=============================================================================
