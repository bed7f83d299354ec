------------------------- MODULE MCDbConnectionPool -------------------------
(* Instance of DbConnectionPool for TLC.                                     *)
EXTENDS DbConnectionPool, TLC

Symmetry == Permutations(Clients) \cup Permutations(Conns)

=============================================================================
