------------------------------- MODULE MCLink -------------------------------
(***************************************************************************)
(* Small instances of NodeLink for TLC: the nodes use all connections of   *)
(* the set for their one address, and the master sends nothing.            *)
(***************************************************************************)
EXTENDS NodeLink

CONSTANTS n2, d1

\* d1 is the only connection of n2, if there is an n2; the others belong to n1.
AddressOf == [c \in Conns |-> IF c = d1 THEN n2 ELSE CHOOSE n \in Ids : n # n2]
Nothing == [m \in Msgs |-> None]
Nobody == [m \in Msgs |-> {}]
=============================================================================
