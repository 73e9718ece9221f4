------------------------------- MODULE MCHub -------------------------------
(***************************************************************************)
(* Small hubs for TLC: dashboards, each connection under an id of its own, *)
(* with broadcasts of the server and one message relayed from c1 to c2.    *)
(***************************************************************************)
EXTENDS WsHub

CONSTANTS c1, c2, relayed

OwnId == [c \in Conns |-> c]
OneRelayed == [m \in Msgs |-> IF m = relayed THEN c1 ELSE None]
ForAll == [m \in Msgs |-> IF m = relayed THEN {c2} ELSE Ids]
=============================================================================
