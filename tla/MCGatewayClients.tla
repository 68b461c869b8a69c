---------------------------- MODULE MCGatewayClients ----------------------------
(***************************************************************************)
(* Model values for GatewayClients: two connections, of one org or of two,   *)
(* and vehicles whose IDs every org may use.                                 *)
(***************************************************************************)
EXTENDS GatewayClientsProps

CONSTANTS c1, orgA, orgB, v1, v2

OneOrg == [c \in Conns |-> orgA]
Lists == {<<v1, v1>>, <<v1, v2>>}
=============================================================================
