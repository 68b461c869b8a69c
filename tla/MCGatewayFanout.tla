---------------------------- MODULE MCGatewayFanout ----------------------------
(***************************************************************************)
(* Model values for GatewayFanout: the first client subscribes in both ways.  *)
(***************************************************************************)
EXTENDS GatewayFanout

CONSTANTS orgA, c1, c2

SameOrg == [c \in Clients |-> orgA]
Both == {<<c1, "vehicle">>, <<c1, "all">>, <<c2, "all">>}
=============================================================================
