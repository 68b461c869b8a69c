---------------------------- MODULE MCStreamRegistry ----------------------------
(***************************************************************************)
(* Model values for StreamRegistry: two replicas and the streams of two     *)
(* organisations, which hash to one slot or to two.                         *)
(***************************************************************************)
EXTENDS StreamRegistry

CONSTANTS r1, r2, org1, org2

TwoReplicas == {r1, r2}
TwoKeys == {org1, org2}
TwoSlots == {1, 2}
=============================================================================
