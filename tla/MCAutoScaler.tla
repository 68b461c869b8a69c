------------------------------ MODULE MCAutoScaler ------------------------------
(***************************************************************************)
(* Model values for AutoScaler and PoolScaling: the autoscaler and an       *)
(* operator.  Lags are in tens of thousands of messages: the thresholds are *)
(* 5 as in the code and 3; a lag is idle, at the lower threshold, between   *)
(* the two or a spike.  AlphaNum is large so that a few samples move the    *)
(* average from one side of the thresholds to the other.                    *)
(***************************************************************************)
EXTENDS AutoScaler

CONSTANTS auto, http1

AutoAndOperator == {auto, http1}
SomeLags == {3, 4, 10}
SomeOverrides == {1, 3}
=============================================================================
