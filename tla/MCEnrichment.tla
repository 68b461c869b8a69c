------------------------------ MODULE MCEnrichment ------------------------------
(***************************************************************************)
(* Model values for Enrichment: three workers in two replicas, two vehicles *)
(* that share a stripe.                                                     *)
(***************************************************************************)
EXTENDS Enrichment

CONSTANTS w1, w2, w3, r1, r2, bus1, bus2, s1

AllWorkers == {w1, w2, w3}
WorkerReplica == [w \in AllWorkers |-> IF w = w3 THEN r2 ELSE r1]
OneStripe == [v \in {bus1, bus2} |-> s1]

At(v, pos, time) == [vehicle |-> v, pos |-> pos, time |-> time, critical |-> FALSE]
Panic(v, pos, time) == [At(v, pos, time) EXCEPT !.critical = TRUE]

\* The second replica was started by a scale-up.
FromStartOrThird == [r \in {r1, r2} |-> IF r = r1 THEN 1 ELSE 3]

\* Distances in tens of metres, time in seconds: a jump there and back, a slow
\* drift with a pause and a panic button, two vehicles and a clock going backwards.
SomeFeeds == {
    << At(bus1, 0, 0), At(bus1, 2, 1), At(bus1, 0, 2) >>,
    << At(bus1, 0, 0), At(bus1, 1, 6), Panic(bus1, 1, 7) >>,
    << At(bus1, 0, 9), At(bus2, 3, 1), At(bus1, 2, 2) >> }
=============================================================================
