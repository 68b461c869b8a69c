--------------------------- MODULE SupervisionProofs ---------------------------
(***************************************************************************)
(* Proofs about ReplicaSupervision: its types, the bounds of the restart    *)
(* back-off and what the bootstrap gate may conclude, for every threshold,  *)
(* poll limit, back-off and number of crashes and faults.                   *)
(***************************************************************************)
EXTENDS ReplicaSupervision, TLAPS

-----------------------------------------------------------------------------
(* The back-off *)

\* The cap is some configured number.
BackoffInv == cap \in Nat /\ BackoffBounded

LEMMA BackoffStarts == BackoffInit => BackoffInv
  BY BackoffConstants DEF BackoffInit, BackoffInv, BackoffBounded, Least, Greatest

\* The growth, and that it leaves room for a jitter unless the cap does not.
LEMMA Growth ==
    ASSUME BackoffInv
    PROVE  /\ Grown \in Nat /\ Grown <= cap
           /\ Grown = cap \/ 2 * Grown + 1 >= 3 * backoff
           /\ cap >= 4 => Grown >= 4
<1>1. First \in Nat /\ cap \in Nat /\ backoff \in Nat /\ First >= 4
  BY BackoffConstants DEF BackoffInv, BackoffBounded
<1> DEFINE half == (3 * backoff) \div 2
<1>2. half \in Nat /\ 2 * half + 1 >= 3 * backoff
  BY <1>1
<1>3. cap >= 4 => half >= 4
  <2> DEFINE q == cap \div 4
  <2>1. q \in Nat /\ 4 * q <= cap
    BY <1>1
  <2>2. backoff >= Least(First, cap - q)
    BY DEF BackoffInv, BackoffBounded
  <2> HIDE DEF q
  <2>3. cap >= 4 => backoff >= 3
    BY <1>1, <2>1, <2>2 DEF Least
  <2> HIDE DEF half
  <2> QED BY <1>1, <1>2, <2>3
<1>4. Grown = IF half > cap THEN cap ELSE half
  BY DEF Grown
<1> HIDE DEF half
<1>5. CASE half > cap
  BY <1>1, <1>4, <1>5
<1>6. CASE ~(half > cap)
  BY <1>1, <1>2, <1>3, <1>4, <1>6
<1> QED BY <1>5, <1>6

\* One turn of the loop of watchProcess keeps the bounds: the growth moves the
\* back-off up to the cap, the jitter by less than a quarter of the result.
LEMMA BackoffStays == ASSUME BackoffInv, ~panicked, BackoffStep PROVE BackoffInv'
<1> DEFINE q == cap \div 4  g == Grown \div 4
<1>1. /\ First \in Nat /\ cap \in Nat /\ backoff \in Nat /\ ~panicked
  BY BackoffConstants DEF BackoffInv, BackoffBounded
<1>2. /\ Grown \in Nat /\ Grown <= cap
      /\ Grown = cap \/ 2 * Grown + 1 >= 3 * backoff
  BY Growth
<1>3. PICK j \in Jitter : backoff' \in {Grown + j, Grown - j}
  BY DEF BackoffStep
<1>4. q \in Nat /\ 4 * q <= cap /\ cap < 4 * q + 4
  BY <1>1
<1>5. g \in Nat /\ 4 * g <= Grown /\ Grown < 4 * g + 4
  BY <1>2
<1>6. j \in Int /\ 0 <= j /\ j <= g - 1
  BY <1>5, <1>3 DEF Jitter
<1>7. g >= 1 /\ g <= q /\ q >= 1
  <2> HIDE DEF g, q
  <2> QED BY <1>1, <1>4, <1>5, <1>2, <1>6
<1>8. backoff' \in Nat /\ backoff' <= Grown + g - 1 /\ backoff' >= Grown - g + 1
  <2> HIDE DEF g, q
  <2> QED BY <1>2, <1>7, <1>5, <1>3, <1>6
<1>9. backoff' <= cap + q
  <2> HIDE DEF g, q
  <2> QED BY <1>1, <1>4, <1>2, <1>7, <1>5, <1>8
<1>10. backoff' >= cap - q \/ backoff' >= backoff
  <2> HIDE DEF g, q
  <2>1. CASE Grown = cap
    BY <2>1, <1>1, <1>4, <1>2, <1>7, <1>5, <1>8
  <2>2. CASE 2 * Grown + 1 >= 3 * backoff
    BY <2>2, <1>1, <1>5, <1>2, <1>7, <1>8
  <2> QED BY <1>2, <2>1, <2>2
<1>11. /\ backoff <= Greatest(First, cap + q)
       /\ backoff >= Least(First, cap - q)
  BY DEF BackoffInv, BackoffBounded
<1>12. /\ backoff' <= Greatest(First, cap + q)
       /\ backoff' >= Least(First, cap - q)
  <2> HIDE DEF q
  <2> QED BY <1>1, <1>4, <1>8, <1>9, <1>10, <1>11 DEF Greatest, Least
<1>13. UNCHANGED <<cap, panicked>>
  BY DEF BackoffStep
<1>14. ~panicked'
  BY <1>1, <1>2, <1>13 DEF BackoffInv, BackoffBounded
<1> QED BY <1>1, <1>8, <1>12, <1>13, <1>14 DEF BackoffInv, BackoffBounded

\* The panic needs a cap that the growth cannot leave.
LEMMA PanicNeedsSmallCap == ASSUME BackoffInv, BackoffPanics PROVE BackoffInv'
<1>1. UNCHANGED <<backoff, cap>>
  BY DEF BackoffPanics
<1>2. ~(cap >= 4)
  <2> SUFFICES ASSUME cap >= 4 PROVE FALSE
    OBVIOUS
  <2>1. Grown \in Nat /\ Grown >= 4
    BY Growth
  <2>2. 0 \in Jitter
    BY <2>1 DEF Jitter
  <2> QED BY <2>2 DEF BackoffPanics
<1>3. cap \in Nat
  BY DEF BackoffInv
<1> QED BY <1>1, <1>2, <1>3 DEF BackoffInv, BackoffBounded

\* Only the loop of watchProcess touches its back-off.
LEMMA OnlyRespawnGrows ==
    ASSUME [Next]_vars
    PROVE  (~panicked /\ BackoffStep) \/ BackoffPanics \/ UNCHANGED backoffVars
  BY DEF Next, vars, ProcNext, Boots, Fails, Drained, KilledByContext, WatchNext, WatchExit,
         BackoffCancelled, Respawn, RespawnPanics, CheckNext, Probe, Record, Cancel, GateCancelled

(* For every first back-off of at least four units and every cap, zero        *)
(* included: whatever the jitter draws, the back-off stays between the first  *)
(* or three quarters of the cap and the first or five quarters of it, and     *)
(* only a cap below four units ends in the panic.                             *)
THEOREM BackoffStaysBounded == Spec => []BackoffBounded
<1>1. Init => BackoffInv
  BY BackoffStarts DEF Init
<1>2. BackoffInv /\ [Next]_vars => BackoffInv'
  <2> SUFFICES ASSUME BackoffInv, [Next]_vars PROVE BackoffInv'
    OBVIOUS
  <2>1. CASE ~panicked /\ BackoffStep
    BY <2>1, BackoffStays
  <2>2. CASE BackoffPanics
    BY <2>2, PanicNeedsSmallCap
  <2>3. CASE UNCHANGED backoffVars
    BY <2>3 DEF BackoffInv, BackoffBounded, backoffVars
  <2> QED BY <2>1, <2>2, <2>3, OnlyRespawnGrows
<1>3. BackoffInv => BackoffBounded
  BY DEF BackoffInv
<1> QED BY <1>1, <1>2, <1>3, PTL DEF Spec

-----------------------------------------------------------------------------
(* Types and the gate *)

\* The gate polls only before its deadline; an instance that runs has answered.
GateInv ==
    /\ TypeOK
    /\ gate = "probing" => polls < PollLimit
    /\ state = "running" => served
    /\ ReadyMeansServed

USE SupervisionConstants DEF Checkers, ProcStates

LEMMA SigTermTyped == ASSUME NEW p \in ProcStates PROVE SigTerm(p) \in ProcStates
  BY DEF SigTerm

LEMMA VerdictTyped ==
  ASSUME NEW s \in {"starting", "running", "unhealthy", "stopped"}
  PROVE  /\ GateVerdict(s) \in {"probing", "ready", "timeout", "early"}
         /\ GateVerdict(s) = "ready" => s = "running"
         /\ GateVerdict(s) = "probing" => polls + 1 # PollLimit
  BY DEF GateVerdict

LEMMA GateInit == Init => GateInv
<1> SUFFICES ASSUME Init PROVE GateInv
  OBVIOUS
<1>1. TypeOK
  <2>1. check \in [Checkers -> {"idle", "good", "bad"}]
    BY DEF Init
  <2>2. cancelled \in BOOLEAN /\ served \in BOOLEAN
    BY DEF Init
  <2>3. badChecks \in 0..UnhealthyThreshold - 1 /\ polls \in 0..PollLimit
    BY DEF Init
  <2>4. crashes \in 0..MaxCrashes /\ faults \in 0..MaxFaults
    BY DEF Init
  <2>5. /\ proc \in ProcStates /\ watch \in {"wait", "backoff", "done"}
        /\ state \in {"starting", "running", "unhealthy", "stopped"}
        /\ gate \in {"probing", "ready", "timeout", "early", "cancelled"}
    BY DEF Init
  <2> QED BY <2>1, <2>2, <2>3, <2>4, <2>5 DEF TypeOK
<1> QED BY <1>1 DEF Init, GateInv, ReadyMeansServed

LEMMA RecordKeeps ==
  ASSUME GateInv, NEW c \in Checkers, Record(c) PROVE GateInv'
<1>1. /\ badChecks' \in 0..UnhealthyThreshold - 1
      /\ state' \in {"starting", "running", "unhealthy", "stopped"}
      /\ proc' \in ProcStates /\ served' \in BOOLEAN
      /\ served => served'
      /\ state' = "running" => served'
  <2>1. CASE check[c] = "good"
    BY <2>1 DEF Record, GateInv, TypeOK
  <2>2. CASE check[c] # "good" /\ OverThreshold(badChecks + 1)
    BY <2>2, SigTermTyped DEF Record, GateInv, TypeOK
  <2>3. CASE check[c] # "good" /\ ~OverThreshold(badChecks + 1)
    BY <2>3 DEF Record, GateInv, TypeOK, OverThreshold
  <2> QED BY <2>1, <2>2, <2>3
<1>2. /\ gate' \in {"probing", "ready", "timeout", "early", "cancelled"}
      /\ polls' \in 0..PollLimit
      /\ gate' = "probing" => polls' < PollLimit
      /\ gate' = "ready" => served'
  <2>1. CASE c = "gate" /\ gate = "probing"
    <3>1. gate' = GateVerdict(state') /\ polls' = polls + 1 /\ polls \in Nat /\ polls < PollLimit
      BY <2>1 DEF Record, GateInv, TypeOK
    <3> QED BY <1>1, <3>1, VerdictTyped
  <2>2. CASE ~(c = "gate" /\ gate = "probing")
    <3>1. UNCHANGED <<gate, polls>>
      BY <2>2 DEF Record
    <3> QED BY <1>1, <3>1 DEF GateInv, TypeOK, ReadyMeansServed
  <2> QED BY <2>1, <2>2
<1>3. check' \in [Checkers -> {"idle", "good", "bad"}]
  BY DEF Record, GateInv, TypeOK
<1> QED BY <1>1, <1>2, <1>3 DEF Record, GateInv, TypeOK, ReadyMeansServed

LEMMA GateStep == GateInv /\ [Next]_vars => GateInv'
<1> SUFFICES ASSUME GateInv, [Next]_vars PROVE GateInv'
  OBVIOUS
<1> USE DEF GateInv, TypeOK, ReadyMeansServed
<1>1. CASE Boots
  BY <1>1 DEF Boots
<1>2. CASE Fails
  BY <1>2 DEF Fails
<1>3. CASE Drained
  BY <1>3 DEF Drained
<1>4. CASE KilledByContext
  BY <1>4 DEF KilledByContext
<1>5. CASE WatchExit
  BY <1>5 DEF WatchExit
<1>6. CASE BackoffCancelled
  BY <1>6 DEF BackoffCancelled
<1>7. CASE Respawn \/ RespawnPanics
  BY <1>7 DEF Respawn, RespawnPanics
<1>8. ASSUME NEW c \in Checkers, Probe(c) PROVE GateInv'
  BY <1>8 DEF Probe
<1>9. ASSUME NEW c \in Checkers, Record(c) PROVE GateInv'
  BY <1>9, RecordKeeps
<1>10. CASE Cancel
  BY <1>10, SigTermTyped DEF Cancel
<1>11. CASE GateCancelled
  BY <1>11 DEF GateCancelled
<1>12. CASE UNCHANGED vars
  BY <1>12 DEF vars
<1> QED
  BY <1>1, <1>2, <1>3, <1>4, <1>5, <1>6, <1>7, <1>8, <1>9, <1>10, <1>11, <1>12
     DEF Next, ProcNext, WatchNext, CheckNext

(* The variables of the supervised replica stay in their types; the counter  *)
(* of bad checks never reaches the threshold, the gate never outlives its    *)
(* deadline.                                                                 *)
THEOREM TypeCorrect == Spec => []TypeOK
<1>1. GateInv => TypeOK
  BY DEF GateInv
<1> QED BY GateInit, GateStep, <1>1, PTL DEF Spec

(* The bootstrap gate opens only for a pool that answered a health probe,    *)
(* however crashes, restarts, stale probe results and the concurrent checks  *)
(* of the supervision loop interleave.                                       *)
THEOREM GateOpensForServed == Spec => []ReadyMeansServed
<1>1. GateInv => ReadyMeansServed
  BY DEF GateInv
<1> QED BY GateInit, GateStep, <1>1, PTL DEF Spec
=============================================================================
