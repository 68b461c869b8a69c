----------------------------- MODULE GatewayProofs -----------------------------
(***************************************************************************)
(* For any number of handlers, addresses and tokens, and any speed of the   *)
(* refill: the buckets keep their bounds, a revoked token stays out, and an *)
(* address whose refills do not overlap gets no more than its rate.  For    *)
(* any number of gateways, clients, orgs and faults: no client is offered   *)
(* an entry twice, and the fan-out of a single gateway reaches everyone.    *)
(***************************************************************************)
EXTENDS Admission, GatewayFanout, TLAPS

Types ==
    /\ now \in Int
    /\ tokens \in [IPs -> 0..MaxTokens]
    /\ lastRefil \in [IPs -> Int]
    /\ at \in [Handlers -> Places]
    /\ stamp \in [Handlers -> Int]
    /\ fill \in [Handlers -> 0..MaxTokens]
    /\ cur \in [Handlers -> 0..MaxTokens]
    /\ listed \subseteq Handlers

\* A handler about to take a token has seen one.
SawToken == \A h \in Handlers : at[h] = "cas" => cur[h] > 0

\* A handler that got past the blocklist without an answer is known as blind.
PastBlocklist == \A h \in Handlers :
    h \in listed => /\ TokenOf[h] \in revoked
                    /\ at[h] \in {"upgrade", "serving"} => h \in blind

IInv == Types /\ SawToken /\ PastBlocklist

-----------------------------------------------------------------------------

LEMMA InitIInv == Init => IInv
<1> SUFFICES ASSUME Init PROVE IInv  OBVIOUS
<1> USE AdmissionConstants DEF Init
<1>1. Types  BY DEF Types, Places
<1>2. SawToken  BY DEF SawToken
<1>3. PastBlocklist  BY DEF PastBlocklist
<1> QED  BY <1>1, <1>2, <1>3 DEF IInv

\* More time than a bucket needs to fill up is worth no more than a full one.
LEMMA FillBounded ==
    ASSUME NEW n \in Int, n > 0
    PROVE  Smaller(n, MaxTokens) \in 0..MaxTokens
BY AdmissionConstants DEF Smaller

LEMMA NewTokensInt ==
    ASSUME Types, NEW h \in Handlers
    PROVE  NewTokens(h) \in Int
<1>1. stamp[h] \in Int /\ lastRefil[IpOf[h]] \in Int /\ RefillNs \in Nat \ {0}
  BY AdmissionConstants DEF Types
<1> QED  BY <1>1 DEF NewTokens

-----------------------------------------------------------------------------

\* One step of checkRateLimit keeps the types and never takes a token it did not see.
LEMMA RateLimitKeeps ==
    ASSUME Types, SawToken, NEW h \in Handlers, checkRateLimit(h)
    PROVE  Types' /\ SawToken'
<1> USE AdmissionConstants
<1>0. IpOf[h] \in IPs  OBVIOUS
<1>1. CASE LoadLast(h)
  <2>1. fill' \in [Handlers -> 0..MaxTokens]
    <3>1. CASE NewTokens(h) > 0 /\ fill' = [fill EXCEPT ![h] = Smaller(NewTokens(h), MaxTokens)]
      BY <3>1, NewTokensInt, FillBounded DEF Types
    <3>2. CASE fill' = fill  BY <3>2 DEF Types
    <3> QED  BY <1>1, <3>1, <3>2 DEF LoadLast
  <2>2. at' \in [Handlers -> Places] /\ stamp' \in [Handlers -> Int]
    BY <1>1 DEF Types, LoadLast, Goto, Places
  <2>3. SawToken'  BY <1>1 DEF Types, SawToken, LoadLast, Goto
  <2> QED  BY <1>1, <2>1, <2>2, <2>3 DEF Types, LoadLast, bucket, hist
<1>2. CASE StampRefill(h)
  BY <1>0, <1>2 DEF Types, SawToken, StampRefill, Goto, Places
<1>3. CASE LoadForRefill(h)
  BY <1>0, <1>3 DEF Types, SawToken, LoadForRefill, Goto, Places, bucket, hist
<1>4. CASE StoreRefill(h)
  <2>1. Smaller(cur[h] + fill[h], MaxTokens) \in 0..MaxTokens
    BY DEF Types, Smaller
  <2>2. Types'  BY <1>0, <1>4, <2>1 DEF Types, StoreRefill, Goto, Places, hist
  <2>3. SawToken'  BY <1>4 DEF Types, SawToken, StoreRefill, Goto
  <2> QED  BY <2>2, <2>3
<1>5. CASE LoadTokens(h)
  BY <1>0, <1>5 DEF Types, SawToken, LoadTokens, Goto, Places, bucket, hist
<1>6. CASE Take(h)
  <2>1. cur[h] > 0 /\ cur[h] - 1 \in 0..MaxTokens
    BY <1>6 DEF Types, SawToken, Take
  <2>2. at' \in [Handlers -> Places] /\ tokens' \in [IPs -> 0..MaxTokens]
    BY <1>0, <1>6, <2>1 DEF Types, Take, Goto, Places, authenticateJWT
  <2>3. at'[h] # "cas"  BY <1>6 DEF Types, Take, Goto, authenticateJWT
  <2>4. \A g \in Handlers \ {h} : at'[g] = at[g] /\ cur'[g] = cur[g]
    BY <1>6 DEF Types, Take, Goto
  <2>5. SawToken'
    <3> SUFFICES ASSUME NEW g \in Handlers, at'[g] = "cas" PROVE cur'[g] > 0
      BY DEF SawToken
    <3>1. g # h  BY <2>3
    <3> QED  BY <2>4, <3>1 DEF SawToken
  <2>6. cur' \in [Handlers -> 0..MaxTokens]  BY <1>6 DEF Types, Take
  <2>7. UNCHANGED <<now, lastRefil, stamp, fill, listed>>  BY <1>6 DEF Take
  <2> QED  BY <2>2, <2>5, <2>6, <2>7 DEF Types
<1> QED  BY <1>1, <1>2, <1>3, <1>4, <1>5, <1>6 DEF checkRateLimit

LEMMA RateLimitKeepsList ==
    ASSUME Types, PastBlocklist, NEW h \in Handlers, checkRateLimit(h)
    PROVE  PastBlocklist'
<1>1. listed' = listed /\ blind' = blind /\ revoked' = revoked
  BY DEF checkRateLimit, LoadLast, StampRefill, LoadForRefill, StoreRefill, LoadTokens, Take, hist
<1>2. \A g \in Handlers : at'[g] \in {"upgrade", "serving"} => at'[g] = at[g]
  BY DEF checkRateLimit, LoadLast, StampRefill, LoadForRefill, StoreRefill, LoadTokens, Take,
         Types, Goto, authenticateJWT
<1> QED  BY <1>1, <1>2 DEF PastBlocklist

LEMMA StepKeepsIInv ==
    ASSUME IInv, [Next]_vars
    PROVE  IInv'
<1> USE DEF IInv
<1>1. ASSUME NEW h \in Handlers, Arrive(h) PROVE IInv'
  BY <1>1 DEF Types, SawToken, PastBlocklist, Arrive, Goto, Places, bucket
<1>2. ASSUME NEW h \in Handlers, checkRateLimit(h) PROVE IInv'
  BY <1>2, RateLimitKeeps, RateLimitKeepsList
<1>3. ASSUME NEW h \in Handlers, isTokenRevoked(h) PROVE IInv'
  BY <1>3 DEF Types, SawToken, PastBlocklist, isTokenRevoked, Goto, Places, bucket, local
<1>4. ASSUME NEW h \in Handlers, Upgrade(h) PROVE IInv'
  BY <1>4 DEF Types, SawToken, PastBlocklist, Upgrade, Goto, Places, bucket, local, hist
<1>5. ASSUME NEW t \in Tokens, Revoke(t) PROVE IInv'
  BY <1>5 DEF Types, SawToken, PastBlocklist, Revoke, bucket, local, hist
<1>6. CASE Tick
  BY <1>6 DEF Types, SawToken, PastBlocklist, Tick, bucket, local, hist
<1>7. CASE UNCHANGED vars
  BY <1>7 DEF Types, SawToken, PastBlocklist, vars, bucket, local, hist
<1> QED  BY <1>1, <1>2, <1>3, <1>4, <1>5, <1>6, <1>7 DEF Next, handler

LEMMA SpecIInv == Spec => []IInv
BY InitIInv, StepKeepsIInv, PTL DEF Spec

-----------------------------------------------------------------------------

(* The non-atomic refill of a token bucket never lets it hold more than the  *)
(* burst or less than nothing, for any number of concurrent handlers.        *)
THEOREM BucketsBounded == Spec => []TokensWithinBurst
<1>1. IInv => TokensWithinBurst  BY DEF IInv, Types, TokensWithinBurst
<1> QED  BY SpecIInv, <1>1, PTL

(* A token on the blocklist before its request arrived is not served, unless *)
(* it has no jti or Redis did not answer.                                    *)
THEOREM RevokedNotServed == Spec => []RevokedStaysOut
<1>1. IInv => RevokedStaysOut
  <2> SUFFICES ASSUME IInv, NEW h \in listed, at[h] = "serving" PROVE h \in blind
    BY DEF RevokedStaysOut
  <2>1. h \in Handlers  BY DEF IInv, Types
  <2> QED  BY <2>1 DEF IInv, PastBlocklist
<1> QED  BY SpecIInv, <1>1, PTL

-----------------------------------------------------------------------------
(* RateRespected *)

\* The clock never runs behind a reading that is still in use.
Clocks ==
    /\ now >= Start
    /\ \A h \in Handlers : at[h] \in {"last", "stamp"} => stamp[h] >= Start /\ stamp[h] <= now

Counters == admitted \in [IPs -> Nat] /\ begun \in [IPs -> Int]

\* What a bucket has earned by its last refill.
Earned(i) == MaxTokens + (lastRefil[i] - begun[i]) \div RefillNs

\* Nothing is taken from a bucket before its first refill is over, ...
Untouched(i) ==
    /\ begun[i] = Start /\ tokens[i] = MaxTokens /\ admitted[i] = 0
    /\ \A h \in Handlers : IpOf[h] = i => at[h] \notin {"tokens", "store", "load", "cas"}

\* ... and later it has given and holds at most what it earned.
Solvent(i) ==
    /\ begun[i] <= lastRefil[i] /\ lastRefil[i] <= now
    /\ tokens[i] + admitted[i] <= Earned(i)

\* A refill under way will stay within what is earned when it is stored.
RefillDue(h) == LET i == IpOf[h] IN
    /\ at[h] = "stamp" =>
           /\ stamp[h] > lastRefil[i]
           /\ fill[h] <= (stamp[h] - lastRefil[i]) \div RefillNs
    /\ at[h] = "tokens" => Smaller(tokens[i] + fill[h], MaxTokens) + admitted[i] <= Earned(i)
    /\ at[h] = "store" => Smaller(cur[h] + fill[h], MaxTokens) + admitted[i] <= Earned(i)

Budget(i) ==
    /\ \A g, h \in Refilling(i) : g = h
    /\ lastRefil[i] = 0 => Untouched(i)
    /\ lastRefil[i] # 0 => Solvent(i)
    /\ \A h \in Refilling(i) : RefillDue(h)

Budgets == \A i \in IPs \ mixed : Budget(i)

RateInv == Clocks /\ Counters /\ Budgets

LEMMA DivBounds ==
    ASSUME NEW a \in Int, NEW r \in Nat \ {0}
    PROVE  a \div r \in Int /\ r * (a \div r) <= a /\ a < r * (a \div r) + r
OBVIOUS

LEMMA ProductGrows ==
    ASSUME NEW r \in Nat \ {0}, NEW p \in Int, NEW q \in Int, p >= q + 1
    PROVE  r * p >= r * q + r
<1>1. p - (q + 1) \in Nat /\ r \in Nat  OBVIOUS
<1>2. r * (p - (q + 1)) >= 0  BY <1>1
<1>3. r * (p - (q + 1)) = r * p - (r * q + r)  BY <1>1
<1> QED  BY <1>2, <1>3

LEMMA DivMonotone ==
    ASSUME NEW r \in Nat \ {0}, NEW a \in Int, NEW b \in Int, a <= b
    PROVE  a \div r <= b \div r
<1> DEFINE p == a \div r
           q == b \div r
<1>1. p \in Int /\ q \in Int /\ r * p <= a /\ b < r * q + r  BY DivBounds
<1>2. r * p \in Int /\ r * q \in Int  BY <1>1
<1> HIDE DEF p, q
<1>3. ASSUME p >= q + 1 PROVE FALSE
  <2>1. r * p >= r * q + r  BY <1>1, <1>3, ProductGrows
  <2> QED  BY <1>1, <1>2, <2>1
<1>4. p <= q  BY <1>1, <1>3
<1> QED  BY <1>4 DEF p, q

LEMMA DivAdds ==
    ASSUME NEW r \in Nat \ {0}, NEW a \in Int, NEW b \in Int
    PROVE  a \div r + b \div r <= (a + b) \div r
<1> DEFINE p == a \div r
           q == b \div r
           s == (a + b) \div r
<1>1. /\ p \in Int /\ q \in Int /\ s \in Int
      /\ r * p <= a /\ r * q <= b /\ a + b < r * s + r
  BY DivBounds
<1>2. r * p \in Int /\ r * q \in Int /\ r * s \in Int  BY <1>1
<1> HIDE DEF p, q, s
<1>3. r * (p + q) = r * p + r * q  BY <1>1
<1>4. ASSUME p + q >= s + 1 PROVE FALSE
  <2>1. r * (p + q) >= r * s + r  BY <1>1, <1>4, ProductGrows
  <2> QED  BY <1>1, <1>2, <1>3, <2>1
<1>5. p + q <= s  BY <1>1, <1>4
<1> QED  BY <1>5 DEF p, q, s

-----------------------------------------------------------------------------

LEMMA ConstantsInt ==
    /\ Start \in Nat /\ Start > 0 /\ MaxTokens \in Nat \ {0} /\ RefillNs \in Nat \ {0}
    /\ IpOf \in [Handlers -> IPs]
    /\ MaxTokens * RefillNs <= Start
<1>1. /\ MaxTokens \in Nat \ {0} /\ RefillNs \in Nat \ {0} /\ IpOf \in [Handlers -> IPs]
      /\ Start \in Nat /\ Start >= MaxTokens * RefillNs
  BY AdmissionConstants
<1>2. MaxTokens * RefillNs >= 1
  <2>1. MaxTokens >= 0 + 1  BY <1>1
  <2>2. RefillNs * MaxTokens >= RefillNs * 0 + RefillNs  BY <1>1, <2>1, ProductGrows
  <2>3. RefillNs * MaxTokens = MaxTokens * RefillNs /\ RefillNs * 0 = 0  BY <1>1
  <2>4. MaxTokens * RefillNs \in Int  BY <1>1
  <2> QED  BY <1>1, <2>2, <2>3, <2>4
<1>3. MaxTokens * RefillNs \in Int  BY <1>1
<1> QED  BY <1>1, <1>2, <1>3

\* The first to see a bucket always refills it: the clock is that far from zero.
LEMMA FirstRefills ==
    ASSUME Types, Clocks, NEW h \in Handlers, at[h] = "last", lastRefil[IpOf[h]] = 0
    PROVE  NewTokens(h) > 0
<1> DEFINE t == stamp[h]
<1>1. t \in Int /\ t >= Start  BY DEF Types, Clocks
<1> HIDE DEF t
<1>2. t > 0 /\ t \in Int  BY <1>1, ConstantsInt
<1>3. t \div RefillNs >= (MaxTokens * RefillNs) \div RefillNs
  <2>1. MaxTokens * RefillNs \in Int /\ MaxTokens * RefillNs <= t  BY <1>1, ConstantsInt
  <2> QED  BY <1>1, <2>1, ConstantsInt, DivMonotone
<1>4. (MaxTokens * RefillNs) \div RefillNs >= 1
  <2> DEFINE m == MaxTokens * RefillNs
             q == m \div RefillNs
  <2>1. m \in Int /\ m >= RefillNs
    <3>1. MaxTokens >= 0 + 1  BY ConstantsInt
    <3>2. RefillNs * MaxTokens >= RefillNs * 0 + RefillNs  BY <3>1, ConstantsInt, ProductGrows
    <3>3. RefillNs * MaxTokens = m /\ RefillNs * 0 = 0 /\ m \in Int  BY ConstantsInt
    <3> QED  BY <3>2, <3>3, ConstantsInt
  <2> HIDE DEF m
  <2>2. q \in Int /\ m < RefillNs * q + RefillNs  BY <2>1, ConstantsInt, DivBounds
  <2> HIDE DEF q
  <2>3. ASSUME 0 >= q PROVE FALSE
    <3>1. 1 >= q + 1  BY <2>2, <2>3
    <3>2. RefillNs * 1 >= RefillNs * q + RefillNs  BY <2>2, <3>1, ConstantsInt, ProductGrows
    <3>3. RefillNs * 1 = RefillNs /\ RefillNs * q \in Int  BY <2>2, ConstantsInt
    <3> QED  BY <2>1, <2>2, <3>2, <3>3, ConstantsInt
  <2>4. q >= 1  BY <2>2, <2>3
  <2> QED  BY <2>4 DEF q, m
<1>5. t \div RefillNs \in Int /\ (MaxTokens * RefillNs) \div RefillNs \in Int
  <2>1. MaxTokens * RefillNs \in Int  BY ConstantsInt
  <2> QED  BY <1>1, <2>1, ConstantsInt, DivBounds
<1>6. t \div RefillNs > 0  BY <1>3, <1>4, <1>5
<1>7. t - 0 = t  BY <1>1
<1> QED  BY <1>2, <1>6, <1>7 DEF NewTokens, t

\* A step that leaves a bucket alone, and the refills of it under way.
Alone(i) ==
    /\ tokens'[i] = tokens[i] /\ lastRefil'[i] = lastRefil[i]
    /\ begun'[i] = begun[i] /\ admitted'[i] = admitted[i]
    /\ now' >= now
    /\ \A h \in Handlers : IpOf[h] = i =>
          \/ at'[h] = at[h] /\ stamp'[h] = stamp[h] /\ fill'[h] = fill[h] /\ cur'[h] = cur[h]
          \/ at'[h] \notin {"stamp", "tokens", "store", "load", "cas"}
          \/ lastRefil[i] # 0 /\ at'[h] \in {"load", "cas"}

LEMMA AloneKeeps ==
    ASSUME Types, Types', NEW i \in IPs, Budget(i), Alone(i)
    PROVE  Budget(i)'
<1>1. ASSUME NEW h \in Refilling(i)'
      PROVE  /\ h \in Refilling(i)
             /\ at'[h] = at[h] /\ stamp'[h] = stamp[h] /\ fill'[h] = fill[h] /\ cur'[h] = cur[h]
  BY <1>1 DEF Refilling, Alone
<1>2. \A g, h \in Refilling(i)' : g = h  BY <1>1 DEF Budget
<1>3. lastRefil'[i] = 0 => Untouched(i)'  BY DEF Alone, Budget, Untouched
<1>4. lastRefil'[i] # 0 => Solvent(i)'
  <2>1. now \in Int /\ now' \in Int /\ lastRefil[i] \in Int  BY DEF Types
  <2> QED  BY <2>1 DEF Alone, Budget, Solvent, Earned
<1>5. \A h \in Refilling(i)' : RefillDue(h)'
  <2> SUFFICES ASSUME NEW h \in Refilling(i)' PROVE RefillDue(h)'  OBVIOUS
  <2>1. RefillDue(h) /\ IpOf[h] = i  BY <1>1 DEF Budget, Refilling
  <2> QED  BY <1>1, <2>1 DEF RefillDue, Alone, Earned, Smaller
<1> QED  BY <1>2, <1>3, <1>4, <1>5 DEF Budget

\* The bookkeeping of a step of one handler: all that concerns the other buckets.
Elsewhere(h) ==
    /\ \A i \in IPs : i # IpOf[h] =>
          /\ tokens'[i] = tokens[i] /\ lastRefil'[i] = lastRefil[i]
          /\ begun'[i] = begun[i] /\ admitted'[i] = admitted[i]
    /\ \A g \in Handlers : g # h =>
          at'[g] = at[g] /\ stamp'[g] = stamp[g] /\ fill'[g] = fill[g] /\ cur'[g] = cur[g]
    /\ now' = now /\ mixed \subseteq mixed'

\* So one handler's step keeps all budgets if it keeps that of its own bucket.
LEMMA OwnBucketKeeps ==
    ASSUME Types, Types', Budgets, NEW h \in Handlers, Elsewhere(h),
           IpOf[h] \notin mixed' => Budget(IpOf[h])'
    PROVE  Budgets'
<1> SUFFICES ASSUME NEW i \in IPs, i \notin mixed' PROVE Budget(i)'  BY DEF Budgets
<1>1. CASE i = IpOf[h]  BY <1>1
<1>2. CASE i # IpOf[h]
  <2>1. now' >= now  BY DEF Elsewhere, Types
  <2>2. Alone(i)  BY <1>2, <2>1 DEF Elsewhere, Alone
  <2>3. Budget(i)  BY DEF Budgets, Elsewhere
  <2> QED  BY <2>2, <2>3, AloneKeeps
<1> QED  BY <1>1, <1>2

LEMMA LoadLastRate ==
    ASSUME Types, Types', RateInv, NEW h \in Handlers, LoadLast(h)
    PROVE  Budgets'
<1> DEFINE i == IpOf[h]
<1>1. i \in IPs  BY ConstantsInt
<1>2. /\ at[h] = "last"
      /\ UNCHANGED <<now, tokens, lastRefil, cur, admitted, begun>>
      /\ \/ /\ NewTokens(h) > 0 /\ at' = [at EXCEPT ![h] = "stamp"] /\ stamp' = stamp
            /\ fill' = [fill EXCEPT ![h] = Smaller(NewTokens(h), MaxTokens)]
            /\ mixed' = IF Refilling(i) # {} THEN mixed \cup {i} ELSE mixed
         \/ /\ NewTokens(h) = 0 /\ at' = [at EXCEPT ![h] = "load"]
            /\ stamp' = [stamp EXCEPT ![h] = 0]
            /\ UNCHANGED <<fill, mixed>>
  BY DEF LoadLast, Goto, bucket
<1>3. Elsewhere(h)  BY <1>2 DEF Elsewhere, Types
<1>4. SUFFICES ASSUME i \notin mixed' PROVE Budget(i)'
  BY <1>3, OwnBucketKeeps DEF RateInv
<1>5. Budget(i)  BY <1>1, <1>3, <1>4 DEF RateInv, Budgets, Elsewhere
<1>6. now' >= now  BY <1>2 DEF Types
<1>7. CASE NewTokens(h) = 0 /\ at' = [at EXCEPT ![h] = "load"]
           /\ stamp' = [stamp EXCEPT ![h] = 0] /\ UNCHANGED <<fill, mixed>>
  <2>1. lastRefil[i] # 0  BY <1>2, <1>7, FirstRefills DEF RateInv
  <2>2. at'[h] = "load"  BY <1>7 DEF Types
  <2>3. Alone(i)  BY <1>2, <1>3, <1>6, <2>1, <2>2 DEF Alone, Elsewhere
  <2> QED  BY <1>1, <1>5, <2>3, AloneKeeps
<1>8. CASE /\ NewTokens(h) > 0 /\ at' = [at EXCEPT ![h] = "stamp"] /\ stamp' = stamp
           /\ fill' = [fill EXCEPT ![h] = Smaller(NewTokens(h), MaxTokens)]
           /\ mixed' = IF Refilling(i) # {} THEN mixed \cup {i} ELSE mixed
  <2>1. Refilling(i) = {}  BY <1>4, <1>8
  <2>2. \A g \in Refilling(i)' : g = h
    BY <1>8, <2>1 DEF Refilling, Types
  <2>3. lastRefil'[i] = 0 => Untouched(i)'
    BY <1>2, <1>5, <1>8 DEF Budget, Untouched, Types
  <2>4. lastRefil'[i] # 0 => Solvent(i)'
    BY <1>2, <1>5 DEF Budget, Solvent, Earned
  <2>5. RefillDue(h)'
    <3>1. at'[h] = "stamp"  BY <1>8 DEF Types
    <3>2. /\ stamp[h] \in Int /\ lastRefil[i] \in Int /\ fill'[h] = Smaller(NewTokens(h), MaxTokens)
      BY <1>1, <1>8 DEF Types
    <3>3. stamp[h] > lastRefil[i] /\ NewTokens(h) = (stamp[h] - lastRefil[i]) \div RefillNs
      <4>1. stamp[h] - lastRefil[i] > 0 /\ NewTokens(h) = (stamp[h] - lastRefil[i]) \div RefillNs
        BY <1>8 DEF NewTokens
      <4> QED  BY <3>2, <4>1
    <3>4. NewTokens(h) \in Int /\ MaxTokens \in Int  BY NewTokensInt, ConstantsInt
    <3>5. fill'[h] <= NewTokens(h)  BY <3>2, <3>4 DEF Smaller
    <3> QED  BY <1>2, <1>8, <3>1, <3>3, <3>5 DEF RefillDue
  <2> QED  BY <2>2, <2>3, <2>4, <2>5 DEF Budget
<1> QED  BY <1>2, <1>7, <1>8

\* The elapsed time is paid out at once: floors of two spans add up to no more than the
\* floor of the sum.
LEMMA StampRefillRate ==
    ASSUME Types, Types', RateInv, NEW h \in Handlers, StampRefill(h)
    PROVE  Budgets'
<1> DEFINE i == IpOf[h]
<1>1. i \in IPs  BY ConstantsInt
<1>2. /\ at[h] = "stamp" /\ at' = [at EXCEPT ![h] = "tokens"]
      /\ lastRefil' = [lastRefil EXCEPT ![i] = stamp[h]] /\ stamp' = [stamp EXCEPT ![h] = 0]
      /\ begun' = IF lastRefil[i] = 0 THEN [begun EXCEPT ![i] = stamp[h]] ELSE begun
      /\ UNCHANGED <<now, tokens, fill, cur, admitted, mixed>>
  BY DEF StampRefill, Goto
<1>3. Elsewhere(h)
  BY <1>1, <1>2 DEF Elsewhere, Types, RateInv, Counters
<1>4. SUFFICES ASSUME i \notin mixed' PROVE Budget(i)'
  BY <1>3, OwnBucketKeeps DEF RateInv
<1>5. Budget(i)  BY <1>1, <1>3, <1>4 DEF RateInv, Budgets, Elsewhere
<1>6. h \in Refilling(i) /\ RefillDue(h)  BY <1>2, <1>5 DEF Refilling, Budget
<1>7. \A g \in Refilling(i)' : g = h
  <2>1. Refilling(i)' \subseteq Refilling(i)  BY <1>2, <1>6 DEF Refilling, Types
  <2> QED  BY <1>5, <1>6, <2>1 DEF Budget
<1> DEFINE s == stamp[h]
           l == lastRefil[i]
           b == begun[i]
           n == tokens[i]
           a == admitted[i]
           f == fill[h]
<1>8. /\ s \in Int /\ l \in Int /\ b \in Int /\ n \in 0..MaxTokens /\ a \in Nat
      /\ f \in 0..MaxTokens /\ MaxTokens \in Nat /\ RefillNs \in Nat \ {0} /\ now \in Int
  BY <1>1, ConstantsInt DEF Types, RateInv, Counters
<1>9. s <= now /\ s # 0 /\ s > l /\ f <= (s - l) \div RefillNs
  BY <1>2, <1>6, <1>8, ConstantsInt DEF RateInv, Clocks, RefillDue
<1>10. /\ lastRefil'[i] = s /\ tokens'[i] = n /\ admitted'[i] = a /\ fill'[h] = f
       /\ begun'[i] = (IF l = 0 THEN s ELSE b) /\ now' = now /\ at'[h] = "tokens"
  BY <1>1, <1>2 DEF Types, RateInv, Counters
<1>11. /\ l = 0 => n = MaxTokens /\ a = 0
       /\ l # 0 => b <= l /\ n + a <= MaxTokens + (l - b) \div RefillNs
  BY <1>5 DEF Budget, Untouched, Solvent, Earned
<1> DEFINE c == IF l = 0 THEN s ELSE b
<1> HIDE DEF s, l, b, n, a, f
<1>12. /\ c \in Int /\ c <= s
       /\ n + a <= MaxTokens + (s - c) \div RefillNs
       /\ Smaller(n + f, MaxTokens) + a <= MaxTokens + (s - c) \div RefillNs
  <2>1. CASE l = 0
    <3>1. c = s /\ s - c = 0  BY <1>8, <2>1
    <3>2. 0 \div RefillNs = 0
      <4>1. 0 \div RefillNs \in Int /\ RefillNs * (0 \div RefillNs) <= 0
            /\ 0 < RefillNs * (0 \div RefillNs) + RefillNs
        BY <1>8, DivBounds
      <4> QED  BY <1>8, <4>1
    <3>3. Smaller(n + f, MaxTokens) <= MaxTokens  BY <1>8 DEF Smaller
    <3> QED  BY <1>8, <1>11, <2>1, <3>1, <3>2, <3>3 DEF Smaller
  <2>2. CASE l # 0
    <3> DEFINE x == l - b
               y == s - l
               p == x \div RefillNs
               q == y \div RefillNs
               r == (x + y) \div RefillNs
    <3>1. x \in Int /\ y \in Int /\ x + y \in Int /\ y >= 0  BY <1>8, <1>9
    <3>2. p \in Int /\ q \in Int /\ r \in Int  BY <1>8, <3>1, DivBounds
    <3>3. p + q <= r  BY <1>8, <3>1, DivAdds
    <3>4. x + y = s - c /\ c \in Int /\ c <= s  BY <1>8, <1>9, <1>11, <2>2
    <3>5. n + a <= MaxTokens + p /\ f <= q  BY <1>9, <1>11, <2>2
    <3>6. r = (s - c) \div RefillNs  BY <3>4
    <3> HIDE DEF p, q, r, x, y, c
    <3>7. Smaller(n + f, MaxTokens) <= n + f  BY <1>8 DEF Smaller
    <3>8. Smaller(n + f, MaxTokens) \in Int  BY <1>8 DEF Smaller
    <3>9. n + a <= MaxTokens + r /\ Smaller(n + f, MaxTokens) + a <= MaxTokens + r
      BY <1>8, <3>2, <3>3, <3>5, <3>7, <3>8
    <3> QED  BY <3>4, <3>6, <3>9
  <2> QED  BY <2>1, <2>2
<1>13. lastRefil'[i] # 0 /\ Solvent(i)'
  BY <1>8, <1>9, <1>10, <1>12 DEF Solvent, Earned
<1>14. RefillDue(h)'
  BY <1>10, <1>12 DEF RefillDue, Earned, Smaller
<1> QED  BY <1>7, <1>13, <1>14 DEF Budget

LEMMA LoadForRefillRate ==
    ASSUME Types, Types', RateInv, NEW h \in Handlers, LoadForRefill(h)
    PROVE  Budgets'
<1> DEFINE i == IpOf[h]
<1>1. i \in IPs  BY ConstantsInt
<1>2. /\ at[h] = "tokens" /\ at' = [at EXCEPT ![h] = "store"]
      /\ cur' = [cur EXCEPT ![h] = tokens[i]]
      /\ UNCHANGED <<now, tokens, lastRefil, stamp, fill, admitted, begun, mixed>>
  BY DEF LoadForRefill, Goto, bucket, hist
<1>3. Elsewhere(h)  BY <1>2 DEF Elsewhere, Types
<1>4. SUFFICES ASSUME i \notin mixed' PROVE Budget(i)'
  BY <1>3, OwnBucketKeeps DEF RateInv
<1>5. Budget(i)  BY <1>1, <1>3, <1>4 DEF RateInv, Budgets, Elsewhere
<1>6. h \in Refilling(i) /\ RefillDue(h)  BY <1>2, <1>5 DEF Refilling, Budget
<1>7. \A g \in Refilling(i)' : g = h
  <2>1. Refilling(i)' \subseteq Refilling(i)  BY <1>2, <1>6 DEF Refilling, Types
  <2> QED  BY <1>5, <1>6, <2>1 DEF Budget
<1>8. lastRefil'[i] # 0 /\ Solvent(i)'
  BY <1>2, <1>5 DEF Budget, Untouched, Solvent, Earned
<1>9. RefillDue(h)'
  <2>1. at'[h] = "store" /\ cur'[h] = tokens[i]  BY <1>2 DEF Types
  <2> QED  BY <1>2, <1>6, <2>1 DEF RefillDue, Earned, Smaller
<1> QED  BY <1>7, <1>8, <1>9 DEF Budget

LEMMA StoreRefillRate ==
    ASSUME Types, Types', RateInv, NEW h \in Handlers, StoreRefill(h)
    PROVE  Budgets'
<1> DEFINE i == IpOf[h]
<1>1. i \in IPs  BY ConstantsInt
<1>2. /\ at[h] = "store" /\ at' = [at EXCEPT ![h] = "load"]
      /\ tokens' = [tokens EXCEPT ![i] = Smaller(cur[h] + fill[h], MaxTokens)]
      /\ fill' = [fill EXCEPT ![h] = 0] /\ cur' = [cur EXCEPT ![h] = 0]
      /\ UNCHANGED <<now, lastRefil, stamp, admitted, begun, mixed>>
  BY DEF StoreRefill, Goto, hist
<1>3. Elsewhere(h)  BY <1>1, <1>2 DEF Elsewhere, Types
<1>4. SUFFICES ASSUME i \notin mixed' PROVE Budget(i)'
  BY <1>3, OwnBucketKeeps DEF RateInv
<1>5. Budget(i)  BY <1>1, <1>3, <1>4 DEF RateInv, Budgets, Elsewhere
<1>6. h \in Refilling(i) /\ RefillDue(h)  BY <1>2, <1>5 DEF Refilling, Budget
<1>7. Refilling(i)' = {}
  <2>1. Refilling(i)' \subseteq Refilling(i) \ {h}  BY <1>2 DEF Refilling, Types
  <2> QED  BY <1>5, <1>6, <2>1 DEF Budget
<1>8. lastRefil'[i] # 0 /\ Solvent(i)'
  <2>1. tokens'[i] = Smaller(cur[h] + fill[h], MaxTokens)  BY <1>1, <1>2 DEF Types
  <2>2. Smaller(cur[h] + fill[h], MaxTokens) + admitted[i] <= Earned(i)
    BY <1>2, <1>6 DEF RefillDue
  <2>3. lastRefil[i] # 0 /\ Solvent(i)  BY <1>2, <1>5 DEF Budget, Untouched
  <2> QED  BY <1>2, <2>1, <2>2, <2>3 DEF Solvent, Earned
<1> QED  BY <1>7, <1>8 DEF Budget

LEMMA LoadTokensRate ==
    ASSUME Types, Types', RateInv, NEW h \in Handlers, LoadTokens(h)
    PROVE  Budgets'
<1> DEFINE i == IpOf[h]
<1>1. i \in IPs  BY ConstantsInt
<1>2. /\ at[h] = "load" /\ at'[h] \in {"refused", "cas"}
      /\ \A g \in Handlers : g # h => at'[g] = at[g] /\ cur'[g] = cur[g]
      /\ UNCHANGED <<now, tokens, lastRefil, stamp, fill, admitted, begun, mixed>>
  BY DEF LoadTokens, Goto, Types, bucket, hist
<1>3. Elsewhere(h)  BY <1>2 DEF Elsewhere
<1>4. SUFFICES ASSUME i \notin mixed' PROVE Budget(i)'
  BY <1>3, OwnBucketKeeps DEF RateInv
<1>5. Budget(i)  BY <1>1, <1>3, <1>4 DEF RateInv, Budgets, Elsewhere
<1>6. lastRefil[i] # 0  BY <1>2, <1>5 DEF Budget, Untouched
<1>7. now' >= now  BY <1>2 DEF Types
<1>8. Alone(i)  BY <1>2, <1>6, <1>7 DEF Alone
<1> QED  BY <1>1, <1>5, <1>8, AloneKeeps

LEMMA TakeRate ==
    ASSUME Types, Types', RateInv, NEW h \in Handlers, Take(h)
    PROVE  Budgets'
<1> DEFINE i == IpOf[h]
<1>1. i \in IPs  BY ConstantsInt
<1>2. /\ at[h] = "cas" /\ cur' = [cur EXCEPT ![h] = 0]
      /\ UNCHANGED <<now, lastRefil, stamp, fill, begun>>
      /\ \/ /\ tokens[i] = cur[h]
            /\ \E place \in {"revocation", "refused"} : at' = [at EXCEPT ![h] = place]
            /\ tokens' = [tokens EXCEPT ![i] = cur[h] - 1]
            /\ admitted' = [admitted EXCEPT ![i] = @ + 1]
            /\ mixed' = IF Refilling(i) # {} THEN mixed \cup {i} ELSE mixed
         \/ at' = [at EXCEPT ![h] = "load"] /\ UNCHANGED <<tokens, admitted, mixed>>
  BY DEF Take, Goto, authenticateJWT
<1>3. Elsewhere(h)  BY <1>1, <1>2 DEF Elsewhere, Types, RateInv, Counters
<1>4. SUFFICES ASSUME i \notin mixed' PROVE Budget(i)'
  BY <1>3, OwnBucketKeeps DEF RateInv
<1>5. Budget(i)  BY <1>1, <1>3, <1>4 DEF RateInv, Budgets, Elsewhere
<1>6. lastRefil[i] # 0 /\ Solvent(i)  BY <1>2, <1>5 DEF Budget, Untouched
<1>7. CASE at' = [at EXCEPT ![h] = "load"] /\ UNCHANGED <<tokens, admitted, mixed>>
  <2>1. now' >= now  BY <1>2 DEF Types
  <2>2. at'[h] = "load"  BY <1>7 DEF Types
  <2>3. Alone(i)  BY <1>2, <1>3, <1>6, <1>7, <2>1, <2>2 DEF Alone, Elsewhere
  <2> QED  BY <1>1, <1>5, <2>3, AloneKeeps
<1>8. CASE /\ tokens[i] = cur[h]
           /\ \E place \in {"revocation", "refused"} : at' = [at EXCEPT ![h] = place]
           /\ tokens' = [tokens EXCEPT ![i] = cur[h] - 1]
           /\ admitted' = [admitted EXCEPT ![i] = @ + 1]
           /\ mixed' = IF Refilling(i) # {} THEN mixed \cup {i} ELSE mixed
  <2>1. Refilling(i) = {}  BY <1>4, <1>8
  <2>2. Refilling(i)' = {}  BY <1>8, <2>1 DEF Refilling, Types
  <2>3. tokens'[i] = tokens[i] - 1 /\ admitted'[i] = admitted[i] + 1
    BY <1>1, <1>8 DEF Types, RateInv, Counters
  <2>4. tokens[i] \in Int /\ admitted[i] \in Int
    BY <1>1, ConstantsInt DEF Types, RateInv, Counters
  <2>5. tokens'[i] + admitted'[i] = tokens[i] + admitted[i]  BY <2>3, <2>4
  <2>6. Solvent(i)'  BY <1>2, <1>6, <2>5 DEF Solvent, Earned
  <2> QED  BY <1>2, <1>6, <2>2, <2>6 DEF Budget
<1> QED  BY <1>2, <1>7, <1>8

-----------------------------------------------------------------------------

LEMMA InitRateInv == Init => RateInv
<1> SUFFICES ASSUME Init PROVE RateInv  OBVIOUS
<1>1. Clocks  BY ConstantsInt DEF Init, Clocks
<1>2. Counters  BY ConstantsInt DEF Init, Counters
<1>3. Budgets
  <2> SUFFICES ASSUME NEW i \in IPs PROVE Budget(i)  BY DEF Budgets
  <2>1. Refilling(i) = {}  BY DEF Init, Refilling
  <2> QED  BY <2>1 DEF Init, Budget, Untouched
<1> QED  BY <1>1, <1>2, <1>3 DEF RateInv

LEMMA ClocksKept ==
    ASSUME Types, Types', RateInv, [Next]_vars
    PROVE  Clocks' /\ Counters'
<1> USE DEF RateInv
<1>0. Start \in Int /\ now \in Int  BY ConstantsInt DEF Types
<1>1. ASSUME NEW h \in Handlers, Arrive(h) PROVE Clocks' /\ Counters'
  BY <1>0, <1>1 DEF Types, Clocks, Counters, Arrive, Goto, bucket
<1>2. ASSUME NEW h \in Handlers, checkRateLimit(h) PROVE Clocks' /\ Counters'
  <2>1. now' = now /\ \A g \in Handlers : at'[g] \in {"last", "stamp"} =>
                          at[g] \in {"last", "stamp"} /\ stamp'[g] = stamp[g]
    BY <1>2 DEF Types, checkRateLimit, LoadLast, StampRefill, LoadForRefill, StoreRefill,
                LoadTokens, Take, Goto, authenticateJWT
  <2>2. Clocks'  BY <2>1 DEF Clocks
  <2>3. begun' \in [IPs -> Int]
    BY <1>2, ConstantsInt
    DEF Types, Counters, checkRateLimit, LoadLast, StampRefill, LoadForRefill, StoreRefill,
        LoadTokens, Take, hist
  <2>4. admitted' \in [IPs -> Nat]
    BY <1>2, ConstantsInt
    DEF Types, Counters, checkRateLimit, LoadLast, StampRefill, LoadForRefill, StoreRefill,
        LoadTokens, Take, hist
  <2> QED  BY <2>2, <2>3, <2>4 DEF Counters
<1>3. ASSUME NEW h \in Handlers, isTokenRevoked(h) PROVE Clocks' /\ Counters'
  BY <1>3 DEF Types, Clocks, Counters, isTokenRevoked, Goto, local
<1>4. ASSUME NEW h \in Handlers, Upgrade(h) PROVE Clocks' /\ Counters'
  BY <1>4 DEF Types, Clocks, Counters, Upgrade, Goto, local, hist
<1>5. ASSUME NEW t \in Tokens, Revoke(t) PROVE Clocks' /\ Counters'
  BY <1>5 DEF Clocks, Counters, Revoke, local, hist
<1>6. CASE Tick
  BY <1>0, <1>6 DEF Types, Clocks, Counters, Tick, local, hist
<1>7. CASE UNCHANGED vars
  BY <1>7 DEF Clocks, Counters, vars, local, hist
<1> QED  BY <1>1, <1>2, <1>3, <1>4, <1>5, <1>6, <1>7 DEF Next, handler

LEMMA BudgetsKept ==
    ASSUME Types, Types', RateInv, [Next]_vars
    PROVE  Budgets'
<1> DEFINE Quiet(h) == /\ at'[h] = at[h] \/ at'[h] \notin {"stamp", "tokens", "store", "load", "cas"}
                       /\ at'[h] # at[h] \/ stamp'[h] = stamp[h]
                       /\ fill'[h] = fill[h] /\ cur'[h] = cur[h]
<1>1. ASSUME UNCHANGED <<bucket, admitted, begun, mixed>>, now' >= now,
             \A h \in Handlers : Quiet(h)
      PROVE  Budgets'
  <2> SUFFICES ASSUME NEW i \in IPs, i \notin mixed PROVE Budget(i)'  BY <1>1 DEF Budgets
  <2>1. Budget(i)  BY DEF RateInv, Budgets
  <2>2. Alone(i)  BY <1>1 DEF Alone, bucket
  <2> QED  BY <2>1, <2>2, AloneKeeps
<1>2. now \in Int  BY DEF Types
<1>3. ASSUME NEW h \in Handlers, Arrive(h) PROVE Budgets'
  <2>1. UNCHANGED <<bucket, admitted, begun, mixed>> /\ now' >= now  BY <1>2, <1>3 DEF Arrive
  <2>2. \A g \in Handlers : Quiet(g)  BY <1>3 DEF Arrive, Goto, Types
  <2> QED  BY <1>1, <2>1, <2>2
<1>4. ASSUME NEW h \in Handlers, isTokenRevoked(h) \/ Upgrade(h) PROVE Budgets'
  <2>1. UNCHANGED <<bucket, admitted, begun, mixed>> /\ now' >= now
    BY <1>2, <1>4 DEF isTokenRevoked, Upgrade, hist
  <2>2. \A g \in Handlers : Quiet(g)  BY <1>4 DEF isTokenRevoked, Upgrade, Goto, Types, local
  <2> QED  BY <1>1, <2>1, <2>2
<1>5. CASE (\E t \in Tokens : Revoke(t)) \/ Tick \/ UNCHANGED vars
  <2>1. UNCHANGED <<bucket, admitted, begun, mixed, at, stamp, fill, cur>> /\ now' >= now
    BY <1>2, <1>5 DEF Revoke, Tick, vars, local, hist
  <2> QED  BY <1>1, <2>1
<1>6. ASSUME NEW h \in Handlers, checkRateLimit(h) PROVE Budgets'
  BY <1>6, LoadLastRate, StampRefillRate, LoadForRefillRate, StoreRefillRate, LoadTokensRate,
     TakeRate DEF checkRateLimit
<1> QED  BY <1>3, <1>4, <1>5, <1>6 DEF Next, handler

(* An address gets the burst and one token per RefillNs, counting those still *)
(* in its bucket, for any burst and any refill rate, as long as no refill of  *)
(* its bucket overlaps another refill or a take.                              *)
THEOREM RateIsRespected == Spec => []RateRespected
<1>1. IInv /\ IInv' /\ RateInv /\ [Next]_vars => RateInv'
  BY ClocksKept, BudgetsKept DEF IInv, RateInv
<1>2. IInv /\ RateInv => RateRespected
  <2> SUFFICES ASSUME IInv, RateInv, NEW i \in IPs \ mixed
               PROVE  tokens[i] + admitted[i] <= MaxTokens + (now - begun[i]) \div RefillNs
    BY DEF RateRespected
  <2> DEFINE e == now - begun[i]
             d == lastRefil[i] - begun[i]
  <2>1. /\ now \in Int /\ lastRefil[i] \in Int /\ begun[i] \in Int /\ tokens[i] \in Int
        /\ admitted[i] \in Int /\ MaxTokens \in Nat /\ RefillNs \in Nat \ {0} /\ Start \in Nat
    BY ConstantsInt DEF IInv, Types, RateInv, Counters
  <2>2. Budget(i) /\ now >= Start  BY DEF RateInv, Budgets, Clocks
  <2>3. e \in Int /\ d \in Int /\ e \div RefillNs \in Int /\ d \div RefillNs \in Int
    BY <2>1, DivBounds
  <2>4. CASE lastRefil[i] = 0
    <3>1. tokens[i] + admitted[i] = MaxTokens /\ e >= 0
      BY <2>1, <2>2, <2>4 DEF Budget, Untouched
    <3>2. 0 \div RefillNs <= e \div RefillNs  BY <2>1, <2>3, <3>1, DivMonotone
    <3>3. 0 \div RefillNs = 0
      <4>1. 0 \div RefillNs \in Int /\ RefillNs * (0 \div RefillNs) <= 0
            /\ 0 < RefillNs * (0 \div RefillNs) + RefillNs
        BY <2>1, DivBounds
      <4> QED  BY <2>1, <4>1
    <3> HIDE DEF e
    <3>4. MaxTokens <= MaxTokens + e \div RefillNs  BY <2>1, <2>3, <3>2, <3>3
    <3> QED  BY <3>1, <3>4 DEF e
  <2>5. CASE lastRefil[i] # 0
    <3>1. tokens[i] + admitted[i] <= MaxTokens + d \div RefillNs /\ lastRefil[i] <= now
      BY <2>2, <2>5 DEF Budget, Solvent, Earned
    <3>2. d <= e  BY <2>1, <3>1
    <3>3. d \div RefillNs <= e \div RefillNs  BY <2>1, <2>3, <3>2, DivMonotone
    <3> HIDE DEF d, e
    <3>4. tokens[i] + admitted[i] <= MaxTokens + e \div RefillNs  BY <2>1, <2>3, <3>1, <3>3
    <3> QED  BY <3>4 DEF e
  <2> QED  BY <2>4, <2>5
<1> QED  BY <1>1, <1>2, InitRateInv, SpecIInv, PTL DEF Spec

-----------------------------------------------------------------------------
(* The readers of the orgs' streams                                            *)

Entries(s) == {s[i] : i \in 1..Len(s)}
Once(s) == \A i, j \in 1..Len(s) : i # j => s[i] # s[j]

FanoutTypes ==
    /\ server \in [Clients -> Gateways \cup {Nowhere}]
    /\ subscribed \subseteq Asked /\ \A s \in subscribed : server[s[1]] \in Gateways
    /\ published \in [Orgs -> Nat] /\ group \in [Orgs -> Int] /\ origin \in [Orgs -> Int]
    /\ \A o \in Orgs : group[o] = NoGroup \/ group[o] >= 0
    /\ hand \in [Gateways -> [Orgs -> Seq(Int)]]
    /\ since \in [Asked -> Int] /\ offered \in [Asked -> SUBSET Int]
    /\ missed \in [Orgs -> SUBSET Int]
    /\ trimmed \in [Orgs -> Nat] /\ cut \in [Orgs -> SUBSET Int]

\* What the group has not delivered is in no hand, and nothing is in two hands or
\* twice in one.
Apart ==
    /\ \A g \in Gateways, o \in Orgs :
          Once(hand[g][o]) /\ \A n \in Entries(hand[g][o]) : n <= group[o]
    /\ \A g, h \in Gateways, o \in Orgs : \A n \in Entries(hand[g][o]) :
          n \in Entries(hand[h][o]) => g = h

\* What was offered is in no hand any more, and the group has gone past it.
OnceOnly(s, n) ==
    LET o == OrgOf[s[1]]
    IN  n <= group[o] /\ \A g \in Gateways : n \notin Entries(hand[g][o])

HandInv ==
    /\ FanoutTypes /\ Apart /\ again = {}
    /\ \A s \in Asked : \A n \in offered[s] : OnceOnly(s, n)

LEMMA AskedOf == ASSUME NEW s \in Asked PROVE s[1] \in Clients /\ OrgOf[s[1]] \in Orgs
BY FanoutConstants

\* Taking the first entry of a hand leaves the others.
LEMMA TailEntries ==
    ASSUME NEW s \in Seq(Int), s # <<>>, Once(s)
    PROVE  /\ Tail(s) \in Seq(Int) /\ Once(Tail(s)) /\ Head(s) \in Entries(s)
           /\ \A n : n \in Entries(Tail(s)) <=> n \in Entries(s) /\ n # Head(s)
<1>1. Len(s) \in Nat \ {0} /\ Head(s) = s[1] /\ Tail(s) \in Seq(Int)
      /\ Len(Tail(s)) = Len(s) - 1 /\ \A i \in 1..Len(s) - 1 : Tail(s)[i] = s[i + 1]
  OBVIOUS
<1>2. Once(Tail(s))
  <2> SUFFICES ASSUME NEW i \in 1..Len(Tail(s)), NEW j \in 1..Len(Tail(s)), i # j
               PROVE  Tail(s)[i] # Tail(s)[j]
    BY DEF Once
  <2>1. i + 1 \in 1..Len(s) /\ j + 1 \in 1..Len(s) /\ i + 1 # j + 1
        /\ i \in 1..Len(s) - 1 /\ j \in 1..Len(s) - 1
    BY <1>1
  <2> QED  BY <1>1, <2>1 DEF Once
<1>3. Head(s) \in Entries(s)
  <2>1. 1 \in 1..Len(s)  BY <1>1
  <2> QED  BY <1>1, <2>1 DEF Entries
<1>4. ASSUME NEW n, n \in Entries(Tail(s)) PROVE n \in Entries(s) /\ n # Head(s)
  <2>1. PICK i \in 1..Len(Tail(s)) : n = Tail(s)[i]  BY <1>4 DEF Entries
  <2>2. i + 1 \in 1..Len(s) /\ 1 \in 1..Len(s) /\ i + 1 # 1 /\ n = s[i + 1]  BY <1>1, <2>1
  <2> QED  BY <1>1, <2>2 DEF Entries, Once
<1>5. ASSUME NEW n, n \in Entries(s), n # Head(s) PROVE n \in Entries(Tail(s))
  <2>1. PICK i \in 1..Len(s) : n = s[i]  BY <1>5 DEF Entries
  <2>2. i - 1 \in 1..Len(Tail(s)) /\ i - 1 \in 1..Len(s) - 1 /\ (i - 1) + 1 = i
    BY <1>1, <1>5, <2>1
  <2>3. Tail(s)[i - 1] = n  BY <1>1, <2>1, <2>2
  <2> QED  BY <2>2, <2>3 DEF Entries
<1> QED  BY <1>1, <1>2, <1>3, <1>4, <1>5

\* The entries an XREADGROUP hands out.
LEMMA BatchEntries ==
    ASSUME NEW m \in Int, NEW k \in Nat
    PROVE  LET s == [i \in 1..k |-> m + i]
           IN  s \in Seq(Int) /\ Once(s) /\ \A n : n \in Entries(s) <=> n \in m + 1..m + k
<1> DEFINE s == [i \in 1..k |-> m + i]
<1>1. s \in Seq(Int) /\ Len(s) = k /\ \A i \in 1..k : s[i] = m + i  OBVIOUS
<1> HIDE DEF s
<1>2. Once(s)  BY <1>1 DEF Once
<1>3. ASSUME NEW n, n \in Entries(s) PROVE n \in m + 1..m + k
  <2>1. PICK i \in 1..k : n = s[i]  BY <1>1, <1>3 DEF Entries
  <2> QED  BY <1>1, <2>1
<1>4. ASSUME NEW n \in m + 1..m + k PROVE n \in Entries(s)
  <2>1. n - m \in 1..k /\ m + (n - m) = n  OBVIOUS
  <2>2. s[n - m] = n  BY <1>1, <2>1
  <2> QED  BY <1>1, <2>1, <2>2 DEF Entries
<1> QED  BY <1>1, <1>2, <1>3, <1>4 DEF s

LEMMA EmptyHand == <<>> \in Seq(Int) /\ Once(<<>>) /\ \A n : n \notin Entries(<<>>)
BY DEF Once, Entries

\* One reader's hand changes.
LEMMA OneHand ==
    ASSUME hand \in [Gateways -> [Orgs -> Seq(Int)]],
           NEW g \in Gateways, NEW o \in Orgs, NEW s \in Seq(Int),
           hand' = [hand EXCEPT ![g][o] = s]
    PROVE  /\ hand' \in [Gateways -> [Orgs -> Seq(Int)]] /\ hand'[g][o] = s
           /\ \A h \in Gateways, p \in Orgs : h # g \/ p # o => hand'[h][p] = hand[h][p]
OBVIOUS

LEMMA HandsAre == \A g, o : InHand(g, o) = Entries(hand[g][o])
BY DEF InHand, Entries

LEMMA HandInvImplies == HandInv => OfferedOnce
BY DEF HandInv, OfferedOnce

\* The group only goes on; the hands keep what they have or are emptied.
LEMMA HandsKept ==
    ASSUME HandInv, FanoutTypes', \A o \in Orgs : group[o] <= group'[o],
           \A g \in Gateways, o \in Orgs : hand'[g][o] \in {hand[g][o], <<>>},
           UNCHANGED <<offered, again>>
    PROVE  HandInv'
<1> USE DEF HandInv
<1>1. ASSUME NEW g \in Gateways, NEW o \in Orgs
      PROVE  Once(hand'[g][o]) /\ \A n \in Entries(hand'[g][o]) : n \in Entries(hand[g][o])
  BY EmptyHand DEF Apart
<1>2. ASSUME NEW g \in Gateways, NEW o \in Orgs, NEW n \in Entries(hand[g][o])
      PROVE  n <= group'[o]
  <2>1. hand[g][o] \in Seq(Int) /\ group[o] \in Int /\ group'[o] \in Int  BY DEF FanoutTypes
  <2>2. n \in Int  BY <2>1 DEF Entries
  <2>3. n <= group[o]  BY DEF Apart
  <2> QED  BY <2>1, <2>2, <2>3
<1>3. Apart'
  <2>1. ASSUME NEW g \in Gateways, NEW o \in Orgs
        PROVE  Once(hand'[g][o]) /\ \A n \in Entries(hand'[g][o]) : n <= group'[o]
    BY <1>1, <1>2
  <2>2. ASSUME NEW g \in Gateways, NEW h \in Gateways, NEW o \in Orgs,
               NEW n \in Entries(hand'[g][o]), n \in Entries(hand'[h][o])
        PROVE  g = h
    BY <1>1, <2>2 DEF Apart
  <2> QED  BY <2>1, <2>2 DEF Apart
<1>4. ASSUME NEW s \in Asked, NEW n \in offered[s] PROVE OnceOnly(s, n)'
  <2>1. OnceOnly(s, n)  OBVIOUS
  <2>2. OrgOf[s[1]] \in Orgs /\ n \in Int  BY AskedOf DEF FanoutTypes
  <2>3. n <= group'[OrgOf[s[1]]]
    <3>1. group[OrgOf[s[1]]] \in Int /\ group'[OrgOf[s[1]]] \in Int  BY <2>2 DEF FanoutTypes
    <3> QED  BY <2>1, <2>2, <3>1 DEF OnceOnly
  <2>4. \A g \in Gateways : n \notin Entries(hand'[g][OrgOf[s[1]]])
    BY <1>1, <2>1, <2>2 DEF OnceOnly
  <2> QED  BY <2>3, <2>4 DEF OnceOnly
<1> QED  BY <1>3, <1>4

\* The actions in which Redis delivers nothing and no reader goes on.
NoDelivery ==
    \/ \E o \in Orgs : Publish(o)
    \/ \E s \in Asked : Subscribe(s)
    \/ \E c \in Clients : Leave(c) \/ \E g \in Gateways : Connect(c, g)
    \/ \E g \in Gateways : Exit(g) \/ Restart(g)
    \/ \E g \in Gateways, o \in Orgs : Creates(g, o) \/ CreateGroupFails(g, o)

LEMMA QuietTypes ==
    ASSUME FanoutTypes, NoDelivery
    PROVE  FanoutTypes'
<1> USE DEF FanoutTypes, clients, redis, readers
<1>1. /\ \A s \in Asked : s[1] \in Clients /\ OrgOf[s[1]] \in Orgs
      /\ \A c \in Clients, d \in Asked : [server EXCEPT ![c] = Nowhere][d[1]] =
             IF d[1] = c THEN Nowhere ELSE server[d[1]]
  BY AskedOf
<1>2. ASSUME NEW o \in Orgs, Publish(o) PROVE FanoutTypes'
  <2>1. PICK t \in trimmed[o]..published[o] :
           /\ trimmed' = [trimmed EXCEPT ![o] = t]
           /\ cut' = [cut EXCEPT ![o] = cut[o] \cup {n \in 1..t : n > group[o]}]
    BY <1>2 DEF Publish
  <2>2. t \in Nat /\ {n \in 1..t : n > group[o]} \subseteq Int
    <3>1. trimmed[o] \in Nat /\ published[o] \in Nat  OBVIOUS
    <3> QED  BY <3>1
  <2>3. cut' \in [Orgs -> SUBSET Int] /\ trimmed' \in [Orgs -> Nat]  BY <2>1, <2>2
  <2>4. published' \in [Orgs -> Nat]
        /\ UNCHANGED <<server, subscribed, since, offered, group, origin, hand, missed>>
    BY <1>2 DEF Publish
  <2> QED  BY <2>3, <2>4
<1>3. ASSUME NEW c \in Clients, NEW g \in Gateways, Connect(c, g) PROVE FanoutTypes'
  <2>1. /\ server' = [server EXCEPT ![c] = g]
        /\ UNCHANGED <<subscribed, since, offered, redis, hand, missed>>
    BY <1>3 DEF Connect
  <2> QED  BY <2>1
<1>4. ASSUME NEW s \in Asked, Subscribe(s) PROVE FanoutTypes'
  <2>1. /\ server[s[1]] # Nowhere /\ subscribed' = subscribed \cup {s}
        /\ since' = [since EXCEPT ![s] = published[OrgOf[s[1]]]]
        /\ UNCHANGED <<server, offered, redis, hand, missed>>
    BY <1>4 DEF Subscribe
  <2>2. published[OrgOf[s[1]]] \in Int /\ server[s[1]] \in Gateways  BY <1>1, <2>1
  <2> QED  BY <2>1, <2>2
<1>5. ASSUME NEW c \in Clients, Leave(c) PROVE FanoutTypes'
  <2>1. /\ server' = [server EXCEPT ![c] = Nowhere] /\ subscribed' = {s \in subscribed : s[1] # c}
        /\ UNCHANGED <<offered, redis, hand, missed>> /\ Forget
    BY <1>5 DEF Leave
  <2>2. since' \in [Asked -> Int]  BY <2>1 DEF Forget
  <2>3. \A s \in subscribed' : s \in subscribed /\ server'[s[1]] = server[s[1]]
    BY <1>1, <2>1
  <2> QED  BY <2>1, <2>2, <2>3
<1>6. ASSUME NEW g \in Gateways, Exit(g) PROVE FanoutTypes'
  <2>1. /\ server' = [d \in Clients |-> IF server[d] = g THEN Nowhere ELSE server[d]]
        /\ subscribed' = {s \in subscribed : server[s[1]] # g} /\ Forget
        /\ hand' = [hand EXCEPT ![g] = [p \in Orgs |-> <<>>]]
        /\ missed' = [p \in Orgs |-> missed[p] \cup {hand[g][p][i] : i \in 1..Len(hand[g][p])}]
        /\ UNCHANGED <<offered, redis>>
    BY <1>6 DEF Exit
  <2>2. [p \in Orgs |-> <<>>] \in [Orgs -> Seq(Int)]  OBVIOUS
  <2>3. hand' \in [Gateways -> [Orgs -> Seq(Int)]]  BY <2>1, <2>2
  <2>4. missed' \in [Orgs -> SUBSET Int]
    <3>1. \A p \in Orgs : {hand[g][p][i] : i \in 1..Len(hand[g][p])} \subseteq Int
      <4> SUFFICES ASSUME NEW p \in Orgs
                   PROVE  {hand[g][p][i] : i \in 1..Len(hand[g][p])} \subseteq Int
        OBVIOUS
      <4>1. hand[g][p] \in Seq(Int)  OBVIOUS
      <4> QED  BY <4>1
    <3> QED  BY <2>1, <3>1
  <2>5. server' \in [Clients -> Gateways \cup {Nowhere}]
        /\ subscribed' \subseteq Asked /\ \A s \in subscribed' : server'[s[1]] \in Gateways
    BY <1>1, <2>1
  <2>6. since' \in [Asked -> Int]  BY <2>1 DEF Forget
  <2> QED  BY <2>1, <2>3, <2>4, <2>5, <2>6
<1>7. ASSUME NEW g \in Gateways, Restart(g) PROVE FanoutTypes'  BY <1>7 DEF Restart
<1>8. ASSUME NEW g \in Gateways, NEW o \in Orgs, Creates(g, o) PROVE FanoutTypes'
  <2>1. UNCHANGED <<clients, published, trimmed, cut, hand, missed>>  BY <1>8 DEF Creates, CreateGroup
  <2>2. /\ group' = [group EXCEPT ![o] = published[o]] \/ group' = group
        /\ origin' = [origin EXCEPT ![o] = published[o]] \/ origin' = origin
    BY <1>8 DEF Creates, CreateGroup
  <2>3. published[o] \in Nat  OBVIOUS
  <2>4. group' \in [Orgs -> Int] /\ origin' \in [Orgs -> Int]
        /\ \A p \in Orgs : group'[p] = NoGroup \/ group'[p] >= 0
    <3>1. origin' \in [Orgs -> Int]  BY <2>2, <2>3
    <3>2. group' \in [Orgs -> Int]  BY <2>2, <2>3
    <3>3. \A p \in Orgs : group'[p] = group[p] \/ group'[p] = published[o]  BY <2>2
    <3>4. ASSUME NEW p \in Orgs PROVE group'[p] = NoGroup \/ group'[p] >= 0
      <4>1. CASE group'[p] = group[p]  BY <4>1
      <4>2. CASE group'[p] = published[o]  BY <2>3, <4>2
      <4> QED  BY <3>3, <4>1, <4>2
    <3> QED  BY <3>1, <3>2, <3>4
  <2> QED  BY <2>1, <2>4
<1>9. ASSUME NEW g \in Gateways, NEW o \in Orgs, CreateGroupFails(g, o) PROVE FanoutTypes'
  BY <1>9 DEF CreateGroupFails
<1> QED  BY <1>2, <1>3, <1>4, <1>5, <1>6, <1>7, <1>8, <1>9 DEF NoDelivery

LEMMA QuietHands ==
    ASSUME HandInv, NoDelivery
    PROVE  HandInv'
<1>1. FanoutTypes'  BY QuietTypes DEF HandInv
<1>2. \A p \in Orgs : group[p] <= group'[p]
  <2>1. group \in [Orgs -> Int] /\ published \in [Orgs -> Nat]  BY DEF HandInv, FanoutTypes
  <2>2. ASSUME NEW o \in Orgs, group[o] = NoGroup, group' = [group EXCEPT ![o] = published[o]]
        PROVE  \A p \in Orgs : group[p] <= group'[p]
    BY <2>1, <2>2 DEF NoGroup
  <2>3. CASE group' = group  BY <2>1, <2>3
  <2>4. CASE \E o \in Orgs : group[o] = NoGroup /\ group' = [group EXCEPT ![o] = published[o]]
    BY <2>2, <2>4
  <2> QED
    BY <2>3, <2>4 DEF NoDelivery, Publish, Connect, Subscribe, Leave, Exit, Restart, Creates,
                      CreateGroup, CreateGroupFails, redis
<1>3. \A h \in Gateways, p \in Orgs : hand'[h][p] \in {hand[h][p], <<>>}
  <2>1. ASSUME NEW g \in Gateways, Exit(g)
        PROVE  \A h \in Gateways, p \in Orgs : hand'[h][p] \in {hand[h][p], <<>>}
    <3>1. hand' = [hand EXCEPT ![g] = [p \in Orgs |-> <<>>]]  BY <2>1 DEF Exit
    <3>2. hand \in [Gateways -> [Orgs -> Seq(Int)]]  BY DEF HandInv, FanoutTypes
    <3> QED  BY <3>1, <3>2
  <2>2. CASE hand' = hand  BY <2>2
  <2> QED
    BY <2>1, <2>2 DEF NoDelivery, Publish, Connect, Subscribe, Leave, Creates, CreateGroup, Restart,
                      CreateGroupFails, readers
<1>4. UNCHANGED <<offered, again>>
  BY DEF NoDelivery, Publish, Connect, Subscribe, Leave, Exit, Creates, CreateGroup, Restart,
         CreateGroupFails, clients
<1> QED  BY <1>1, <1>2, <1>3, <1>4, HandsKept

\* The next k entries of the stream are delivered to the group.
LEMMA BeforeNat ==
    ASSUME FanoutTypes, NEW o \in Orgs, group[o] # NoGroup
    PROVE  /\ Before(o) \in Nat /\ group[o] \in Nat /\ group[o] <= Before(o)
           /\ Before(o) = group[o] \/ Before(o) = trimmed[o]
<1>1. group[o] \in Nat /\ trimmed[o] \in Nat  BY DEF FanoutTypes, NoGroup
<1> QED  BY <1>1 DEF Before

LEMMA DeliveredGives ==
    ASSUME FanoutTypes, NEW o \in Orgs, NEW k \in 1..Batch, Delivered(o, k)
    PROVE  /\ k \in Nat /\ Before(o) \in Nat /\ group[o] <= Before(o) /\ group'[o] = Before(o) + k
           /\ group[o] \in Nat /\ (Before(o) = group[o] \/ Before(o) = trimmed[o])
           /\ group' \in [Orgs -> Int] /\ \A p \in Orgs : group'[p] = NoGroup \/ group'[p] >= 0
           /\ \A p \in Orgs : group[p] <= group'[p] /\ (p # o => group'[p] = group[p])
<1>1. k \in Nat  BY FanoutConstants
<1>2. /\ group \in [Orgs -> Int] /\ group[o] \in Nat
      /\ Before(o) \in Nat /\ group[o] <= Before(o)
      /\ Before(o) = group[o] \/ Before(o) = trimmed[o]
  BY BeforeNat DEF FanoutTypes, Delivered
<1>3. group' = [group EXCEPT ![o] = Before(o) + k]  BY DEF Delivered
<1>4. Before(o) + k \in Nat /\ group[o] <= Before(o) + k  BY <1>1, <1>2
<1>5. group'[o] = Before(o) + k /\ group' \in [Orgs -> Int]
      /\ \A p \in Orgs : p # o => group'[p] = group[p]
  BY <1>2, <1>3, <1>4
<1>6. ASSUME NEW p \in Orgs
      PROVE  /\ group'[p] = NoGroup \/ group'[p] >= 0
             /\ group[p] <= group'[p]
  <2>1. CASE p = o  BY <1>1, <1>2, <1>4, <1>5, <2>1
  <2>2. CASE p # o  BY <1>2, <1>5, <2>2 DEF FanoutTypes
  <2> QED  BY <2>1, <2>2
<1> QED  BY <1>1, <1>2, <1>5, <1>6

LEMMA ReadLostHands ==
    ASSUME HandInv, NEW g \in Gateways, NEW o \in Orgs, ReadLost(g, o)
    PROVE  HandInv'
<1>1. PICK k \in 1..Batch :
         /\ Delivered(o, k)
         /\ missed' = [missed EXCEPT ![o] = @ \cup (Before(o) + 1 .. Before(o) + k)]
  BY DEF ReadLost
<1>2. UNCHANGED <<clients, published, trimmed, cut, origin, hand>>  BY DEF ReadLost, readers
<1>3. FanoutTypes  BY DEF HandInv
<1>4. group' \in [Orgs -> Int] /\ (\A p \in Orgs : group'[p] = NoGroup \/ group'[p] >= 0)
      /\ Before(o) \in Nat /\ k \in Nat /\ \A p \in Orgs : group[p] <= group'[p]
  BY <1>1, <1>3, DeliveredGives
<1>5. missed' \in [Orgs -> SUBSET Int]
  <2>1. (Before(o) + 1 .. Before(o) + k) \subseteq Int  BY <1>4
  <2> QED  BY <1>1, <1>3, <2>1 DEF FanoutTypes
<1>6. FanoutTypes'  BY <1>2, <1>3, <1>4, <1>5 DEF FanoutTypes, clients
<1>7. UNCHANGED <<offered, again>>  BY <1>2 DEF clients
<1>8. \A h \in Gateways, p \in Orgs : hand'[h][p] \in {hand[h][p], <<>>}  BY <1>2
<1> QED  BY <1>4, <1>6, <1>7, <1>8, HandsKept

\* What a reader gets was in no hand before.
LEMMA ReadGives ==
    ASSUME FanoutTypes, NEW g \in Gateways, NEW o \in Orgs, Read(g, o)
    PROVE  /\ UNCHANGED <<clients, published, trimmed, cut, origin, missed>>
           /\ group' \in [Orgs -> Int] /\ \A p \in Orgs : group'[p] = NoGroup \/ group'[p] >= 0
           /\ \A p \in Orgs : group[p] <= group'[p] /\ (p # o => group'[p] = group[p])
           /\ hand' \in [Gateways -> [Orgs -> Seq(Int)]] /\ Once(hand'[g][o])
           /\ \A n : n \notin Entries(hand[g][o])
           /\ \A n : n \in Entries(hand'[g][o]) <=> n \in Before(o) + 1 .. group'[o]
           /\ \A h \in Gateways, p \in Orgs : h # g \/ p # o => hand'[h][p] = hand[h][p]
           /\ group'[o] <= published[o] /\ group[o] <= Before(o) /\ Before(o) \in Nat
           /\ Before(o) = group[o] \/ Before(o) = trimmed[o]
<1>1. PICK k \in 1..Batch :
         /\ Delivered(o, k)
         /\ hand' = [hand EXCEPT ![g][o] = [i \in 1..k |-> Before(o) + i]]
  BY DEF Read
<1> DEFINE b == [i \in 1..k |-> Before(o) + i]
<1>2. /\ k \in Nat /\ Before(o) \in Nat /\ group'[o] = Before(o) + k /\ group' \in [Orgs -> Int]
      /\ group[o] <= Before(o) /\ (Before(o) = group[o] \/ Before(o) = trimmed[o])
      /\ \A p \in Orgs : group'[p] = NoGroup \/ group'[p] >= 0
      /\ \A p \in Orgs : group[p] <= group'[p] /\ (p # o => group'[p] = group[p])
  BY <1>1, DeliveredGives
<1>3. b \in Seq(Int) /\ Once(b) /\ \A n : n \in Entries(b) <=> n \in Before(o) + 1 .. Before(o) + k
  <2>1. PICK m \in Int : m = Before(o)  BY <1>2
  <2>2. LET s == [i \in 1..k |-> m + i]
        IN  s \in Seq(Int) /\ Once(s) /\ \A n : n \in Entries(s) <=> n \in m + 1..m + k
    BY <1>2, BatchEntries
  <2> QED  BY <2>1, <2>2
<1>4. hand \in [Gateways -> [Orgs -> Seq(Int)]]  BY DEF FanoutTypes
<1>5. hand' = [hand EXCEPT ![g][o] = b]  BY <1>1
<1> HIDE DEF b
<1>6. /\ hand' \in [Gateways -> [Orgs -> Seq(Int)]] /\ hand'[g][o] = b
      /\ \A h \in Gateways, p \in Orgs : h # g \/ p # o => hand'[h][p] = hand[h][p]
  BY <1>3, <1>4, <1>5, OneHand
<1>7. /\ UNCHANGED <<clients, published, trimmed, cut, origin, missed>> /\ \A n : n \notin Entries(hand[g][o])
  BY EmptyHand DEF Read, Idle
<1>8. group'[o] <= published[o]  BY <1>1, <1>2 DEF Delivered
<1> QED  BY <1>2, <1>3, <1>6, <1>7, <1>8

LEMMA ReadHands ==
    ASSUME HandInv, NEW g \in Gateways, NEW o \in Orgs, Read(g, o)
    PROVE  HandInv'
<1> USE DEF HandInv
<1>1. FanoutTypes'
  <2>1. UNCHANGED <<clients, published, trimmed, cut, origin, missed>>  BY ReadGives
  <2>2. group' \in [Orgs -> Int] /\ hand' \in [Gateways -> [Orgs -> Seq(Int)]]
        /\ \A p \in Orgs : group'[p] = NoGroup \/ group'[p] >= 0
    BY ReadGives
  <2> QED  BY <2>1, <2>2 DEF FanoutTypes, clients
<1>2. ASSUME NEW h \in Gateways, NEW p \in Orgs, NEW n, n \in Entries(hand[h][p])
      PROVE  n \in Int /\ n <= group[p]
  <2>1. hand[h][p] \in Seq(Int)  BY DEF FanoutTypes
  <2> QED  BY <1>2, <2>1 DEF Entries, Apart
<1>3. group \in [Orgs -> Int] /\ group' \in [Orgs -> Int]  BY ReadGives DEF FanoutTypes
<1>4. ASSUME NEW h \in Gateways, NEW p \in Orgs, NEW n, n \in Entries(hand'[h][p])
      PROVE  /\ n \in Int /\ n <= group'[p]
             /\ n <= group[p] => n \in Entries(hand[h][p])
             /\ n > group[p] => h = g /\ p = o
  <2>1. CASE h = g /\ p = o
    <3>1. n \in Before(o) + 1 .. group'[o] /\ group[o] <= Before(o) /\ Before(o) \in Nat
      BY <1>4, <2>1, ReadGives
    <3> QED  BY <1>3, <2>1, <3>1
  <2>2. CASE ~(h = g /\ p = o)
    <3>1. n \in Entries(hand[h][p])  BY <1>4, <2>2, ReadGives
    <3>2. n \in Int /\ n <= group[p] /\ group[p] <= group'[p]  BY <1>2, <3>1, ReadGives
    <3> QED  BY <1>3, <3>1, <3>2
  <2> QED  BY <2>1, <2>2
<1>5. ASSUME NEW h \in Gateways, NEW p \in Orgs PROVE Once(hand'[h][p])
  <2>1. CASE h = g /\ p = o  BY <2>1, ReadGives
  <2>2. CASE h # g \/ p # o
    <3>1. hand'[h][p] = hand[h][p]  BY <2>2, ReadGives
    <3>2. Once(hand[h][p])  BY DEF Apart
    <3> QED  BY <3>1, <3>2
  <2> QED  BY <2>1, <2>2
<1>6. ASSUME NEW h \in Gateways, NEW h2 \in Gateways, NEW p \in Orgs, NEW n,
             n \in Entries(hand'[h][p]), n \in Entries(hand'[h2][p])
      PROVE  h = h2
  <2>1. n \in Int /\ group[p] \in Int  BY <1>3, <1>4, <1>6
  <2>2. CASE n <= group[p]  BY <1>4, <1>6, <2>2 DEF Apart
  <2>3. CASE n > group[p]  BY <1>4, <1>6, <2>3
  <2> QED  BY <2>1, <2>2, <2>3
<1>7. Apart'  BY <1>4, <1>5, <1>6 DEF Apart
<1>8. ASSUME NEW s \in Asked, NEW n \in offered[s] PROVE OnceOnly(s, n)'
  <2>1. OnceOnly(s, n)  OBVIOUS
  <2>2. OrgOf[s[1]] \in Orgs /\ n \in Int  BY AskedOf DEF FanoutTypes
  <2>3. n <= group[OrgOf[s[1]]] /\ group[OrgOf[s[1]]] <= group'[OrgOf[s[1]]]
    BY <2>1, <2>2, ReadGives DEF OnceOnly
  <2>4. n <= group'[OrgOf[s[1]]]  BY <1>3, <2>2, <2>3
  <2>5. \A h \in Gateways : n \notin Entries(hand'[h][OrgOf[s[1]]])
    BY <1>4, <2>1, <2>2, <2>3 DEF OnceOnly
  <2> QED  BY <2>4, <2>5 DEF OnceOnly
<1>9. UNCHANGED <<offered, again>>  BY ReadGives DEF clients
<1> QED  BY <1>1, <1>7, <1>8, <1>9

\* The first entry of the hand goes to the listeners, and leaves the hand.
First(g, o) == Head(hand[g][o])
Offers(g, o) == \E acked \in BOOLEAN : Offer(g, o, acked)

LEMMA OfferGives ==
    ASSUME FanoutTypes, Apart, NEW g \in Gateways, NEW o \in Orgs, Offers(g, o)
    PROVE  /\ UNCHANGED <<server, subscribed, since, published, trimmed, cut, group, origin, missed>>
           /\ First(g, o) \in Int /\ First(g, o) \in Entries(hand[g][o])
           /\ hand' \in [Gateways -> [Orgs -> Seq(Int)]] /\ Once(hand'[g][o])
           /\ \A m : m \in Entries(hand'[g][o]) <=> m \in Entries(hand[g][o]) /\ m # First(g, o)
           /\ \A h \in Gateways, p \in Orgs : h # g \/ p # o => hand'[h][p] = hand[h][p]
           /\ offered' \in [Asked -> SUBSET Int]
           /\ \A s \in Asked : \A m :
                     m \in offered'[s] <=>
                         \/ m \in offered[s]
                         \/ /\ m = First(g, o) /\ m \notin Malformed
                            /\ s \in Listeners(g, o)
           /\ \A x \in again' : x \in again \/ \E s \in Asked :
                     First(g, o) \in offered[s] /\ OrgOf[s[1]] = o
<1> DEFINE n == First(g, o)
<1>1. UNCHANGED <<server, subscribed, since, published, trimmed, cut, group, origin, missed>>
  BY DEF Offers, Offer
<1>2. hand \in [Gateways -> [Orgs -> Seq(Int)]] /\ hand[g][o] \in Seq(Int)
      /\ offered \in [Asked -> SUBSET Int] /\ subscribed \subseteq Asked
  BY DEF FanoutTypes
<1>3. hand[g][o] # <<>> /\ hand' = [hand EXCEPT ![g][o] = Tail(hand[g][o])]
  BY <1>2 DEF Offers, Offer
<1>4. Once(hand[g][o])  BY DEF Apart
<1>5. /\ Tail(hand[g][o]) \in Seq(Int) /\ Once(Tail(hand[g][o])) /\ n \in Entries(hand[g][o])
      /\ \A m : m \in Entries(Tail(hand[g][o])) <=> m \in Entries(hand[g][o]) /\ m # n
  BY <1>2, <1>3, <1>4, TailEntries DEF First
<1>6. n \in Int  BY <1>2, <1>3 DEF First
<1>7. /\ hand' \in [Gateways -> [Orgs -> Seq(Int)]] /\ hand'[g][o] = Tail(hand[g][o])
      /\ \A h \in Gateways, p \in Orgs : h # g \/ p # o => hand'[h][p] = hand[h][p]
  BY <1>2, <1>3, <1>5, OneHand
<1>8. /\ offered' = [s \in Asked |->
             IF s \in (IF n \in Malformed THEN {} ELSE Listeners(g, o))
             THEN offered[s] \cup {n} ELSE offered[s]]
      /\ again' = again \cup {<<s, n>> : s \in
             {t \in (IF n \in Malformed THEN {} ELSE Listeners(g, o)) : n \in offered[t]}}
  BY DEF Offers, Offer, First
<1> HIDE DEF n
<1>9. offered' \in [Asked -> SUBSET Int]  BY <1>2, <1>6, <1>8
<1>10. ASSUME NEW s \in Asked, NEW m
       PROVE  m \in offered'[s] <=>
                  \/ m \in offered[s]
                  \/ m = n /\ m \notin Malformed /\ s \in Listeners(g, o)
  BY <1>2, <1>8
<1>11. ASSUME NEW x \in again', x \notin again
       PROVE  \E s \in Asked : n \in offered[s] /\ OrgOf[s[1]] = o
  <2>1. PICK s \in Listeners(g, o) : n \in offered[s]  BY <1>8, <1>11
  <2>2. s \in Asked /\ OrgOf[s[1]] = o  BY <1>2 DEF Listeners
  <2> QED  BY <2>1, <2>2
<1> QED  BY <1>1, <1>5, <1>6, <1>7, <1>9, <1>10, <1>11 DEF n

LEMMA OfferHands ==
    ASSUME HandInv, NEW g \in Gateways, NEW o \in Orgs, Offers(g, o)
    PROVE  HandInv'
<1> USE DEF HandInv
<1> DEFINE n == First(g, o)
<1>1. UNCHANGED <<server, subscribed, since, published, trimmed, cut, group, origin, missed>>
  BY OfferGives
<1>2. hand' \in [Gateways -> [Orgs -> Seq(Int)]] /\ offered' \in [Asked -> SUBSET Int]
  BY OfferGives
<1>3. FanoutTypes'  BY <1>1, <1>2 DEF FanoutTypes
<1>4. n \in Int /\ n \in Entries(hand[g][o])
      /\ \A m : m \in Entries(hand'[g][o]) <=> m \in Entries(hand[g][o]) /\ m # n
  <2>1. n \in Int /\ n \in Entries(hand[g][o])  BY OfferGives
  <2>2. \A m : m \in Entries(hand'[g][o]) <=> m \in Entries(hand[g][o]) /\ m # n
    BY OfferGives
  <2> QED  BY <2>1, <2>2
<1>5. \A h \in Gateways, p \in Orgs : h # g \/ p # o => hand'[h][p] = hand[h][p]
  BY OfferGives
<1>6. ASSUME NEW s \in Asked, NEW m \in offered'[s]
      PROVE  m \in offered[s] \/ (m = n /\ OrgOf[s[1]] = o)
  BY OfferGives DEF Listeners
<1> HIDE DEF n
<1>7. \A h \in Gateways, p \in Orgs : \A m : m \in Entries(hand'[h][p]) =>
          m \in Entries(hand[h][p])
  BY <1>4, <1>5
<1>8. ASSUME NEW h \in Gateways, NEW p \in Orgs PROVE Once(hand'[h][p])
  <2>1. CASE h = g /\ p = o  BY <2>1, OfferGives
  <2>2. CASE h # g \/ p # o
    <3>1. hand'[h][p] = hand[h][p]  BY <1>5, <2>2
    <3>2. Once(hand[h][p])  BY DEF Apart
    <3> QED  BY <3>1, <3>2
  <2> QED  BY <2>1, <2>2
<1>9. Apart'  BY <1>1, <1>7, <1>8 DEF Apart
<1>10. ASSUME NEW s \in Asked, NEW m \in offered'[s] PROVE OnceOnly(s, m)'
  <2>1. OrgOf[s[1]] \in Orgs  BY AskedOf
  <2>2. CASE m \in offered[s]
    <3>1. OnceOnly(s, m)  BY <2>2
    <3> QED  BY <1>1, <1>7, <2>1, <3>1 DEF OnceOnly
  <2>3. CASE m = n /\ OrgOf[s[1]] = o
    <3>1. n <= group[o]  BY <1>4 DEF Apart
    <3>2. \A h \in Gateways : n \in Entries(hand[h][o]) => h = g  BY <1>4 DEF Apart
    <3>3. \A h \in Gateways : n \notin Entries(hand'[h][o])  BY <1>4, <1>7, <3>2
    <3> QED  BY <1>1, <2>3, <3>1, <3>3 DEF OnceOnly
  <2> QED  BY <1>6, <1>10, <2>2, <2>3
<1>11. again' = {}
  <2>1. \A s \in Asked : OrgOf[s[1]] = o => n \notin offered[s]  BY <1>4 DEF OnceOnly
  <2>2. \A x \in again' : x \in again \/ \E s \in Asked : n \in offered[s] /\ OrgOf[s[1]] = o
    BY OfferGives DEF n
  <2> QED  BY <2>1, <2>2
<1> QED  BY <1>3, <1>9, <1>10, <1>11

LEMMA HandInvHolds == FanoutSpec => []HandInv
<1>1. FanoutInit => HandInv
  <2> SUFFICES ASSUME FanoutInit PROVE HandInv  OBVIOUS
  <2>1. <<>> \in Seq(Int)  OBVIOUS
  <2>2. FanoutTypes  BY <2>1 DEF FanoutInit, FanoutTypes, NoGroup
  <2>3. \A g \in Gateways, o \in Orgs : hand[g][o] = <<>>  BY DEF FanoutInit
  <2>4. Apart  BY <2>3, EmptyHand DEF Apart
  <2> QED  BY <2>2, <2>4 DEF FanoutInit, HandInv
<1>2. HandInv /\ [FanoutNext]_fanoutVars => HandInv'
  <2> SUFFICES ASSUME HandInv, [FanoutNext]_fanoutVars PROVE HandInv'  OBVIOUS
  <2>1. CASE NoDelivery  BY <2>1, QuietHands
  <2>2. ASSUME NEW g \in Gateways, NEW o \in Orgs,
               \/ Read(g, o) \/ ReadLost(g, o) \/ HandleEntry(g, o) \/ AckFails(g, o)
        PROVE  HandInv'
    BY <2>2, ReadHands, ReadLostHands, OfferHands DEF Offers, HandleEntry, AckFails
  <2>3. CASE UNCHANGED fanoutVars
    BY <2>3 DEF fanoutVars, clients, redis, readers, HandInv, FanoutTypes, Apart, OnceOnly,
                Entries, Once
  <2> QED  BY <2>1, <2>2, <2>3 DEF FanoutNext, NoDelivery
<1> QED  BY <1>1, <1>2, PTL DEF FanoutSpec

(* No subscription is sent an entry twice, whatever its client reconnects to, *)
(* for any number of gateways, clients, ways and orgs, however often answers  *)
(* and acknowledgements are lost and gateways restart: the group only goes on. *)
THEOREM NothingTwice == FanoutSpec => []OfferedOnce
BY HandInvHolds, HandInvImplies, PTL

-----------------------------------------------------------------------------
(* One gateway: what the group delivers reaches everyone                       *)

\* FanoutReachesAll, of the one entry n.
Served(s, n) ==
    LET o == OrgOf[s[1]]
    IN  \/ n \in offered[s] \/ n \in Entries(hand[server[s[1]]][o])
        \/ n \in missed[o] \/ n \in cut[o] \/ n \in Malformed

\* The group has read no further than the stream goes, and what it still has to read
\* and cannot is known to be cut.
Trimmed(o) ==
    /\ group[o] <= published[o] /\ trimmed[o] <= published[o]
    /\ \A n \in Int : n >= 1 /\ n <= trimmed[o] /\ n > group[o] => n \in cut[o]

ReachInv ==
    /\ HandInv
    /\ \A o \in Orgs : Trimmed(o)
    /\ \A s \in subscribed : \A n \in since[s] + 1 .. group[OrgOf[s[1]]] :
          n > origin[OrgOf[s[1]]] => Served(s, n)

LEMMA ReachInvImplies == ReachInv => FanoutReachesAll
<1> SUFFICES ASSUME ReachInv, NEW s \in subscribed,
                    NEW n \in since[s] + 1 .. group[OrgOf[s[1]]], n > origin[OrgOf[s[1]]]
             PROVE  n \in offered[s] \cup InHand(server[s[1]], OrgOf[s[1]])
                              \cup missed[OrgOf[s[1]]] \cup cut[OrgOf[s[1]]] \cup Malformed
  BY DEF FanoutReachesAll
<1> QED  BY HandsAre DEF ReachInv, Served

\* What a subscription is owed is kept while the readers, the stream and the
\* subscription itself are left alone.
LEMMA ServedKept ==
    ASSUME NEW s \in Asked, NEW n, Served(s, n), UNCHANGED <<offered, hand, missed>>,
           server'[s[1]] = server[s[1]], cut[OrgOf[s[1]]] \subseteq cut'[OrgOf[s[1]]]
    PROVE  Served(s, n)'
BY DEF Served

\* With an unchanged group, subscriptions that stay are owed what they were.
LEMMA SameGroupReach ==
    ASSUME ReachInv, HandInv', \A o \in Orgs : Trimmed(o)',
           UNCHANGED <<group, origin, offered, hand, missed>>,
           \A o \in Orgs : cut[o] \subseteq cut'[o],
           \A s \in subscribed' :
              /\ s \in subscribed /\ since'[s] = since[s] /\ server'[s[1]] = server[s[1]]
    PROVE  ReachInv'
<1>1. ASSUME NEW s \in subscribed', NEW n \in since'[s] + 1 .. group'[OrgOf[s[1]]],
             n > origin'[OrgOf[s[1]]]
      PROVE  Served(s, n)'
  <2>1. s \in subscribed /\ s \in Asked /\ OrgOf[s[1]] \in Orgs
    BY AskedOf DEF ReachInv, HandInv, FanoutTypes
  <2>2. Served(s, n)  BY <1>1, <2>1 DEF ReachInv
  <2> QED  BY <2>1, <2>2, ServedKept
<1> QED  BY <1>1 DEF ReachInv

\* A new entry, and what the stream drops for it.
LEMMA PublishReach ==
    ASSUME ReachInv, HandInv', NEW o \in Orgs, Publish(o)
    PROVE  ReachInv'
<1>1. /\ published \in [Orgs -> Nat] /\ group \in [Orgs -> Int]
      /\ trimmed \in [Orgs -> Nat] /\ cut \in [Orgs -> SUBSET Int]
  BY DEF ReachInv, HandInv, FanoutTypes
<1>2. PICK t \in trimmed[o]..published[o] :
         /\ trimmed' = [trimmed EXCEPT ![o] = t]
         /\ cut' = [cut EXCEPT ![o] = cut[o] \cup {n \in 1..t : n > group[o]}]
  BY DEF Publish
<1>3. published' = [published EXCEPT ![o] = published[o] + 1]
      /\ UNCHANGED <<clients, group, origin, hand, missed>>
  BY DEF Publish, readers
<1>4. /\ published'[o] = published[o] + 1 /\ trimmed'[o] = t
      /\ cut'[o] = cut[o] \cup {n \in 1..t : n > group[o]}
      /\ \A p \in Orgs : p # o => /\ published'[p] = published[p] /\ trimmed'[p] = trimmed[p]
                                  /\ cut'[p] = cut[p]
  BY <1>1, <1>2, <1>3
<1>5. ASSUME NEW p \in Orgs PROVE Trimmed(p)' /\ cut[p] \subseteq cut'[p]
  <2>1. Trimmed(p)  BY DEF ReachInv
  <2>2. CASE p = o
    <3>1. group[o] \in Int /\ published[o] \in Nat /\ t \in Int /\ t <= published[o]
      BY <1>1, <1>2
    <3>2. \A n \in Int : n >= 1 /\ n <= t /\ n > group[o] => n \in cut'[o]  BY <1>4, <3>1
    <3>3. group[o] <= published[o] + 1 /\ t <= published[o] + 1
      BY <2>1, <2>2, <3>1 DEF Trimmed
    <3> QED  BY <1>3, <1>4, <2>2, <3>2, <3>3 DEF Trimmed
  <2>3. CASE p # o  BY <1>3, <1>4, <2>1, <2>3 DEF Trimmed
  <2> QED  BY <2>2, <2>3
<1> QED  BY <1>3, <1>5, SameGroupReach DEF clients

\* A subscription has nothing delivered to it yet.
LEMMA SubscribeReach ==
    ASSUME ReachInv, HandInv', NEW s \in Asked, Subscribe(s)
    PROVE  ReachInv'
<1>1. /\ subscribed' = subscribed \cup {s} /\ s \notin subscribed
      /\ since' = [since EXCEPT ![s] = published[OrgOf[s[1]]]]
      /\ UNCHANGED <<server, offered, published, trimmed, cut, group, origin, hand, missed>>
  BY DEF Subscribe, redis, readers
<1>2. /\ published \in [Orgs -> Nat] /\ group \in [Orgs -> Int] /\ subscribed \subseteq Asked
      /\ since \in [Asked -> Int]
  BY DEF ReachInv, HandInv, FanoutTypes
<1>3. ASSUME NEW d \in subscribed', NEW n \in since'[d] + 1 .. group[OrgOf[d[1]]],
             n > origin[OrgOf[d[1]]]
      PROVE  Served(d, n)'
  <2>1. CASE d = s
    <3>1. since'[d] = published[OrgOf[s[1]]] /\ OrgOf[s[1]] \in Orgs
      BY <1>1, <1>2, <2>1, AskedOf
    <3>2. /\ group[OrgOf[s[1]]] <= published[OrgOf[s[1]]]
          /\ group[OrgOf[s[1]]] \in Int /\ published[OrgOf[s[1]]] \in Int
      BY <1>2, <3>1 DEF ReachInv, Trimmed
    <3> QED  BY <1>3, <2>1, <3>1, <3>2
  <2>2. CASE d # s
    <3>1. d \in subscribed /\ d \in Asked /\ since'[d] = since[d]  BY <1>1, <1>2, <2>2
    <3>2. Served(d, n)  BY <1>3, <3>1 DEF ReachInv
    <3> QED  BY <1>1, <3>1, <3>2, ServedKept
  <2> QED  BY <2>1, <2>2
<1> QED  BY <1>1, <1>3 DEF ReachInv, Trimmed

\* A group begins at the end of the stream.
LEMMA CreateReach ==
    ASSUME ReachInv, HandInv', NEW h \in Gateways, NEW o \in Orgs, Creates(h, o)
    PROVE  ReachInv'
<1>1. UNCHANGED <<clients, published, trimmed, cut, hand, missed>>
  BY DEF Creates, CreateGroup
<1>2. /\ published \in [Orgs -> Nat] /\ group \in [Orgs -> Int] /\ origin \in [Orgs -> Int]
      /\ trimmed \in [Orgs -> Nat] /\ subscribed \subseteq Asked
  BY DEF ReachInv, HandInv, FanoutTypes
<1>3. CASE UNCHANGED <<group, origin>>
  BY <1>1, <1>3, SameGroupReach DEF clients, ReachInv, Trimmed
<1>4. CASE /\ group' = [group EXCEPT ![o] = published[o]]
           /\ origin' = [origin EXCEPT ![o] = published[o]]
  <2>1. \A p \in Orgs : /\ p = o => group'[p] = published[p] /\ origin'[p] = published[p]
                        /\ p # o => group'[p] = group[p] /\ origin'[p] = origin[p]
    BY <1>2, <1>4
  <2>2. ASSUME NEW p \in Orgs PROVE Trimmed(p)'
    <3>1. Trimmed(p) /\ published[p] \in Nat /\ trimmed[p] \in Nat  BY <1>2 DEF ReachInv
    <3>2. CASE p = o  BY <1>1, <2>1, <3>1, <3>2 DEF Trimmed
    <3>3. CASE p # o  BY <1>1, <2>1, <3>1, <3>3 DEF Trimmed
    <3> QED  BY <3>2, <3>3
  <2>3. ASSUME NEW s \in subscribed, NEW n \in since[s] + 1 .. group'[OrgOf[s[1]]],
               n > origin'[OrgOf[s[1]]]
        PROVE  Served(s, n)'
    <3>1. s \in Asked /\ OrgOf[s[1]] \in Orgs  BY <1>2, AskedOf
    <3>2. CASE OrgOf[s[1]] = o
      <4>1. group'[OrgOf[s[1]]] = published[o] /\ origin'[OrgOf[s[1]]] = published[o]
            /\ published[o] \in Int
        BY <1>2, <2>1, <3>2
      <4> QED  BY <2>3, <4>1
    <3>3. CASE OrgOf[s[1]] # o
      <4>1. Served(s, n)  BY <2>1, <2>3, <3>1, <3>3 DEF ReachInv
      <4> QED  BY <1>1, <3>1, <4>1, ServedKept DEF clients
    <3> QED  BY <3>2, <3>3
  <2> QED  BY <1>1, <2>2, <2>3 DEF ReachInv, clients
<1> QED  BY <1>3, <1>4 DEF Creates, CreateGroup

\* With its only gateway, all subscriptions end.
LEMMA QuietReach ==
    ASSUME NEW g, Gateways = {g}, ReachInv, NoDelivery
    PROVE  ReachInv'
<1>1. HandInv'  BY QuietHands DEF ReachInv
<1>2. /\ subscribed \subseteq Asked /\ \A s \in subscribed : server[s[1]] \in Gateways
      /\ server \in [Clients -> Gateways \cup {Nowhere}] /\ since \in [Asked -> Int]
  BY DEF ReachInv, HandInv, FanoutTypes
<1>3. \A s \in Asked : s[1] \in Clients  BY AskedOf
<1>4. ASSUME UNCHANGED <<offered, redis, hand, missed>>,
             \A s \in subscribed' :
                /\ s \in subscribed /\ since'[s] = since[s] /\ server'[s[1]] = server[s[1]]
      PROVE  ReachInv'
  BY <1>1, <1>4, SameGroupReach DEF redis, ReachInv, Trimmed
<1>5. ASSUME NEW o \in Orgs, Publish(o) PROVE ReachInv'  BY <1>1, <1>5, PublishReach
<1>6. ASSUME NEW s \in Asked, Subscribe(s) PROVE ReachInv'  BY <1>1, <1>6, SubscribeReach
<1>7. ASSUME NEW c \in Clients, Leave(c) PROVE ReachInv'
  <2>1. /\ server' = [server EXCEPT ![c] = Nowhere]
        /\ subscribed' = {s \in subscribed : s[1] # c} /\ Forget
        /\ UNCHANGED <<offered, redis, hand, missed>>
    BY <1>7 DEF Leave, readers
  <2>2. \A s \in subscribed' :
           /\ s \in subscribed /\ since'[s] = since[s] /\ server'[s[1]] = server[s[1]]
    BY <1>2, <1>3, <2>1 DEF Forget
  <2> QED  BY <1>4, <2>1, <2>2
<1>8. ASSUME NEW c \in Clients, NEW h \in Gateways, Connect(c, h) PROVE ReachInv'
  <2>1. /\ server' = [server EXCEPT ![c] = h] /\ server[c] = Nowhere
        /\ UNCHANGED <<subscribed, since, offered, redis, hand, missed>>
    BY <1>8 DEF Connect
  <2>2. \A s \in subscribed : s[1] # c  BY <1>2, <2>1, FanoutConstants
  <2> QED  BY <1>2, <1>3, <1>4, <2>1, <2>2
<1>9. ASSUME NEW h \in Gateways, Exit(h) PROVE ReachInv'
  <2>1. subscribed' = {s \in subscribed : server[s[1]] # h} /\ UNCHANGED redis
    BY <1>9 DEF Exit
  <2>2. subscribed' = {}  BY <1>2, <1>9, <2>1
  <2> QED  BY <1>1, <2>1, <2>2 DEF redis, ReachInv, Trimmed
<1>10. ASSUME NEW h \in Gateways, Restart(h) PROVE ReachInv'
  BY <1>4, <1>10 DEF Restart, clients, readers
<1>11. ASSUME NEW h \in Gateways, NEW o \in Orgs, CreateGroupFails(h, o) PROVE ReachInv'
  BY <1>4, <1>11 DEF CreateGroupFails, clients
<1>12. ASSUME NEW h \in Gateways, NEW o \in Orgs, Creates(h, o) PROVE ReachInv'
  BY <1>1, <1>12, CreateReach
<1> QED  BY <1>5, <1>6, <1>7, <1>8, <1>9, <1>10, <1>11, <1>12 DEF NoDelivery

\* What the group delivers next is in the hand, or known as missed; what it skips is cut.
LEMMA ReadReach ==
    ASSUME NEW g, Gateways = {g}, ReachInv, NEW o \in Orgs, Read(g, o) \/ ReadLost(g, o)
    PROVE  ReachInv'
<1> USE DEF ReachInv
<1>1. FanoutTypes /\ g \in Gateways  BY DEF HandInv
<1>2. HandInv'  BY <1>1, ReadHands, ReadLostHands
<1>3. UNCHANGED <<clients, published, trimmed, cut, origin>>  BY DEF Read, ReadLost
<1>4. PICK k \in 1..Batch : Delivered(o, k)  BY DEF Read, ReadLost
<1>5. /\ group' \in [Orgs -> Int] /\ group \in [Orgs -> Int] /\ published \in [Orgs -> Nat]
      /\ \A p \in Orgs : group[p] <= group'[p] /\ (p # o => group'[p] = group[p])
      /\ k \in Nat /\ group'[o] = Before(o) + k /\ group'[o] <= published[o]
      /\ Before(o) \in Nat /\ group[o] \in Nat /\ (Before(o) = group[o] \/ Before(o) = trimmed[o])
  <2>1. group \in [Orgs -> Int] /\ published \in [Orgs -> Nat]  BY <1>1 DEF FanoutTypes
  <2>2. Before(o) + k <= published[o]  BY <1>4 DEF Delivered
  <2> QED  BY <1>1, <1>4, <2>1, <2>2, DeliveredGives
<1>6. ASSUME NEW p \in Orgs PROVE Trimmed(p)'
  <2>1. Trimmed(p) /\ group[p] \in Int /\ group'[p] \in Int /\ group[p] <= group'[p]  BY <1>5
  <2>2. group'[p] <= published[p]  BY <1>5, <2>1 DEF Trimmed
  <2>3. \A n \in Int : n > group'[p] => n > group[p]  BY <2>1
  <2> QED  BY <1>3, <2>1, <2>2, <2>3 DEF Trimmed
<1>7. ASSUME NEW s \in subscribed, NEW n, Served(s, n) PROVE Served(s, n)'
  <2>1. OrgOf[s[1]] \in Orgs /\ server[s[1]] = g  BY <1>1, AskedOf DEF FanoutTypes
  <2>2. CASE Read(g, o)
    <3>1. missed' = missed  BY <1>1, <2>2, ReadGives
    <3>2. n \in Entries(hand[g][OrgOf[s[1]]]) => n \in Entries(hand'[g][OrgOf[s[1]]])
      BY <1>1, <2>1, <2>2, ReadGives
    <3> QED  BY <1>3, <1>7, <2>1, <3>1, <3>2 DEF Served, clients
  <2>3. CASE ReadLost(g, o)
    <3>1. hand' = hand /\ \A p \in Orgs : missed[p] \subseteq missed'[p]
      BY <1>1, <2>3 DEF ReadLost, readers, FanoutTypes
    <3> QED  BY <1>3, <1>7, <2>1, <3>1 DEF Served, clients
  <2> QED  BY <2>2, <2>3
<1>8. ASSUME NEW s \in subscribed, OrgOf[s[1]] = o, NEW n \in Before(o) + 1 .. group'[o]
      PROVE  Served(s, n)'
  <2>1. server[s[1]] = g  BY <1>1 DEF FanoutTypes
  <2>2. CASE Read(g, o)
    <3>1. n \in Entries(hand'[g][o])  BY <1>1, <2>2, ReadGives
    <3> QED  BY <1>3, <1>8, <2>1, <3>1 DEF Served, clients
  <2>3. CASE ReadLost(g, o)
    <3>1. PICK j \in 1..Batch :
             /\ Delivered(o, j)
             /\ missed' = [missed EXCEPT ![o] = @ \cup (Before(o) + 1 .. Before(o) + j)]
      BY <2>3 DEF ReadLost
    <3>2. group'[o] = Before(o) + j  BY <1>1, <3>1, DeliveredGives
    <3>3. n \in missed'[o]  BY <1>1, <1>8, <3>1, <3>2 DEF FanoutTypes
    <3> QED  BY <1>3, <1>8, <3>3 DEF Served, clients
  <2> QED  BY <2>2, <2>3
<1>9. ASSUME NEW s \in subscribed, OrgOf[s[1]] = o, NEW n \in Int, n > group[o], n <= Before(o)
      PROVE  Served(s, n)'
  <2>1. n >= 1 /\ n <= trimmed[o]  BY <1>1, <1>5, <1>9 DEF FanoutTypes
  <2>2. n \in cut[o]  BY <1>9, <2>1 DEF Trimmed
  <2> QED  BY <1>3, <1>9, <2>2 DEF Served, clients
<1>10. ASSUME NEW s \in subscribed, NEW n \in since[s] + 1 .. group'[OrgOf[s[1]]],
              n > origin[OrgOf[s[1]]]
       PROVE  Served(s, n)'
  <2>1. OrgOf[s[1]] \in Orgs /\ since[s] \in Int  BY <1>1, AskedOf DEF FanoutTypes
  <2>2. group[OrgOf[s[1]]] \in Int /\ group'[OrgOf[s[1]]] \in Int  BY <1>5, <2>1
  <2>3. CASE n <= group[OrgOf[s[1]]]
    <3>1. n \in since[s] + 1 .. group[OrgOf[s[1]]]  BY <1>10, <2>1, <2>2, <2>3
    <3> QED  BY <1>7, <1>10, <3>1
  <2>4. CASE n > group[OrgOf[s[1]]]
    <3>1. n \in Int /\ n <= group'[OrgOf[s[1]]] /\ group'[OrgOf[s[1]]] # group[OrgOf[s[1]]]
      BY <2>1, <2>2, <2>4
    <3>2. OrgOf[s[1]] = o  BY <1>5, <2>1, <3>1
    <3>3. n \in Before(o) + 1 .. group'[o] \/ n <= Before(o)  BY <1>5, <3>1, <3>2
    <3> QED  BY <1>8, <1>9, <2>4, <3>1, <3>2, <3>3
  <2> QED  BY <2>1, <2>2, <2>3, <2>4
<1> QED  BY <1>2, <1>3, <1>6, <1>10 DEF clients

\* What leaves the hand has been offered to every subscriber of the org.
LEMMA OfferReach ==
    ASSUME NEW g, Gateways = {g}, ReachInv, NEW o \in Orgs, Offers(g, o)
    PROVE  ReachInv'
<1> USE DEF ReachInv
<1>1. FanoutTypes /\ Apart /\ g \in Gateways  BY DEF HandInv
<1>2. HandInv'  BY <1>1, OfferHands
<1>3. UNCHANGED <<server, subscribed, since, published, trimmed, cut, group, origin, missed>>
  BY <1>1, OfferGives
<1>4. ASSUME NEW s \in subscribed, NEW n, Served(s, n) PROVE Served(s, n)'
  <2>1. s \in Asked /\ OrgOf[s[1]] \in Orgs /\ server[s[1]] = g
    BY <1>1, AskedOf DEF FanoutTypes
  <2>2. n \in offered[s] => n \in offered'[s]  BY <1>1, <2>1, OfferGives
  <2>3. n \in Entries(hand[g][OrgOf[s[1]]]) =>
            \/ n \in Entries(hand'[g][OrgOf[s[1]]])
            \/ n = First(g, o) /\ OrgOf[s[1]] = o
    <3>1. CASE OrgOf[s[1]] = o  BY <1>1, <3>1, OfferGives
    <3>2. CASE OrgOf[s[1]] # o  BY <1>1, <2>1, <3>2, OfferGives
    <3> QED  BY <3>1, <3>2
  <2>4. n = First(g, o) /\ OrgOf[s[1]] = o => n \in offered'[s] \/ n \in Malformed
    <3>1. SUFFICES ASSUME n = First(g, o), OrgOf[s[1]] = o, n \notin Malformed
                   PROVE  n \in offered'[s]
      OBVIOUS
    <3>2. s \in Listeners(g, o)  BY <2>1, <3>1 DEF Listeners
    <3> QED  BY <1>1, <2>1, <3>1, <3>2, OfferGives
  <2> QED  BY <1>3, <1>4, <2>1, <2>2, <2>3, <2>4 DEF Served
<1>5. \A p \in Orgs : Trimmed(p)'  BY <1>3 DEF Trimmed
<1> QED  BY <1>2, <1>3, <1>4, <1>5

(* With one gateway, the fan-out reaches every subscriber: whatever the group *)
(* has gone past since a subscription was offered to it, is on its way, was   *)
(* lost by a fault or trimmed unread, or is malformed.  With two it does not  *)
(* hold (FanoutTwo).                                                          *)
THEOREM OneGatewayReachesAll ==
    ASSUME NEW g, Gateways = {g}
    PROVE  FanoutSpec => []FanoutReachesAll
<1>1. FanoutInit /\ HandInv => ReachInv
  <2> SUFFICES ASSUME FanoutInit, HandInv PROVE ReachInv  OBVIOUS
  <2>1. \A o \in Orgs : group[o] = -1 /\ published[o] = 0 /\ trimmed[o] = 0
    BY DEF FanoutInit, NoGroup
  <2>2. \A o \in Orgs : Trimmed(o)  BY <2>1 DEF Trimmed
  <2> QED  BY <2>2 DEF FanoutInit, ReachInv
<1>2. ReachInv /\ [FanoutNext]_fanoutVars => ReachInv'
  <2> SUFFICES ASSUME ReachInv, [FanoutNext]_fanoutVars PROVE ReachInv'  OBVIOUS
  <2>1. CASE NoDelivery  BY <2>1, QuietReach
  <2>2. ASSUME NEW o \in Orgs,
               \/ Read(g, o) \/ ReadLost(g, o) \/ HandleEntry(g, o) \/ AckFails(g, o)
        PROVE  ReachInv'
    BY <2>2, ReadReach, OfferReach DEF Offers, HandleEntry, AckFails
  <2>3. CASE UNCHANGED fanoutVars
    BY <2>3 DEF fanoutVars, clients, redis, readers, HandInv, FanoutTypes, Apart, OnceOnly,
                Entries, Once, ReachInv, Served, Trimmed
  <2> QED  BY <2>1, <2>2, <2>3 DEF FanoutNext, NoDelivery
<1> QED  BY <1>1, <1>2, HandInvHolds, ReachInvImplies, PTL DEF FanoutSpec
=============================================================================
