---------------------------- MODULE EnrichmentProofs ----------------------------
(***************************************************************************)
(* For any number of replicas, workers, vehicles and stripes, whatever the  *)
(* messages and the faults: no big move is lost to a stale read, every copy *)
(* a replica took is kept or its XADD failed, and that is counted only of a *)
(* copy no client saw.                                                      *)
(***************************************************************************)
EXTENDS Enrichment, TLAPS

Types ==
    /\ feed \in [Published -> Message]
    /\ next \in [Replicas -> Nat \ {0}]
    /\ holder \in [Replicas -> [Stripes -> Workers \cup {None}]]
    /\ at \in [Workers -> Positions]
    /\ msg \in [Workers -> Nat]
    /\ DOMAIN seen = Workers
    /\ DOMAIN state = Vehicles
    /\ late \subseteq [m : Published, by : Replicas, late : {TRUE}]

\* What a worker is busy with was published.
Busy == \A w \in Workers : at[w] # "idle" => msg[w] \in Published

\* The worker between Lock and Unlock holds the stripe of its vehicle.
Holds(w) == holder[ReplicaOf[w]][stripe[vehicle(w)]] = w
Locked == \A w \in Workers : at[w] \in {"read", "store"} => Holds(w)

\* What it read is still there, unless something no lock orders came between.
Fresh(w) == LET l == state[vehicle(w)] IN
    seen[w] # Failed /\ l # None /\ l.by = ReplicaOf[w] /\ ~l.late => seen[w] = l
ReadIsFresh == \A w \in Workers : at[w] = "store" => Fresh(w)

IInv == Types /\ Busy /\ Locked /\ ReadIsFresh /\ BigMovesSeen

-----------------------------------------------------------------------------

LEMMA InitIInv == Init => IInv
<1> SUFFICES ASSUME Init PROVE IInv  OBVIOUS
<1> USE EnrichmentConstants DEF Init
<1>1. Types  BY DEF Types, Nobody, Positions
<1>2. Busy /\ Locked /\ ReadIsFresh  BY DEF Busy, Locked, ReadIsFresh
<1>3. BigMovesSeen  BY DEF BigMovesSeen
<1> QED  BY <1>1, <1>2, <1>3 DEF IInv

\* The vehicle of a busy worker is one of the vehicles, its stripe one of the stripes.
LEMMA VehicleOfBusy ==
    ASSUME Types, Busy, NEW w \in Workers, at[w] # "idle"
    PROVE  /\ vehicle(w) \in Vehicles /\ stripe[vehicle(w)] \in Stripes
           /\ ReplicaOf[w] \in Replicas /\ msg[w] \in Published
BY EnrichmentConstants DEF Types, Busy, vehicle, Message

\* Two workers of one process are never between Lock and Unlock of one vehicle.
LEMMA Exclusion ==
    ASSUME Locked, NEW u \in Workers, NEW w \in Workers,
           at[u] \in {"read", "store"}, at[w] \in {"read", "store"},
           ReplicaOf[u] = ReplicaOf[w], vehicle(u) = vehicle(w)
    PROVE  u = w
BY DEF Locked, Holds

\* A state that should have been shown is one the worker goes on to show.
LEMMA ShownIfOwed ==
    ASSUME NEW w \in Workers, Fresh(w), MustShow(w)
    PROVE  shouldBroadcast(w)
BY DEF Fresh, MustShow, shouldBroadcast, Known

-----------------------------------------------------------------------------
(* Types and Busy *)

LEMMA TypesKept ==
    ASSUME Types, Busy, [Next]_vars
    PROVE  Types' /\ Busy'
<1> USE EnrichmentConstants
<1>1. ASSUME NEW w \in Workers, Take(w) PROVE Types' /\ Busy'
  <2>1. next[ReplicaOf[w]] \in Published  BY <1>1 DEF Types, Take, Published
  <2>2. next' \in [Replicas -> Nat \ {0}]
    BY <1>1, <2>1 DEF Types, Take, Published
  <2>3. msg' \in [Workers -> Nat] /\ Busy'
    BY <1>1, <2>1 DEF Types, Busy, Take, Goto, Published
  <2> QED  BY <1>1, <2>2, <2>3 DEF Types, Take, Goto, Positions
<1>2. ASSUME NEW w \in Workers, Lock(w) PROVE Types' /\ Busy'
  <2>1. Types'  BY <1>2, VehicleOfBusy DEF Types, Lock, Goto, Positions, streams
  <2>2. Busy'  BY <1>2 DEF Types, Busy, Lock, Goto
  <2> QED  BY <2>1, <2>2
<1>3. ASSUME NEW w \in Workers, Read(w) PROVE Types' /\ Busy'
  BY <1>3 DEF Types, Busy, Read, Goto, Positions, streams
<1>4. ASSUME NEW w \in Workers, Store(w) PROVE Types' /\ Busy'
  <2>1. Own(w) \in [m : Published, by : Replicas, late : {FALSE}]
    BY <1>4, VehicleOfBusy DEF Store, Own
  <2>2. late' \subseteq [m : Published, by : Replicas, late : {TRUE}] /\ DOMAIN state' = Vehicles
    BY <1>4, <2>1 DEF Types, Store, WriteState
  <2>3. holder' \in [Replicas -> [Stripes -> Workers \cup {None}]]
    BY <1>4, VehicleOfBusy DEF Types, Store, Unlock, Nobody
  <2>4. at' \in [Workers -> Positions] /\ Busy'
    BY <1>4 DEF Types, Busy, Store, Route, Goto, Positions
  <2> QED  BY <1>4, <2>2, <2>3, <2>4 DEF Types, Store
<1>5. ASSUME NEW w \in Workers, Write(w) PROVE Types' /\ Busy'
  <2>1. CASE AddRealtime(w)  BY <2>1 DEF Types, Busy, AddRealtime, Goto, Positions
  <2>2. CASE AddBatch(w)  BY <2>2 DEF Types, Busy, AddBatch, Goto, Positions
  <2>3. CASE AddFiltered(w)  BY <2>3 DEF Types, Busy, AddFiltered, Goto, Positions
  <2> QED  BY <1>5, <2>1, <2>2, <2>3 DEF Write
<1>6. ASSUME ApplyLate PROVE Types' /\ Busy'
  BY <1>6 DEF Types, Busy, ApplyLate, worker
<1>7. ASSUME NEW v \in Vehicles, Expire(v) PROVE Types' /\ Busy'
  BY <1>7 DEF Types, Busy, Expire, worker
<1>8. CASE UNCHANGED vars
  BY <1>8 DEF Types, Busy, vars, worker
<1> QED  BY <1>1, <1>2, <1>3, <1>4, <1>5, <1>6, <1>7, <1>8 DEF Next, Enrich

-----------------------------------------------------------------------------
(* Locked *)

LEMMA LockedKept ==
    ASSUME Types, Busy, Locked, [Next]_vars
    PROVE  Locked'
<1> USE EnrichmentConstants
<1>1. ASSUME NEW w \in Workers, Take(w) PROVE Locked'
  BY <1>1 DEF Types, Locked, Holds, vehicle, Take, Goto
<1>2. ASSUME NEW w \in Workers, Lock(w) PROVE Locked'
  <2> SUFFICES ASSUME NEW u \in Workers, at'[u] \in {"read", "store"} PROVE Holds(u)'
    BY DEF Locked
  <2>1. CASE u = w
    BY <1>2, <2>1, VehicleOfBusy DEF Types, Lock, Holds, vehicle
  <2>2. CASE u # w
    <3>1. at[u] \in {"read", "store"} /\ Holds(u)
      BY <1>2, <2>2 DEF Types, Lock, Goto, Locked
    <3>2. ~(ReplicaOf[u] = ReplicaOf[w] /\ stripe[vehicle(u)] = stripe[vehicle(w)])
      BY <1>2, <3>1 DEF Lock, Holds, Nobody
    <3> QED  BY <1>2, <3>1, <3>2, VehicleOfBusy DEF Types, Lock, Holds, vehicle
  <2> QED  BY <2>1, <2>2
<1>3. ASSUME NEW w \in Workers, Read(w) PROVE Locked'
  BY <1>3 DEF Types, Locked, Holds, vehicle, Read, Goto
<1>4. ASSUME NEW w \in Workers, Store(w) PROVE Locked'
  <2> SUFFICES ASSUME NEW u \in Workers, at'[u] \in {"read", "store"} PROVE Holds(u)'
    BY DEF Locked
  <2>1. u # w /\ at[u] \in {"read", "store"}
    BY <1>4 DEF Types, Store, Route, Goto
  <2>2. Holds(u) /\ Holds(w)  BY <1>4, <2>1 DEF Locked, Store
  <2>3. ~(ReplicaOf[u] = ReplicaOf[w] /\ stripe[vehicle(u)] = stripe[vehicle(w)])
    BY <2>1, <2>2 DEF Holds
  <2> QED  BY <1>4, <2>1, <2>2, <2>3, VehicleOfBusy DEF Types, Store, Unlock, Holds, vehicle
<1>5. ASSUME NEW w \in Workers, Write(w) PROVE Locked'
  BY <1>5 DEF Types, Locked, Holds, vehicle, Write, AddRealtime, AddBatch, AddFiltered, Goto
<1>6. CASE ApplyLate
  BY <1>6 DEF Locked, Holds, vehicle, ApplyLate, worker
<1>7. ASSUME NEW v \in Vehicles, Expire(v) PROVE Locked'
  BY <1>7 DEF Locked, Holds, vehicle, Expire, worker
<1>8. CASE UNCHANGED vars
  BY <1>8 DEF Locked, Holds, vehicle, vars, worker
<1> QED  BY <1>1, <1>2, <1>3, <1>4, <1>5, <1>6, <1>7, <1>8 DEF Next, Enrich

-----------------------------------------------------------------------------
(* ReadIsFresh *)

LEMMA FreshKept ==
    ASSUME Types, Busy, Locked, ReadIsFresh, [Next]_vars
    PROVE  ReadIsFresh'
<1> USE EnrichmentConstants
<1> SUFFICES ASSUME NEW u \in Workers, at'[u] = "store" PROVE Fresh(u)'
  BY DEF ReadIsFresh
<1>1. ASSUME NEW w \in Workers, Take(w) PROVE Fresh(u)'
  BY <1>1 DEF Types, ReadIsFresh, Fresh, vehicle, Take, Goto
<1>2. ASSUME NEW w \in Workers, Lock(w) PROVE Fresh(u)'
  BY <1>2 DEF Types, ReadIsFresh, Fresh, vehicle, Lock, Goto
<1>3. ASSUME NEW w \in Workers, Read(w) PROVE Fresh(u)'
  BY <1>3 DEF Types, ReadIsFresh, Fresh, vehicle, Read, Goto
<1>4. ASSUME NEW w \in Workers, Store(w) PROVE Fresh(u)'
  <2>1. u # w /\ at[u] = "store" /\ Fresh(u)
    BY <1>4 DEF Types, Store, Route, Goto, ReadIsFresh
  <2>2. vehicle(u) \in Vehicles /\ vehicle(w) \in Vehicles
    BY <1>4, <2>1, VehicleOfBusy DEF Store
  <2>3. \/ state' = state
        \/ state' = [state EXCEPT ![vehicle(w)] = Own(w)]
    BY <1>4 DEF Store, WriteState
  <2>4. vehicle(u)' = vehicle(u) /\ seen' = seen
    BY <1>4 DEF Store, vehicle
  <2>5. CASE state'[vehicle(u)] = state[vehicle(u)]
    BY <2>1, <2>4, <2>5 DEF Fresh
  <2>6. CASE vehicle(u) = vehicle(w) /\ state'[vehicle(u)] = Own(w)
    <3>1. ReplicaOf[u] # ReplicaOf[w]
      BY <1>4, <2>1, <2>6, Exclusion DEF Store
    <3>2. Own(w).by # ReplicaOf[u]  BY <3>1 DEF Own
    <3> QED  BY <2>4, <2>6, <3>2 DEF Fresh
  <2> QED  BY <2>2, <2>3, <2>5, <2>6 DEF Types
<1>5. ASSUME NEW w \in Workers, Write(w) PROVE Fresh(u)'
  BY <1>5 DEF Types, ReadIsFresh, Fresh, vehicle, Write, AddRealtime, AddBatch, AddFiltered, Goto
<1>6. CASE ApplyLate
  <2>1. PICK l \in late : state' = [state EXCEPT ![feed[l.m].vehicle] = l]
    BY <1>6 DEF ApplyLate
  <2>2. l.late = TRUE  BY DEF Types
  <2>3. at[u] = "store" /\ Fresh(u) /\ vehicle(u)' = vehicle(u) /\ seen' = seen
    BY <1>6 DEF ApplyLate, worker, ReadIsFresh, vehicle
  <2>4. vehicle(u) \in Vehicles  BY <2>3, VehicleOfBusy
  <2>5. state'[vehicle(u)] = state[vehicle(u)] \/ state'[vehicle(u)].late
    BY <2>1, <2>2, <2>4 DEF Types
  <2> QED  BY <2>3, <2>5 DEF Fresh
<1>7. ASSUME NEW v \in Vehicles, Expire(v) PROVE Fresh(u)'
  <2>1. at[u] = "store" /\ Fresh(u) /\ vehicle(u)' = vehicle(u) /\ seen' = seen
    BY <1>7 DEF Expire, worker, ReadIsFresh, vehicle
  <2>2. state'[vehicle(u)] = state[vehicle(u)] \/ state'[vehicle(u)] = None
    BY <1>7, <2>1, VehicleOfBusy DEF Expire, Types
  <2> QED  BY <2>1, <2>2 DEF Fresh
<1>8. CASE UNCHANGED vars
  BY <1>8 DEF ReadIsFresh, Fresh, vehicle, vars, worker
<1> QED  BY <1>1, <1>2, <1>3, <1>4, <1>5, <1>6, <1>7, <1>8 DEF Next, Enrich

-----------------------------------------------------------------------------
(* BigMovesSeen *)

\* Where a copy that is owed to the clients is.
Shown(c) == c \in realtime \cup buffered \/ \E w \in Workers : at[w] = "realtime" /\ c = copy(w)

LEMMA SeenIsShown == BigMovesSeen <=> \A c \in owed : Shown(c)
BY DEF BigMovesSeen, Shown

LEMMA BigMovesKept ==
    ASSUME Types, ReadIsFresh, BigMovesSeen, [Next]_vars
    PROVE  BigMovesSeen'
<1> SUFFICES ASSUME NEW c \in owed' PROVE Shown(c)'
  BY DEF BigMovesSeen, Shown
<1>0. c \in owed => Shown(c)  BY SeenIsShown
<1>1. ASSUME NEW w \in Workers, Take(w) PROVE Shown(c)'
  BY <1>0, <1>1 DEF Types, Shown, copy, Take, Goto, streams
<1>2. ASSUME NEW w \in Workers, Lock(w) PROVE Shown(c)'
  BY <1>0, <1>2 DEF Types, Shown, copy, Lock, Goto, streams
<1>3. ASSUME NEW w \in Workers, Read(w) PROVE Shown(c)'
  BY <1>0, <1>3 DEF Types, Shown, copy, Read, Goto, streams
<1>4. ASSUME NEW w \in Workers, Store(w) PROVE Shown(c)'
  <2>1. CASE c \in owed
    BY <1>0, <1>4, <2>1 DEF Types, Shown, copy, Store, Route, Goto, streams
  <2>2. CASE c \notin owed
    <3>1. MustShow(w) /\ c = copy(w)  BY <1>4, <2>2 DEF Store
    <3>2. shouldBroadcast(w)  BY <1>4, <3>1, ShownIfOwed DEF Store, ReadIsFresh
    <3>3. at'[w] = "realtime"  BY <1>4, <3>2 DEF Types, Store, Route, Goto
    <3> QED  BY <1>4, <3>1, <3>3 DEF Shown, copy, Store
  <2> QED  BY <2>1, <2>2
<1>5. ASSUME NEW w \in Workers, AddRealtime(w) PROVE Shown(c)'
  BY <1>0, <1>5 DEF Types, Shown, copy, AddRealtime, Goto
<1>6. ASSUME NEW w \in Workers, AddBatch(w) PROVE Shown(c)'
  BY <1>0, <1>6 DEF Types, Shown, copy, AddBatch, Goto
<1>10. ASSUME NEW w \in Workers, AddFiltered(w) PROVE Shown(c)'
  BY <1>0, <1>10 DEF Types, Shown, copy, AddFiltered, Goto
<1>7. CASE ApplyLate
  BY <1>0, <1>7 DEF Shown, copy, ApplyLate, worker, streams
<1>8. ASSUME NEW v \in Vehicles, Expire(v) PROVE Shown(c)'
  BY <1>0, <1>8 DEF Shown, copy, Expire, worker, streams
<1>9. CASE UNCHANGED vars
  BY <1>0, <1>9 DEF Shown, copy, vars, worker, streams
<1> QED  BY <1>1, <1>2, <1>3, <1>4, <1>5, <1>6, <1>7, <1>8, <1>9, <1>10 DEF Next, Enrich, Write

-----------------------------------------------------------------------------
(* EveryDeliveryKept: the copies that were taken *)

\* Where the copy of a message a replica took is, until it is finished with.
Kept(c) == c \in batch \cup buffered \cup counted \cup logged
           \/ \E w \in Workers : at[w] # "idle" /\ c = copy(w)

NoneLost == \A r \in Replicas, m \in Published :
                First[r] <= m /\ m < next[r] => Kept(<<r, m>>)

\* A copy that is kept stays so: a worker lets go of the one in hand only into a
\* stream, into the buffer or at the count of errors.
LEMMA CopyKept ==
    ASSUME Types, [Next]_vars, NEW c, Kept(c)
    PROVE  Kept(c)'
<1>1. ASSUME NEW w \in Workers, Take(w) PROVE Kept(c)'
  BY <1>1 DEF Types, Kept, copy, Take, Goto, streams
<1>2. ASSUME NEW w \in Workers, Enrich(w) PROVE Kept(c)'
  <2>1. UNCHANGED <<msg, batch, buffered, counted, logged>>
        /\ \A u \in Workers : at[u] # "idle" => at'[u] # "idle"
    BY <1>2 DEF Types, Enrich, Lock, Read, Store, Route, Goto, streams
  <2> QED  BY <2>1 DEF Kept, copy
<1>3. ASSUME NEW w \in Workers, AddRealtime(w) PROVE Kept(c)'
  <2>1. UNCHANGED <<msg, batch, counted, logged>> /\ buffered \subseteq buffered'
        /\ (\A u \in Workers : at[u] # "idle" => at'[u] # "idle" \/ copy(u) \in buffered')
    BY <1>3 DEF Types, AddRealtime, Goto
  <2> QED  BY <2>1 DEF Kept, copy
<1>4. ASSUME NEW w \in Workers, AddBatch(w) PROVE Kept(c)'
  <2>1. UNCHANGED <<msg, buffered, counted>> /\ batch \subseteq batch' /\ logged \subseteq logged'
        /\ (\A u \in Workers : at[u] # "idle" => at'[u] # "idle" \/ copy(u) \in batch' \cup logged')
    BY <1>4 DEF Types, AddBatch, Added, AddFails, Goto
  <2> QED  BY <2>1 DEF Kept, copy
<1>8. ASSUME NEW w \in Workers, AddFiltered(w) PROVE Kept(c)'
  <2>1. UNCHANGED <<msg, buffered, logged>> /\ batch \subseteq batch' /\ counted \subseteq counted'
        /\ (\A u \in Workers : at[u] # "idle" => at'[u] # "idle" \/ copy(u) \in batch' \cup counted')
    BY <1>8 DEF Types, AddFiltered, Added, AddFails, Goto
  <2> QED  BY <2>1 DEF Kept, copy
<1>5. CASE ApplyLate  BY <1>5 DEF Kept, copy, ApplyLate, worker, streams
<1>6. ASSUME NEW v \in Vehicles, Expire(v) PROVE Kept(c)'
  BY <1>6 DEF Kept, copy, Expire, worker, streams
<1>7. CASE UNCHANGED vars  BY <1>7 DEF Kept, copy, vars, worker, streams
<1> QED  BY <1>1, <1>2, <1>3, <1>4, <1>5, <1>6, <1>7, <1>8 DEF Next, Write

\* Only Take hands a message to a replica, and to the worker that takes it.
LEMMA DeliveryKept ==
    ASSUME Types, NoneLost, [Next]_vars
    PROVE  NoneLost'
<1> USE EnrichmentConstants
<1> SUFFICES ASSUME NEW r \in Replicas, NEW m \in Published, First[r] <= m, m < next'[r]
             PROVE  Kept(<<r, m>>)'
  BY DEF NoneLost
<1>1. CASE m < next[r]
  <2>1. Kept(<<r, m>>)  BY <1>1 DEF NoneLost
  <2> QED  BY <2>1, CopyKept
<1>2. CASE ~(m < next[r])
  <2>1. next' # next  BY <1>2
  <2>2. PICK w \in Workers : Take(w)
    BY <2>1 DEF Next, Enrich, Lock, Read, Store, Write, AddRealtime, AddBatch, AddFiltered, ApplyLate,
                Expire, vars
  <2>3. /\ next' = [next EXCEPT ![ReplicaOf[w]] = @ + 1]
        /\ msg' = [msg EXCEPT ![w] = next[ReplicaOf[w]]]
        /\ at' = [at EXCEPT ![w] = "lock"]
    BY <2>2 DEF Take, Goto
  <2>4. next[r] \in Nat /\ m \in Nat  BY DEF Types, Published
  <2>5. r = ReplicaOf[w] /\ m = next[r]
    <3>1. next'[r] = IF r = ReplicaOf[w] THEN next[r] + 1 ELSE next[r]  BY <2>3 DEF Types
    <3>2. m < next'[r]  OBVIOUS
    <3> HIDE DEF Published
    <3> QED  BY <1>2, <2>4, <3>1, <3>2
  <2>6. msg'[w] = m /\ at'[w] = "lock"  BY <2>3, <2>5 DEF Types
  <2> QED  BY <2>5, <2>6 DEF Kept, copy
<1> QED  BY <1>1, <1>2

-----------------------------------------------------------------------------
(* EveryDeliveryKept: a copy is written by one worker, to both streams or to one *)

\* Before its first XADD a copy is nowhere; after it, it may be in the realtime stream.
Fresher == {"lock", "read", "store", "filtered", "realtime"}

\* A replica takes each message once.
TakenOnce ==
    /\ \A w \in Workers : at[w] # "idle" => msg[w] < next[ReplicaOf[w]]
    /\ \A u, w \in Workers :
          u # w /\ at[u] # "idle" /\ at[w] # "idle" /\ ReplicaOf[u] = ReplicaOf[w]
              => msg[u] # msg[w]

Traced ==
    /\ \A r \in Replicas : \A m \in Nat : <<r, m>> \in realtime \cup counted => m < next[r]
    /\ \A w \in Workers : at[w] \in Fresher => copy(w) \notin realtime \cup counted
    /\ \A w \in Workers : at[w] = "batch" => copy(w) \in realtime
    /\ logged \subseteq realtime
    /\ \A c \in counted : c \notin realtime

\* What no action but Take changes, and what the others change of positions.
LEMMA Moves ==
    ASSUME Types, [Next]_vars, ~\E w \in Workers : Take(w)
    PROVE  /\ UNCHANGED <<next, msg>>
           /\ \A w \in Workers : at'[w] # "idle" => at[w] # "idle"
<1>1. ASSUME NEW w \in Workers, Enrich(w)
      PROVE  UNCHANGED <<next, msg>> /\ \A u \in Workers : at'[u] # "idle" => at[u] # "idle"
  BY <1>1 DEF Types, Enrich, Lock, Read, Store, Route, Goto
<1>2. ASSUME NEW w \in Workers, Write(w)
      PROVE  UNCHANGED <<next, msg>> /\ \A u \in Workers : at'[u] # "idle" => at[u] # "idle"
  BY <1>2 DEF Types, Write, AddRealtime, AddBatch, AddFiltered, Goto
<1>3. CASE ApplyLate  BY <1>3 DEF ApplyLate, worker
<1>4. ASSUME NEW v \in Vehicles, Expire(v) PROVE UNCHANGED <<next, msg, at>>
  BY <1>4 DEF Expire, worker
<1>5. CASE UNCHANGED vars  BY <1>5 DEF vars, worker
<1> QED  BY <1>1, <1>2, <1>3, <1>4, <1>5 DEF Next

LEMMA TakenOnceKept ==
    ASSUME Types, TakenOnce, [Next]_vars
    PROVE  TakenOnce'
<1>1. ASSUME NEW w \in Workers, Take(w) PROVE TakenOnce'
  <2> DEFINE r == ReplicaOf[w]
  <2>1. /\ next' = [next EXCEPT ![r] = @ + 1] /\ msg' = [msg EXCEPT ![w] = next[r]]
        /\ at[w] = "idle" /\ at' = [at EXCEPT ![w] = "lock"]
    BY <1>1 DEF Take, Goto
  <2>2. r \in Replicas /\ next[r] \in Nat  BY EnrichmentConstants DEF Types
  <2>3. ASSUME NEW u \in Workers
        PROVE  /\ next[ReplicaOf[u]] \in Nat /\ next'[ReplicaOf[u]] \in Nat
               /\ next[ReplicaOf[u]] <= next'[ReplicaOf[u]]
    <3>1. ReplicaOf[u] \in Replicas /\ next[ReplicaOf[u]] \in Nat
      BY EnrichmentConstants DEF Types
    <3>2. \/ next'[ReplicaOf[u]] = next[ReplicaOf[u]] + 1
          \/ next'[ReplicaOf[u]] = next[ReplicaOf[u]]
      BY <2>1, <3>1 DEF Types
    <3> QED  BY <3>1, <3>2
  <2>4. \A u \in Workers : u # w => msg'[u] = msg[u] /\ at'[u] = at[u] /\ msg[u] \in Nat
    BY <2>1 DEF Types
  <2>5. msg'[w] = next[r] /\ next'[r] = next[r] + 1  BY <2>1, <2>2 DEF Types
  <2> HIDE DEF r
  <2>6. ASSUME NEW u \in Workers, at'[u] # "idle" PROVE msg'[u] < next'[ReplicaOf[u]]
    <3>1. CASE u = w  BY <2>2, <2>5, <3>1 DEF r
    <3>2. CASE u # w
      <4>1. msg[u] < next[ReplicaOf[u]]  BY <2>4, <2>6, <3>2 DEF TakenOnce
      <4> QED  BY <2>3, <2>4, <3>2, <4>1
    <3> QED  BY <3>1, <3>2
  <2>7. ASSUME NEW u \in Workers, NEW x \in Workers, u # x, at'[u] # "idle", at'[x] # "idle",
               ReplicaOf[u] = ReplicaOf[x]
        PROVE  msg'[u] # msg'[x]
    <3>1. ASSUME NEW y \in Workers, y # w, at'[y] # "idle", ReplicaOf[y] = r
          PROVE  msg'[y] # next[r]
      <4>1. msg[y] < next[r]  BY <2>4, <3>1 DEF TakenOnce
      <4> QED  BY <2>2, <2>4, <3>1, <4>1
    <3>2. CASE u = w  BY <2>5, <2>7, <3>1, <3>2 DEF r
    <3>3. CASE x = w  BY <2>5, <2>7, <3>1, <3>3 DEF r
    <3>4. CASE u # w /\ x # w  BY <2>4, <2>7, <3>4 DEF TakenOnce
    <3> QED  BY <3>2, <3>3, <3>4
  <2> QED  BY <2>6, <2>7 DEF TakenOnce
<1>2. CASE ~\E w \in Workers : Take(w)
  <2>1. /\ UNCHANGED <<next, msg>>
        /\ \A w \in Workers : at'[w] # "idle" => at[w] # "idle"
    BY <1>2, Moves
  <2> QED  BY <2>1 DEF TakenOnce
<1> QED  BY <1>1, <1>2

\* Two workers at work have two copies.
LEMMA OwnCopy ==
    ASSUME TakenOnce, NEW u \in Workers, NEW w \in Workers, u # w,
           at[u] # "idle", at[w] # "idle"
    PROVE  copy(u) # copy(w)
BY DEF TakenOnce, copy

LEMMA TracedKept ==
    ASSUME Types, TakenOnce, Traced, [Next]_vars
    PROVE  Traced'
<1>1. ASSUME NEW w \in Workers, Take(w) PROVE Traced'
  <2> DEFINE r == ReplicaOf[w]
  <2>1. /\ next' = [next EXCEPT ![r] = @ + 1] /\ msg' = [msg EXCEPT ![w] = next[r]]
        /\ at[w] = "idle" /\ at' = [at EXCEPT ![w] = "lock"]
        /\ UNCHANGED <<realtime, counted, logged>>
    BY <1>1 DEF Take, Goto, streams
  <2>2. r \in Replicas /\ next[r] \in Nat  BY EnrichmentConstants DEF Types
  <2>3. ASSUME NEW p \in Replicas, NEW m \in Nat, <<p, m>> \in realtime \cup counted
        PROVE  m < next'[p]
    <3>1. m < next[p] /\ next[p] \in Nat  BY <2>3 DEF Traced, Types
    <3>2. next'[p] = next[p] \/ next'[p] = next[p] + 1  BY <2>1 DEF Types
    <3> QED  BY <3>1, <3>2
  <2>4. copy(w)' = <<r, next[r]>>  BY <2>1 DEF copy, Types
  <2>5. copy(w)' \notin realtime \cup counted
    <3> SUFFICES ASSUME <<r, next[r]>> \in realtime \cup counted PROVE FALSE  BY <2>4
    <3>1. next[r] < next[r]  BY <2>2 DEF Traced
    <3> QED  BY <2>2, <3>1
  <2>6. \A u \in Workers : u # w => copy(u)' = copy(u) /\ at'[u] = at[u]
    BY <2>1 DEF copy, Types
  <2>7. at'[w] = "lock"  BY <2>1 DEF Types
  <2> QED  BY <2>1, <2>3, <2>5, <2>6, <2>7 DEF Traced
<1>2. ASSUME NEW w \in Workers, Enrich(w) PROVE Traced'
  <2>1. /\ UNCHANGED <<next, msg, realtime, counted, logged>>
        /\ \A u \in Workers : /\ at'[u] \in Fresher => at[u] \in Fresher
                              /\ at'[u] = "batch" => at[u] = "batch"
    BY <1>2 DEF Types, Enrich, Lock, Read, Store, Route, Goto, Fresher, streams
  <2>2. \A u \in Workers : copy(u)' = copy(u)  BY <2>1 DEF copy
  <2>3. ASSUME NEW u \in Workers, at'[u] \in Fresher
        PROVE  copy(u)' \notin realtime' \cup counted'
    <3>1. at[u] \in Fresher  BY <2>1, <2>3
    <3>2. copy(u) \notin realtime \cup counted  BY <3>1 DEF Traced
    <3> QED  BY <2>1, <2>2, <3>2
  <2>4. ASSUME NEW u \in Workers, at'[u] = "batch" PROVE copy(u)' \in realtime'
    <3>1. copy(u) \in realtime  BY <2>1, <2>4 DEF Traced
    <3> QED  BY <2>1, <2>2, <3>1
  <2>5. /\ \A r \in Replicas : \A m \in Nat : <<r, m>> \in realtime' \cup counted' => m < next'[r]
        /\ logged' \subseteq realtime' /\ \A c \in counted' : c \notin realtime'
    BY <2>1 DEF Traced
  <2> QED  BY <2>3, <2>4, <2>5 DEF Traced
<1>3. ASSUME NEW w \in Workers, AddRealtime(w) PROVE Traced'
  <2>1. /\ UNCHANGED <<next, msg, counted, logged>>
        /\ at[w] = "realtime"
        /\ \/ realtime' = realtime \cup {copy(w)}
           \/ realtime' = realtime /\ at' = [at EXCEPT ![w] = "idle"]
        /\ at' = [at EXCEPT ![w] = "batch"] \/ at' = [at EXCEPT ![w] = "idle"]
    BY <1>3 DEF AddRealtime, Goto
  <2>2. copy(w) \notin counted  BY <2>1 DEF Traced, Fresher
  <2>3. ASSUME NEW p \in Replicas, NEW m \in Nat, <<p, m>> \in realtime' \cup counted'
        PROVE  m < next'[p]
    <3>1. CASE <<p, m>> \in realtime \cup counted  BY <2>1, <3>1 DEF Traced
    <3>2. CASE <<p, m>> = copy(w)
      <4>1. p = ReplicaOf[w] /\ m = msg[w]  BY <3>2 DEF copy
      <4> QED  BY <2>1, <4>1 DEF TakenOnce
    <3> QED  BY <2>1, <2>3, <3>1, <3>2
  <2>4. \A u \in Workers : /\ copy(u)' = copy(u)
                           /\ u # w => at'[u] = at[u]
    BY <2>1 DEF copy, Types
  <2>5. ASSUME NEW u \in Workers, at'[u] \in Fresher
        PROVE  copy(u) \notin realtime' \cup counted'
    <3>1. u # w  BY <2>1, <2>5 DEF Types, Fresher
    <3>2. at[u] \in Fresher  BY <2>4, <2>5, <3>1
    <3>3. copy(u) # copy(w)  BY <2>1, <3>1, <3>2, OwnCopy DEF Fresher
    <3> QED  BY <2>1, <3>2, <3>3 DEF Traced
  <2>6. ASSUME NEW u \in Workers, at'[u] = "batch" PROVE copy(u) \in realtime'
    <3>1. CASE u = w  BY <2>1, <2>6, <3>1 DEF Types
    <3>2. CASE u # w  BY <2>1, <2>4, <2>6, <3>2 DEF Traced
    <3> QED  BY <3>1, <3>2
  <2>7. logged' \subseteq realtime' /\ \A c \in counted' : c \notin realtime'
    BY <2>1, <2>2 DEF Traced
  <2> QED  BY <2>3, <2>4, <2>5, <2>6, <2>7 DEF Traced
<1>4. ASSUME NEW w \in Workers, AddBatch(w) PROVE Traced'
  <2>1. /\ UNCHANGED <<next, msg, realtime, counted>> /\ logged' \subseteq logged \cup {copy(w)}
        /\ at[w] = "batch" /\ at' = [at EXCEPT ![w] = "idle"]
    BY <1>4 DEF AddBatch, Goto
  <2>2. copy(w) \in realtime  BY <2>1 DEF Traced
  <2>3. \A u \in Workers : at'[u] = at[u] \/ at'[u] = "idle"  BY <2>1 DEF Types
  <2> QED  BY <2>1, <2>2, <2>3 DEF Traced, copy, Fresher
<1>5. ASSUME NEW w \in Workers, AddFiltered(w) PROVE Traced'
  <2>1. /\ UNCHANGED <<next, msg, realtime, logged>> /\ counted' \subseteq counted \cup {copy(w)}
        /\ at[w] = "filtered" /\ at' = [at EXCEPT ![w] = "idle"]
    BY <1>5 DEF AddFiltered, Goto
  <2>2. copy(w) \notin realtime  BY <2>1 DEF Traced, Fresher
  <2>3. \A u \in Workers : copy(u)' = copy(u) /\ (u # w => at'[u] = at[u])
    BY <2>1 DEF Types, copy
  <2>4. at'[w] = "idle"  BY <2>1 DEF Types
  <2>5. ASSUME NEW p \in Replicas, NEW m \in Nat, <<p, m>> \in realtime' \cup counted'
        PROVE  m < next'[p]
    <3>1. CASE <<p, m>> \in realtime \cup counted  BY <2>1, <3>1 DEF Traced
    <3>2. CASE <<p, m>> = copy(w)
      <4>1. p = ReplicaOf[w] /\ m = msg[w]  BY <3>2 DEF copy
      <4> QED  BY <2>1, <4>1 DEF TakenOnce
    <3> QED  BY <2>1, <2>5, <3>1, <3>2
  <2>6. ASSUME NEW u \in Workers, at'[u] \in Fresher
        PROVE  copy(u) \notin realtime' \cup counted'
    <3>1. u # w  BY <2>4, <2>6 DEF Fresher
    <3>2. at[u] \in Fresher  BY <2>3, <2>6, <3>1
    <3>3. copy(u) # copy(w)  BY <2>1, <3>1, <3>2, OwnCopy DEF Fresher
    <3> QED  BY <2>1, <3>2, <3>3 DEF Traced
  <2>7. \A u \in Workers : at'[u] = "batch" => copy(u) \in realtime'
    BY <2>1, <2>3, <2>4 DEF Traced
  <2>8. logged' \subseteq realtime' /\ \A c \in counted' : c \notin realtime'
    BY <2>1, <2>2 DEF Traced
  <2> QED  BY <2>3, <2>5, <2>6, <2>7, <2>8 DEF Traced
<1>6. CASE ApplyLate  BY <1>6 DEF Traced, copy, ApplyLate, worker, streams
<1>7. ASSUME NEW v \in Vehicles, Expire(v) PROVE Traced'
  BY <1>7 DEF Traced, copy, Expire, worker, streams
<1>8. CASE UNCHANGED vars  BY <1>8 DEF Traced, copy, vars, worker, streams
<1> QED  BY <1>1, <1>2, <1>3, <1>4, <1>5, <1>6, <1>7, <1>8 DEF Next, Write

-----------------------------------------------------------------------------

(* The striped lock of enrichEvent does its work for any number of workers,  *)
(* however vehicles share stripes and whatever calls of Redis fail or arrive *)
(* late: a message far from the state it replaces is shown or buffered.      *)
THEOREM NoBigMoveLost == Spec => []BigMovesSeen
<1>1. IInv /\ [Next]_vars => IInv'
  BY TypesKept, LockedKept, FreshKept, BigMovesKept DEF IInv
<1>2. IInv => BigMovesSeen  BY DEF IInv
<1> QED  BY InitIInv, <1>1, <1>2, PTL DEF Spec

(* What a replica took out of its channel is in the batch stream or in the    *)
(* buffer when a worker is finished with it, filtered or not, or its XADD      *)
(* failed; batch_stream_errors counts that only of copies no client saw, and   *)
(* the copies that clients saw and the batch stream lacks were but logged.     *)
THEOREM DeliveriesAreKept == Spec => []EveryDeliveryKept
<1> DEFINE Inv == Types /\ Busy /\ NoneLost /\ TakenOnce /\ Traced
<1>1. Init => Inv
  <2> SUFFICES ASSUME Init PROVE NoneLost /\ TakenOnce /\ Traced  BY InitIInv DEF IInv
  <2>1. \A r \in Replicas, m \in Published : First[r] <= m /\ m < next[r] => FALSE
    BY EnrichmentConstants DEF Init, Published
  <2>2. NoneLost  BY <2>1 DEF NoneLost
  <2>3. TakenOnce  BY DEF Init, TakenOnce
  <2>4. Traced  BY DEF Init, Traced, Fresher
  <2> QED  BY <2>2, <2>3, <2>4
<1>2. Inv /\ [Next]_vars => Inv'
  BY TypesKept, DeliveryKept, TakenOnceKept, TracedKept
<1>3. Inv => EveryDeliveryKept
  <2> SUFFICES ASSUME NoneLost, Traced PROVE EveryDeliveryKept  OBVIOUS
  <2>1. ASSUME NEW r \in Replicas, NEW m \in Published, First[r] <= m, m < next[r]
        PROVE  <<r, m>> \in batch \cup buffered \cup counted \cup logged \cup InHand
    <3>1. Kept(<<r, m>>)  BY <2>1 DEF NoneLost
    <3> QED  BY <3>1 DEF Kept, InHand
  <2> QED  BY <2>1 DEF EveryDeliveryKept, Traced
<1> QED  BY <1>1, <1>2, <1>3, PTL DEF Spec
=============================================================================
