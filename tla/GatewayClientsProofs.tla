--------------------------- MODULE GatewayClientsProofs ---------------------------
(***************************************************************************)
(* For any number of connections, orgs and vehicles, and any requests: the  *)
(* positions of an org stay in it and in order, a removed connection is      *)
(* forgotten.                                                                *)
(***************************************************************************)
EXTENDS GatewayClientsProps, SequenceTheorems, FiniteSetTheorems, TLAPS

Phases == {"none", "open", "reply", "leaving", "removed", "gone"}
Places == Conns \X {"vehicle", "all"}

Types ==
    /\ phase \in [Conns -> Phases]
    /\ byVehicle \subseteq Vehicles \X Conns /\ byOrgAll \subseteq Conns
    /\ count \in [Conns -> Int]
    /\ queue \in [Conns -> Seq(Int)]
    /\ positions \in Seq(Orgs \X Vehicles)
    /\ dispatch \in [Orgs -> [n : Nat, todo : SUBSET Places]]

\* A message that may be in the channel of a connection.
Right(c, m) == m > 0 => m \in 1..Len(positions) /\ positions[m][1] = OrgOf[c]
Addressed == \A c \in Conns : \A i \in 1..Len(queue[c]) : Right(c, queue[c][i])

\* A Dispatch under way has a position of its org, for connections of its org.
CallOf(o) == /\ dispatch[o].n = 0 => dispatch[o].todo = {}
             /\ \A t \in dispatch[o].todo : Right(t[1], dispatch[o].n)
Calls == \A o \in Orgs : CallOf(o)

IInv == Types /\ Addressed /\ Calls /\ ForgottenWhenGone

-----------------------------------------------------------------------------

LEMMA InitIInv == Init => IInv
<1> SUFFICES ASSUME Init PROVE IInv  OBVIOUS
<1> USE DEF Init, NoCall
<1>1. Types  BY DEF Types, Phases
<1>2. Addressed  BY DEF Addressed
<1>3. Calls  BY DEF Calls, CallOf
<1>4. ForgottenWhenGone  BY DEF ForgottenWhenGone
<1> QED  BY <1>1, <1>2, <1>3, <1>4 DEF IInv

\* Send keeps a channel clean when the message is right.
LEMMA SendIsRight ==
    ASSUME Types, Addressed, NEW c \in Conns, NEW m \in Int, Right(c, m), Send(c, m),
           positions' = positions
    PROVE  queue' \in [Conns -> Seq(Int)] /\ Addressed'
<1>1. queue' = queue \/ queue' = [queue EXCEPT ![c] = Append(queue[c], m)]
  BY DEF Send, sends
<1>2. \A d \in Conns, k \in Int : Right(d, k)' <=> Right(d, k)
  BY DEF Right
<1>3. CASE queue' = queue
  BY <1>2, <1>3 DEF Types, Addressed
<1>4. CASE queue' = [queue EXCEPT ![c] = Append(queue[c], m)]
  <2>1. queue[c] \in Seq(Int) /\ queue'[c] = Append(queue[c], m)
    BY <1>4 DEF Types
  <2>2. queue' \in [Conns -> Seq(Int)]  BY <1>4, <2>1 DEF Types
  <2>3. Len(queue'[c]) = Len(queue[c]) + 1
        /\ \A i \in 1..Len(queue'[c]) :
             queue'[c][i] = IF i = Len(queue[c]) + 1 THEN m ELSE queue[c][i]
    BY <2>1
  <2>4. \A i \in 1..Len(queue'[c]) : Right(c, queue'[c][i])
    BY <2>1, <2>3 DEF Addressed
  <2>5. \A d \in Conns \ {c} : queue'[d] = queue[d]  BY <1>4 DEF Types
  <2>6. \A d \in Conns : \A i \in 1..Len(queue'[d]) : Right(d, queue'[d][i])
    BY <2>4, <2>5 DEF Addressed
  <2>7. \A d \in Conns : \A i \in 1..Len(queue'[d]) : queue'[d][i] \in Int  BY <2>2
  <2> QED  BY <1>2, <2>2, <2>6, <2>7 DEF Addressed
<1> QED  BY <1>1, <1>3, <1>4

\* A channel that only loses its first message stays clean.
LEMMA TailIsRight ==
    ASSUME Types, Addressed, NEW c \in Conns, queue[c] # <<>>,
           queue' = [queue EXCEPT ![c] = Tail(queue[c])], positions' = positions
    PROVE  queue' \in [Conns -> Seq(Int)] /\ Addressed'
<1>1. queue[c] \in Seq(Int) /\ queue'[c] = Tail(queue[c])  BY DEF Types
<1>2. queue' \in [Conns -> Seq(Int)]  BY <1>1 DEF Types
<1>3. \A i \in 1..Len(queue'[c]) : i + 1 \in 1..Len(queue[c]) /\ queue'[c][i] = queue[c][i + 1]
  <2>1. Len(Tail(queue[c])) = Len(queue[c]) - 1 /\ Len(queue[c]) \in Nat
        /\ \A i \in 1..Len(Tail(queue[c])) : Tail(queue[c])[i] = queue[c][i + 1]
    BY <1>1, HeadTailProperties
  <2> SUFFICES ASSUME NEW i \in 1..Len(queue'[c])
               PROVE  i + 1 \in 1..Len(queue[c]) /\ queue'[c][i] = queue[c][i + 1]
    OBVIOUS
  <2>2. i \in 1..(Len(queue[c]) - 1)  BY <1>1, <2>1
  <2>3. i + 1 \in 1..Len(queue[c])  BY <2>1, <2>2
  <2> QED  BY <1>1, <2>1, <2>3
<1>4. \A i \in 1..Len(queue'[c]) : Right(c, queue'[c][i])  BY <1>3 DEF Addressed
<1>5. \A d \in Conns \ {c} : queue'[d] = queue[d]  BY DEF Types
<1>6. \A d \in Conns : \A i \in 1..Len(queue'[d]) : Right(d, queue'[d][i])
  BY <1>4, <1>5 DEF Addressed
<1> QED  BY <1>2, <1>6 DEF Addressed, Right

\* A step that leaves positions, the calls and the index alone.
LEMMA QuietKeeps ==
    ASSUME IInv, UNCHANGED <<positions, dispatch, byVehicle, byOrgAll, count>>,
           queue' \in [Conns -> Seq(Int)], Addressed',
           phase' \in [Conns -> Phases],
           \A c \in Conns : phase'[c] \in {"removed", "gone"} => phase[c] \in {"removed", "gone"}
    PROVE  IInv'
<1> USE DEF IInv
<1>1. Types'  BY DEF Types
<1>2. Calls'  BY DEF Calls, CallOf, Right
<1>3. ForgottenWhenGone'  BY DEF ForgottenWhenGone
<1> QED  BY <1>1, <1>2, <1>3

LEMMA SameQueues ==
    ASSUME IInv, UNCHANGED <<positions, queue>>
    PROVE  queue' \in [Conns -> Seq(Int)] /\ Addressed'
BY DEF IInv, Types, Addressed, Right

-----------------------------------------------------------------------------
(* The goroutines of a connection *)

\* A list that a client sends names finitely many vehicles.
LEMMA DistinctFinite ==
    ASSUME NEW ids \in Seq(Vehicles), NEW S \in SUBSET Distinct(ids)
    PROVE  IsFiniteSet(S) /\ Cardinality(S) \in Nat
<1>1. IsFiniteSet(1..Len(ids))  BY FS_Interval
<1> DEFINE f == [i \in 1..Len(ids) |-> ids[i]]
<1>2. f \in Surjection(1..Len(ids), Distinct(ids))
  BY DEF Surjection, Distinct
<1>3. IsFiniteSet(Distinct(ids))  BY <1>1, <1>2, FS_Surjection
<1> QED  BY <1>3, FS_Subset, FS_CardinalityType

LEMMA TrimIsList ==
    ASSUME NEW ids \in Seq(Vehicles), NEW n \in Int, n > 0
    PROVE  Trim(ids, n) \in Seq(Vehicles)
BY DEF Trim

\* The headroom is an integer, so the list that is left is a list of vehicles.
LEMMA ToAddIsList ==
    ASSUME Types, NEW c \in Conns, NEW ids \in Requests, Headroom(c) > 0
    PROVE  /\ Trim(ids, Headroom(c)) \in Seq(Vehicles)
           /\ Distinct(Trim(ids, Headroom(c))) \subseteq Vehicles
<1>1. ids \in Seq(Vehicles) /\ Headroom(c) \in Int
  BY ClientConstants DEF Types, Headroom
<1>2. Trim(ids, Headroom(c)) \in Seq(Vehicles)  BY <1>1, TrimIsList
<1> QED  BY <1>2 DEF Distinct

LEMMA CountsKept ==
    ASSUME IInv, NEW c \in Conns, readLoop(c)
    PROVE  count' \in [Conns -> Int]
<1> USE DEF IInv, Types
<1>1. ASSUME NEW ids \in Requests, Subscribe(c, ids) PROVE count' \in [Conns -> Int]
  <2>1. Cardinality(Added(c, Trim(ids, Headroom(c)))) \in Nat
    BY <1>1, ToAddIsList, DistinctFinite DEF Subscribe, Added
  <2> QED  BY <1>1, <2>1 DEF Subscribe
<1>2. ASSUME NEW ids \in Requests, Unsubscribe(c, ids) PROVE count' \in [Conns -> Int]
  <2>1. Cardinality({v \in Distinct(ids) : <<v, c>> \in byVehicle}) \in Nat
    BY ClientConstants, DistinctFinite
  <2> QED  BY <1>2, <2>1 DEF Unsubscribe
<1>3. CASE SubscribeAll(c) \/ OnlyAnswer(c) \/ ClientLeaves(c)
  BY <1>3 DEF SubscribeAll, OnlyAnswer, ClientLeaves, LeaveLoop
<1> QED  BY <1>1, <1>2, <1>3 DEF readLoop

LEMMA ReadLoopKeeps == ASSUME NEW c \in Conns PROVE IInv /\ readLoop(c) => IInv'
<1> SUFFICES ASSUME IInv, readLoop(c) PROVE IInv'  OBVIOUS
<1> USE DEF IInv
<1>1. /\ phase[c] = "open" /\ UNCHANGED <<queue, positions, dispatch>>
      /\ \/ phase' = phase \/ phase' = [phase EXCEPT ![c] = "reply"]
         \/ phase' = [phase EXCEPT ![c] = "leaving"]
  BY DEF readLoop, SubscribeAll, OnlyAnswer, Subscribe, Unsubscribe, ClientLeaves, LeaveLoop,
         Reading, sends
<1>2. phase' \in [Conns -> Phases]  BY <1>1 DEF Types, Phases
<1>3. \A d \in Conns : phase'[d] \in {"removed", "gone"} => d # c /\ phase[d] = phase'[d]
  BY <1>1 DEF Types
<1>4. Addressed' /\ Calls'  BY <1>1, SameQueues DEF Calls, CallOf, Right
<1>5. /\ byVehicle' \subseteq byVehicle \cup (Vehicles \X {c})
      /\ byOrgAll' \subseteq byOrgAll \cup {c}
  <2>1. CASE \E ids \in Requests : Subscribe(c, ids)
    <3>1. PICK ids \in Requests : Subscribe(c, ids)  BY <2>1
    <3>2. byVehicle' = byVehicle \cup (Distinct(Trim(ids, Headroom(c))) \X {c})
          /\ byOrgAll' = byOrgAll
      BY <3>1 DEF Subscribe
    <3> QED  BY <3>1, <3>2, ToAddIsList DEF Subscribe
  <2>2. CASE ~\E ids \in Requests : Subscribe(c, ids)
    BY <2>2 DEF readLoop, SubscribeAll, OnlyAnswer, Unsubscribe, ClientLeaves, LeaveLoop, index
  <2> QED  BY <2>1, <2>2
<1>6. Types'  BY <1>1, <1>2, <1>5, CountsKept DEF Types
<1>7. ForgottenWhenGone'  BY <1>1, <1>3, <1>5 DEF ForgottenWhenGone, Types
<1> QED  BY <1>4, <1>6, <1>7

\* RemoveAll waits for the lock, so no Dispatch has a target left.
LEMMA RemoveAllKeeps == ASSUME NEW c \in Conns PROVE IInv /\ RemoveAll(c) => IInv'
<1> SUFFICES ASSUME IInv, RemoveAll(c) PROVE IInv'  OBVIOUS
<1> USE DEF IInv
<1>1. UNCHANGED <<queue, positions, dispatch, count>>  BY DEF RemoveAll, sends
<1>2. Types'  BY <1>1 DEF Types, RemoveAll, Phases
<1>3. Addressed' /\ Calls'  BY <1>1, SameQueues DEF Calls, CallOf, Right
<1>4. \A o \in Orgs : dispatch[o].todo = {}
  BY DEF RemoveAll, Unlocked, Calls, CallOf
<1>5. ForgottenWhenGone'
  BY <1>1, <1>4 DEF ForgottenWhenGone, RemoveAll, Types
<1> QED  BY <1>2, <1>3, <1>5

LEMMA ConnectionKeeps ==
    ASSUME NEW c \in Conns
    PROVE  IInv /\ (HandleConnection(c) \/ cleanup(c) \/ Write(c) \/ WriterStop(c)
                        \/ SnapshotStart(c) \/ sendInitialPositions(c)) => IInv'
<1> USE DEF IInv
<1>1. ASSUME IInv, HandleConnection(c) PROVE IInv'
  BY <1>1, SameQueues, QuietKeeps DEF HandleConnection, Types, Phases, index, sends
<1>2. ASSUME IInv, Answer(c) PROVE IInv'
  <2>1. Addressed' /\ queue' \in [Conns -> Seq(Int)]
    BY <1>2, SendIsRight DEF Answer, Right, Reply
  <2> QED  BY <1>2, <2>1, QuietKeeps DEF Answer, Types, Phases, index
<1>3. ASSUME IInv, ReadFails(c) PROVE IInv'
  BY <1>3, SameQueues, QuietKeeps DEF ReadFails, LeaveLoop, Types, Phases, index, sends
<1>4. ASSUME IInv, RemoveConnection(c) PROVE IInv'
  BY <1>4, SameQueues, QuietKeeps DEF RemoveConnection, Types, Phases, index, sends
<1>5. ASSUME IInv, CloseChannel(c) \/ CloseSocket(c) \/ SnapshotStart(c) PROVE IInv'
  BY <1>5, SameQueues, QuietKeeps DEF CloseChannel, CloseSocket, SnapshotStart, Types, index, sends
<1>6. ASSUME IInv, Write(c) PROVE IInv'
  <2>1. Addressed' /\ queue' \in [Conns -> Seq(Int)]
    BY <1>6, TailIsRight DEF Write
  <2> QED  BY <1>6, <2>1, QuietKeeps DEF Write, Types, index
<1>7. ASSUME IInv, WriterStop(c) PROVE IInv'
  <2>1. CASE queue' = queue
    BY <1>7, <2>1, SameQueues, QuietKeeps DEF WriterStop, Types, index
  <2>2. CASE queue[c] # <<>> /\ queue' = [queue EXCEPT ![c] = Tail(queue[c])]
    <3>1. Addressed' /\ queue' \in [Conns -> Seq(Int)]
      BY <1>7, <2>2, TailIsRight DEF WriterStop
    <3> QED  BY <1>7, <3>1, QuietKeeps DEF WriterStop, Types, index
  <2> QED  BY <1>7, <2>1, <2>2 DEF WriterStop
<1>8. ASSUME IInv, sendInitialPositions(c) PROVE IInv'
  <2>1. Addressed' /\ queue' \in [Conns -> Seq(Int)]
    <3>1. CASE Send(c, Snapshot)
      BY <1>8, <3>1, SendIsRight DEF sendInitialPositions, Right, Snapshot
    <3>2. CASE UNCHANGED sends
      BY <1>8, <3>2, SameQueues DEF sendInitialPositions, sends
    <3> QED  BY <1>8, <3>1, <3>2 DEF sendInitialPositions
  <2> QED  BY <1>8, <2>1, QuietKeeps DEF sendInitialPositions, Types, index
<1> QED  BY <1>1, <1>2, <1>3, <1>4, <1>5, <1>6, <1>7, <1>8, RemoveAllKeeps DEF cleanup

-----------------------------------------------------------------------------
(* Dispatch *)

LEMMA DispatchKeeps ==
    ASSUME NEW o \in Orgs, NEW v \in Vehicles
    PROVE  IInv /\ Dispatch(o, v) => IInv'
<1> SUFFICES ASSUME IInv, Dispatch(o, v) PROVE IInv'  OBVIOUS
<1> USE DEF IInv
<1>0. PICK N \in Nat : N = Len(positions) + 1  BY DEF Types
<1>1. /\ positions \in Seq(Orgs \X Vehicles) /\ <<o, v>> \in Orgs \X Vehicles
      /\ positions' = Append(positions, <<o, v>>)
      /\ UNCHANGED <<phase, byVehicle, byOrgAll, count, queue>>
  BY DEF Types, Dispatch, index, sends
<1>2. /\ positions' \in Seq(Orgs \X Vehicles) /\ Len(positions') = N /\ N \in Nat \ {0}
      /\ positions'[N] = <<o, v>>
      /\ \A i \in 1..Len(positions) : positions'[i] = positions[i] /\ i \in 1..Len(positions')
  BY <1>0, <1>1
<1>3. \A c \in Conns, m \in Int : Right(c, m) => Right(c, m)'
  BY <1>1, <1>2 DEF Right
<1>4. \A t \in Targets(o, v) : t \in Places /\ Right(t[1], N)'
  <2>1. \A t \in Targets(o, v) : t \in Places /\ t[1] \in Conns /\ OrgOf[t[1]] = o
    <3> SUFFICES ASSUME NEW t \in Targets(o, v)
                 PROVE  t \in Places /\ t[1] \in Conns /\ OrgOf[t[1]] = o
      OBVIOUS
    <3>1. byOrgAll \subseteq Conns  BY DEF Types
    <3>2. PICK c \in Conns, k \in {"vehicle", "all"} : t = <<c, k>> /\ OrgOf[c] = o
      BY <3>1 DEF Targets
    <3>3. t[1] = c  BY <3>2
    <3> QED  BY <3>2, <3>3 DEF Places
  <2>2. N \in 1..Len(positions') /\ positions'[N][1] = o  BY <1>2
  <2> QED  BY <2>1, <2>2 DEF Right
<1>5. dispatch' = [dispatch EXCEPT ![o] = [n |-> N, todo |-> Targets(o, v)]]
  BY <1>2 DEF Dispatch
<1>6. Types'  BY <1>1, <1>2, <1>4, <1>5 DEF Types
<1>7. Addressed'
  BY <1>1, <1>3 DEF Addressed, Types
<1>8. Calls'
  <2>1. CallOf(o)'
    <3>1. dispatch'[o] = [n |-> N, todo |-> Targets(o, v)]  BY <1>5 DEF Types
    <3>2. dispatch'[o].n = N /\ dispatch'[o].todo = Targets(o, v)  BY <3>1
    <3> QED  BY <1>2, <1>4, <3>2 DEF CallOf
  <2>2. ASSUME NEW p \in Orgs, p # o PROVE CallOf(p)'
    <3>1. dispatch'[p] = dispatch[p] /\ CallOf(p)  BY <1>5, <2>2 DEF Types, Calls
    <3>2. \A t \in dispatch[p].todo : t[1] \in Conns /\ dispatch[p].n \in Nat
      BY DEF Types, Places
    <3> QED  BY <1>3, <3>1, <3>2 DEF CallOf
  <2> QED  BY <2>1, <2>2 DEF Calls
<1>9. ForgottenWhenGone'
  <2>1. \A c \in Conns, k \in {"vehicle", "all"} :
           <<c, k>> \in Targets(o, v) => c \in byOrgAll \/ \E s \in byVehicle : s[2] = c
    BY DEF Targets
  <2>2. /\ dispatch'[o].todo = Targets(o, v)
        /\ \A p \in Orgs : p # o => dispatch'[p] = dispatch[p]
    BY <1>5 DEF Types
  <2>3. ASSUME NEW c \in Conns, phase'[c] \in {"removed", "gone"}
        PROVE  /\ c \notin byOrgAll' /\ \A s \in byVehicle' : s[2] # c
               /\ \A p \in Orgs, k \in {"vehicle", "all"} : <<c, k>> \notin dispatch'[p].todo
    <3>1. /\ c \notin byOrgAll /\ \A s \in byVehicle : s[2] # c
          /\ \A p \in Orgs, k \in {"vehicle", "all"} : <<c, k>> \notin dispatch[p].todo
      BY <1>1, <2>3 DEF ForgottenWhenGone
    <3>2. \A k \in {"vehicle", "all"} : <<c, k>> \notin Targets(o, v)  BY <2>1, <3>1
    <3> QED  BY <1>1, <2>2, <3>1, <3>2
  <2> QED  BY <2>3 DEF ForgottenWhenGone
<1> QED  BY <1>6, <1>7, <1>8, <1>9

LEMMA DispatchingKeeps == ASSUME NEW o \in Orgs PROVE IInv /\ dispatching(o) => IInv'
<1> SUFFICES ASSUME IInv, dispatching(o) PROVE IInv'  OBVIOUS
<1> USE DEF IInv
<1>1. UNCHANGED <<phase, byVehicle, byOrgAll, count, positions>>
  BY DEF dispatching, DispatchSend, DispatchReturn, index
<1>2. PICK new \in [n : Nat, todo : SUBSET Places] :
          /\ dispatch' = [dispatch EXCEPT ![o] = new]
          /\ new.todo \subseteq dispatch[o].todo
          /\ new.n = dispatch[o].n \/ new.todo = {}
          /\ new.n = 0 => new.todo = {}
  <2>0. /\ dispatch[o].n \in Nat /\ dispatch[o].todo \in SUBSET Places
        /\ dispatch[o].n = 0 => dispatch[o].todo = {}
    BY DEF Types, Calls, CallOf
  <2>1. CASE DispatchReturn(o)
    <3> DEFINE none == [n |-> 0, todo |-> {}]
    <3>1. none \in [n : Nat, todo : SUBSET Places]  OBVIOUS
    <3>2. dispatch' = [dispatch EXCEPT ![o] = none]  BY <2>1 DEF DispatchReturn, NoCall
    <3> QED  BY <3>1, <3>2
  <2>2. ASSUME NEW t \in dispatch[o].todo, DispatchSend(o, t) 
        PROVE  \E new \in [n : Nat, todo : SUBSET Places] :
                  /\ dispatch' = [dispatch EXCEPT ![o] = new]
                  /\ new.todo \subseteq dispatch[o].todo
                  /\ new.n = dispatch[o].n \/ new.todo = {}
                  /\ new.n = 0 => new.todo = {}
    <3> DEFINE rest == [n |-> dispatch[o].n, todo |-> dispatch[o].todo \ {t}]
    <3>1. rest \in [n : Nat, todo : SUBSET Places]  BY <2>0
    <3>2. dispatch' = [dispatch EXCEPT ![o] = rest]  BY <2>2 DEF DispatchSend
    <3> QED  BY <2>0, <3>1, <3>2
  <2> QED  BY <2>1, <2>2 DEF dispatching
<1>3. Addressed' /\ queue' \in [Conns -> Seq(Int)]
  <2>1. CASE DispatchReturn(o)
    BY <2>1, SameQueues DEF DispatchReturn, sends
  <2>2. ASSUME NEW t \in dispatch[o].todo, DispatchSend(o, t)
        PROVE  Addressed' /\ queue' \in [Conns -> Seq(Int)]
    <3>1. t[1] \in Conns /\ dispatch[o].n \in Nat /\ Right(t[1], dispatch[o].n)
      BY DEF Types, Places, Calls, CallOf
    <3> QED  BY <1>1, <2>2, <3>1, SendIsRight DEF DispatchSend
  <2> QED  BY <2>1, <2>2 DEF dispatching
<1>4. Types'  BY <1>1, <1>2, <1>3 DEF Types
<1>5. \A p \in Orgs : p # o => dispatch'[p] = dispatch[p]  BY <1>2 DEF Types
<1>6. dispatch'[o] = new  BY <1>2 DEF Types
<1>7. Calls'
  BY <1>1, <1>2, <1>5, <1>6 DEF Calls, CallOf, Right
<1>8. ForgottenWhenGone'
  BY <1>1, <1>2, <1>5, <1>6 DEF ForgottenWhenGone
<1> QED  BY <1>3, <1>4, <1>7, <1>8

-----------------------------------------------------------------------------
(* The count of a connection *)

Bucket(c) == {s \in byVehicle : s[2] = c}
Removed(c) == phase[c] \in {"removed", "gone"}
Exact(c) == IsFiniteSet(Bucket(c)) /\ count[c] = Cardinality(Bucket(c))
Exactness == \A c \in Conns : Removed(c) \/ Exact(c)

\* Nothing that is removed comes back, and the rest changes neither index nor count.
LEMMA ExactIfQuiet ==
    ASSUME Exactness, UNCHANGED <<byVehicle, count>>, \A d \in Conns : Removed(d) => Removed(d)'
    PROVE  Exactness'
BY DEF Exactness, Exact, Bucket

LEMMA CardinalityOfPairs ==
    ASSUME NEW S, IsFiniteSet(S), NEW c
    PROVE  IsFiniteSet(S \X {c}) /\ Cardinality(S \X {c}) = Cardinality(S)
<1>1. IsFiniteSet({c}) /\ Cardinality({c}) = 1  BY FS_Singleton
<1>2. Cardinality(S) \in Nat  BY FS_CardinalityType
<1>3. IsFiniteSet(S \X {c}) /\ Cardinality(S \X {c}) = Cardinality(S) * Cardinality({c})
  BY <1>1, FS_Product
<1> QED  BY <1>1, <1>2, <1>3

\* A list with repeated and known vehicles adds as many entries as it is counted for.
LEMMA SubscribeExact ==
    ASSUME Types, Exactness, NEW c \in Conns, NEW ids \in Requests, Subscribe(c, ids)
    PROVE  Exactness'
<1> DEFINE list == Trim(ids, Headroom(c))
           new == Added(c, list)
<1>1. list \in Seq(Vehicles) /\ Headroom(c) > 0 /\ phase[c] = "open"
  BY ToAddIsList DEF Subscribe, Reading
<1>2. IsFiniteSet(new) /\ Cardinality(new) \in Nat
  BY <1>1, DistinctFinite DEF Added
<1>3. Exact(c)  BY <1>1 DEF Exactness, Removed
<1>4. byVehicle' = byVehicle \cup (Distinct(list) \X {c})
      /\ count' = [count EXCEPT ![c] = count[c] + Cardinality(new)]
  BY DEF Subscribe
<1>5. Bucket(c)' = Bucket(c) \cup (new \X {c}) /\ Bucket(c) \cap (new \X {c}) = {}
  BY <1>4 DEF Bucket, Added, Types
<1>6. Exact(c)'
  <2> DEFINE B == Bucket(c)
             A == new \X {c}
  <2>1. IsFiniteSet(B) /\ Cardinality(B) \in Nat /\ count[c] = Cardinality(B)
    BY <1>3, FS_CardinalityType DEF Exact
  <2>2. IsFiniteSet(A) /\ Cardinality(A) = Cardinality(new)
    BY <1>2, CardinalityOfPairs
  <2>3. Cardinality(B \cap A) = 0
    <3>1. B \cap A = {}  BY <1>5
    <3> QED  BY <3>1, FS_EmptySet
  <2> HIDE DEF A, B
  <2>4. IsFiniteSet(B \cup A)
        /\ Cardinality(B \cup A) = Cardinality(B) + Cardinality(A) - Cardinality(B \cap A)
    BY <2>1, <2>2, FS_Union
  <2>5. Cardinality(B \cup A) = count[c] + Cardinality(new)
    BY <1>2, <2>1, <2>2, <2>3, <2>4
  <2>6. count'[c] = count[c] + Cardinality(new)  BY <1>4 DEF Types
  <2>7. Bucket(c)' = B \cup A  BY <1>5 DEF A, B
  <2> QED  BY <2>4, <2>5, <2>6, <2>7 DEF Exact
<1>7. ASSUME NEW d \in Conns, d # c PROVE (Removed(d) \/ Exact(d))'
  <2>1. Bucket(d)' = Bucket(d)  BY <1>4, <1>7 DEF Bucket
  <2>2. count'[d] = count[d] /\ phase'[d] = phase[d]  BY <1>4, <1>7 DEF Types, Subscribe
  <2> QED  BY <2>1, <2>2 DEF Exactness, Exact, Removed
<1> QED  BY <1>6, <1>7 DEF Exactness

LEMMA UnsubscribeExact ==
    ASSUME Types, Exactness, NEW c \in Conns, NEW ids \in Requests, Unsubscribe(c, ids)
    PROVE  Exactness'
<1> DEFINE old == {v \in Distinct(ids) : <<v, c>> \in byVehicle}
<1>1. phase[c] = "open" /\ phase' = phase  BY DEF Unsubscribe, Reading
<1>2. IsFiniteSet(old) /\ Cardinality(old) \in Nat
  BY ClientConstants, DistinctFinite
<1>3. Exact(c)  BY <1>1 DEF Exactness, Removed
<1>4. byVehicle' = byVehicle \ (old \X {c})
      /\ count' = [count EXCEPT ![c] = count[c] - Cardinality(old)]
  BY DEF Unsubscribe
<1>5. Bucket(c)' = Bucket(c) \ (old \X {c}) /\ Bucket(c) \cap (old \X {c}) = old \X {c}
  BY <1>4 DEF Bucket
<1>6. Exact(c)'
  <2> DEFINE B == Bucket(c)
             A == old \X {c}
  <2>1. IsFiniteSet(B) /\ count[c] = Cardinality(B)  BY <1>3 DEF Exact
  <2>2. Cardinality(A) = Cardinality(old)  BY <1>2, CardinalityOfPairs
  <2>3. B \cap A = A  BY <1>5
  <2> HIDE DEF A, B
  <2>4. IsFiniteSet(B \ A) /\ Cardinality(B \ A) = Cardinality(B) - Cardinality(B \cap A)
    BY <2>1, FS_Difference
  <2>5. Cardinality(B \ A) = count[c] - Cardinality(old)
    BY <2>1, <2>2, <2>3, <2>4
  <2>6. count'[c] = count[c] - Cardinality(old)  BY <1>4 DEF Types
  <2>7. Bucket(c)' = B \ A  BY <1>5 DEF A, B
  <2> QED  BY <2>4, <2>5, <2>6, <2>7 DEF Exact
<1>7. ASSUME NEW d \in Conns, d # c PROVE (Removed(d) \/ Exact(d))'
  <2>1. Bucket(d)' = Bucket(d)  BY <1>4, <1>7 DEF Bucket
  <2>2. count'[d] = count[d] /\ phase'[d] = phase[d]  BY <1>1, <1>4, <1>7 DEF Types
  <2> QED  BY <2>1, <2>2 DEF Exactness, Exact, Removed
<1> QED  BY <1>6, <1>7 DEF Exactness

LEMMA RemoveAllExact ==
    ASSUME Types, Exactness, NEW c \in Conns, RemoveAll(c)
    PROVE  Exactness'
<1>1. Removed(c)'  BY DEF RemoveAll, Removed, Types
<1>2. ASSUME NEW d \in Conns, d # c PROVE (Removed(d) \/ Exact(d))'
  <2>1. Bucket(d)' = Bucket(d)  BY <1>2 DEF Bucket, RemoveAll
  <2>2. count'[d] = count[d] /\ phase'[d] = phase[d]  BY <1>2 DEF RemoveAll, Types
  <2> QED  BY <2>1, <2>2 DEF Exactness, Exact, Removed
<1> QED  BY <1>1, <1>2 DEF Exactness

LEMMA ExactnessKept == IInv /\ Exactness /\ [Next]_vars => Exactness'
<1> SUFFICES ASSUME IInv, Exactness, [Next]_vars PROVE Exactness'  OBVIOUS
<1> USE DEF IInv
<1>1. ASSUME NEW c \in Conns, readLoop(c) PROVE Exactness'
  <2>1. CASE SubscribeAll(c) \/ OnlyAnswer(c) \/ ClientLeaves(c)
    BY <2>1, ExactIfQuiet DEF SubscribeAll, OnlyAnswer, ClientLeaves, LeaveLoop, Reading,
       index, Removed, Types
  <2> QED  BY <1>1, <2>1, SubscribeExact, UnsubscribeExact DEF readLoop
<1>2. ASSUME NEW c \in Conns, cleanup(c) PROVE Exactness'
  <2>1. CASE Answer(c) \/ ReadFails(c) \/ RemoveConnection(c)
    BY <2>1, ExactIfQuiet DEF Answer, ReadFails, LeaveLoop, RemoveConnection, index, Removed, Types
  <2>2. CASE CloseChannel(c) \/ CloseSocket(c)
    BY <2>2, ExactIfQuiet DEF CloseChannel, CloseSocket, index, Removed
  <2> QED  BY <1>2, <2>1, <2>2, RemoveAllExact DEF cleanup
<1>3. ASSUME NEW c \in Conns, HandleConnection(c) \/ Write(c) \/ WriterStop(c)
                                   \/ SnapshotStart(c) \/ sendInitialPositions(c)
      PROVE  Exactness'
  BY <1>3, ExactIfQuiet DEF HandleConnection, Write, WriterStop, SnapshotStart,
     sendInitialPositions, index, Removed, Types
<1>4. ASSUME NEW o \in Orgs, dispatching(o) \/ \E v \in Vehicles : Dispatch(o, v)
      PROVE  Exactness'
  BY <1>4, ExactIfQuiet DEF dispatching, DispatchSend, DispatchReturn, Dispatch, index, Removed
<1>5. CASE UNCHANGED vars  BY <1>5, ExactIfQuiet DEF vars, index, Removed
<1> QED  BY <1>1, <1>2, <1>3, <1>4, <1>5 DEF Next

LEMMA InitExactness == Init => Exactness
<1> SUFFICES ASSUME Init PROVE Exactness  OBVIOUS
<1>1. \A c \in Conns : Bucket(c) = {} /\ count[c] = 0  BY DEF Init, Bucket
<1> QED  BY <1>1, FS_EmptySet DEF Exactness, Exact

-----------------------------------------------------------------------------
(* The order in which a client gets the positions *)

\* Positions in a channel between the one last written and the newest of the org.
Rising(q, low, high) ==
    /\ low <= high
    /\ \A i \in 1..Len(q) : q[i] > 0 => low <= q[i] /\ q[i] <= high
    /\ \A i, j \in 1..Len(q) : i < j /\ q[i] > 0 /\ q[j] > 0 => q[i] <= q[j]

\* An org has one reader: while it dispatches, no newer position of the org is sent.
Newest(c) == IF dispatch[OrgOf[c]].n > 0 THEN dispatch[OrgOf[c]].n ELSE Len(positions)
Readers == \A o \in Orgs : /\ dispatch[o].n <= Len(positions)
                           /\ \A t \in dispatch[o].todo : OrgOf[t[1]] = o
InOrder(c) == last[c] \in Nat /\ Rising(queue[c], last[c], Newest(c))
OrderInv == last \in [Conns -> Nat] /\ Readers /\ \A c \in Conns : InOrder(c)

LEMMA RisingAppend ==
    ASSUME NEW q \in Seq(Int), NEW low \in Nat, NEW high \in Nat, Rising(q, low, high),
           NEW m \in Int, m <= 0 \/ m = high
    PROVE  Rising(Append(q, m), low, high)
<1>1. /\ Len(Append(q, m)) = Len(q) + 1 /\ Len(q) \in Nat
      /\ \A i \in 1..Len(Append(q, m)) :
            Append(q, m)[i] = IF i = Len(q) + 1 THEN m ELSE q[i]
  OBVIOUS
<1>2. \A i \in 1..Len(q) : q[i] \in Int  OBVIOUS
<1> QED  BY <1>1, <1>2 DEF Rising

\* Writing the first message raises the low end to it, if it is a position.
LEMMA RisingTail ==
    ASSUME NEW q \in Seq(Int), q # <<>>, NEW low \in Nat, NEW high \in Nat,
           Rising(q, low, high)
    PROVE  Rising(Tail(q), IF Head(q) > 0 THEN Head(q) ELSE low, high)
<1>1. /\ Len(Tail(q)) = Len(q) - 1 /\ Len(q) \in Nat \ {0} /\ Head(q) = q[1]
      /\ \A i \in 1..Len(Tail(q)) : Tail(q)[i] = q[i + 1]
  BY HeadTailProperties, EmptySeq
<1>2. \A i \in 1..Len(q) : q[i] \in Int  OBVIOUS
<1>3. \A i \in 1..Len(Tail(q)) : i + 1 \in 1..Len(q) /\ 1 < i + 1 /\ i \in Nat
  BY <1>1
<1> DEFINE t == Tail(q)
<1> HIDE DEF t
<1>4. 1 \in 1..Len(q)  BY <1>1
<1>5. /\ \A i \in 1..Len(t) : i + 1 \in 1..Len(q) /\ 1 < i + 1 /\ i \in Nat /\ t[i] = q[i + 1]
  BY <1>1, <1>3 DEF t
<1>6. ASSUME NEW i \in 1..Len(t), t[i] > 0
      PROVE  /\ (IF q[1] > 0 THEN q[1] ELSE low) <= t[i] /\ t[i] <= high
             /\ \A j \in 1..Len(t) : i < j /\ t[j] > 0 => t[i] <= t[j]
  <2>1. /\ q[i + 1] > 0 /\ low <= q[i + 1] /\ q[i + 1] <= high
        /\ q[1] > 0 => q[1] <= q[i + 1]
    BY <1>4, <1>5, <1>6 DEF Rising
  <2>2. ASSUME NEW j \in 1..Len(t), i < j, t[j] > 0 PROVE t[i] <= t[j]
    <3>1. i + 1 < j + 1  BY <1>5, <2>2
    <3> QED  BY <1>5, <1>6, <2>2, <3>1 DEF Rising
  <2> QED  BY <1>5, <2>1, <2>2
<1>7. (IF q[1] > 0 THEN q[1] ELSE low) <= high  BY <1>4 DEF Rising
<1>8. Rising(t, IF q[1] > 0 THEN q[1] ELSE low, high)
  BY <1>6, <1>7 DEF Rising
<1> QED  BY <1>1, <1>8 DEF t

LEMMA RisingShorter ==
    ASSUME NEW q \in Seq(Int), q # <<>>, NEW low \in Nat, NEW high \in Nat,
           Rising(q, low, high)
    PROVE  Rising(Tail(q), low, high)
<1>1. /\ Len(Tail(q)) = Len(q) - 1 /\ Len(q) \in Nat \ {0}
      /\ \A i \in 1..Len(Tail(q)) : Tail(q)[i] = q[i + 1]
  BY HeadTailProperties, EmptySeq
<1> DEFINE t == Tail(q)
<1> HIDE DEF t
<1>2. \A i \in 1..Len(t) : i + 1 \in 1..Len(q) /\ i \in Nat /\ t[i] = q[i + 1]
  BY <1>1 DEF t
<1>3. ASSUME NEW i \in 1..Len(t), NEW j \in 1..Len(t), i < j, t[i] > 0, t[j] > 0
      PROVE  t[i] <= t[j]
  <2>1. i + 1 < j + 1  BY <1>2, <1>3
  <2> QED  BY <1>2, <1>3, <2>1 DEF Rising
<1>4. Rising(t, low, high)  BY <1>2, <1>3 DEF Rising
<1> QED  BY <1>4 DEF t

LEMMA RisingHigher ==
    ASSUME NEW q \in Seq(Int), NEW low \in Nat, NEW high \in Nat, NEW more \in Nat,
           Rising(q, low, high), high <= more
    PROVE  Rising(q, low, more)
<1>1. \A i \in 1..Len(q) : q[i] \in Int  OBVIOUS
<1> QED  BY <1>1 DEF Rising

LEMMA NewestIsNat == ASSUME Types, NEW c \in Conns PROVE Newest(c) \in Nat
BY ClientConstants DEF Types, Newest

\* The calls and positions unchanged, last too: every channel keeps, loses its first
\* message, or gets an answer or the newest position.
Kept(c, m) == \/ queue'[c] = queue[c]
              \/ queue[c] # <<>> /\ queue'[c] = Tail(queue[c])
              \/ queue'[c] = Append(queue[c], m) /\ (m <= 0 \/ m = Newest(c))

LEMMA QueuesKeepOrder ==
    ASSUME Types, OrderInv, NEW m \in Int,
           UNCHANGED <<last, positions>>,
           \A o \in Orgs : dispatch'[o].n = dispatch[o].n
                           /\ dispatch'[o].todo \subseteq dispatch[o].todo,
           \A c \in Conns : Kept(c, m)
    PROVE  OrderInv'
<1>1. last' \in [Conns -> Nat] /\ Readers'
  BY DEF OrderInv, Readers, Types
<1>2. ASSUME NEW c \in Conns PROVE InOrder(c)'
  <2>1. Newest(c)' = Newest(c) /\ Newest(c) \in Nat
    BY NewestIsNat, ClientConstants DEF Newest
  <2>2. queue[c] \in Seq(Int) /\ last[c] \in Nat /\ Rising(queue[c], last[c], Newest(c))
    BY DEF Types, OrderInv, InOrder
  <2>3. Rising(queue'[c], last[c], Newest(c))
    <3>1. CASE queue'[c] = queue[c]  BY <2>2, <3>1
    <3>2. CASE queue[c] # <<>> /\ queue'[c] = Tail(queue[c])
      BY <2>1, <2>2, <3>2, RisingShorter
    <3>3. CASE queue'[c] = Append(queue[c], m) /\ (m <= 0 \/ m = Newest(c))
      BY <2>1, <2>2, <3>3, RisingAppend
    <3> QED  BY <3>1, <3>2, <3>3 DEF Kept
  <2> QED  BY <2>1, <2>2, <2>3 DEF InOrder
<1> QED  BY <1>1, <1>2 DEF OrderInv

LEMMA SentOrNot ==
    ASSUME Types, NEW c \in Conns, NEW m \in Int, Send(c, m), m <= 0 \/ m = Newest(c)
    PROVE  \A d \in Conns : Kept(d, m)
<1>1. queue' = queue \/ queue' = [queue EXCEPT ![c] = Append(queue[c], m)]
  BY DEF Send, sends
<1> QED  BY <1>1 DEF Kept, Types

\* Neither the channels nor the calls change.
LEMMA StillInOrder ==
    ASSUME Types, OrderInv, UNCHANGED <<last, positions, dispatch, queue>>
    PROVE  OrderInv'
<1>1. \A c \in Conns : Kept(c, 0)  BY DEF Kept
<1> QED  BY <1>1, QueuesKeepOrder

LEMMA ConnectionInOrder ==
    ASSUME IInv, OrderInv, NEW c \in Conns,
           \/ HandleConnection(c) \/ readLoop(c) \/ cleanup(c)
           \/ WriterStop(c) \/ SnapshotStart(c) \/ sendInitialPositions(c)
    PROVE  OrderInv' /\ last' = last
<1> USE DEF IInv, client
<1>1. CASE HandleConnection(c) \/ SnapshotStart(c)
  BY <1>1, StillInOrder DEF HandleConnection, SnapshotStart, sends
<1>2. CASE readLoop(c)
  <2>1. UNCHANGED <<last, positions, dispatch, queue>>
    BY <1>2 DEF readLoop, SubscribeAll, OnlyAnswer, Subscribe, Unsubscribe, ClientLeaves,
       LeaveLoop, sends
  <2> QED  BY <2>1, StillInOrder
<1>3. CASE ReadFails(c) \/ RemoveAll(c) \/ RemoveConnection(c) \/ CloseChannel(c) \/ CloseSocket(c)
  <2>1. UNCHANGED <<last, positions, dispatch, queue>>
    BY <1>3 DEF ReadFails, LeaveLoop, RemoveAll, RemoveConnection, CloseChannel, CloseSocket, sends
  <2> QED  BY <2>1, StillInOrder
<1>4. CASE Answer(c)
  <2>1. UNCHANGED <<last, positions, dispatch>> /\ Send(c, Reply)  BY <1>4 DEF Answer
  <2> QED  BY <2>1, SentOrNot, QueuesKeepOrder DEF Reply
<1>5. CASE sendInitialPositions(c)
  <2>1. UNCHANGED <<last, positions, dispatch>>  BY <1>5 DEF sendInitialPositions
  <2>2. CASE Send(c, Snapshot)  BY <2>1, <2>2, SentOrNot, QueuesKeepOrder DEF Snapshot
  <2>3. CASE UNCHANGED sends  BY <2>1, <2>3, StillInOrder DEF sends
  <2> QED  BY <1>5, <2>2, <2>3 DEF sendInitialPositions, sends
<1>6. CASE WriterStop(c)
  <2>1. UNCHANGED <<last, positions, dispatch>>  BY <1>6 DEF WriterStop
  <2>2. \A d \in Conns : Kept(d, 0)  BY <1>6 DEF WriterStop, Kept, Types
  <2> QED  BY <2>1, <2>2, QueuesKeepOrder
<1> QED  BY <1>1, <1>2, <1>3, <1>4, <1>5, <1>6 DEF cleanup

LEMMA WriteInOrder ==
    ASSUME IInv, OrderInv, NEW c \in Conns, Write(c)
    PROVE  OrderInv' /\ \A d \in Conns : last'[d] >= last[d]
<1> USE DEF IInv, client
<1> DEFINE m == Head(queue[c])
           new == IF m > 0 THEN m ELSE last[c]
<1>1. /\ queue[c] \in Seq(Int) /\ queue[c] # <<>> /\ last[c] \in Nat /\ Newest(c) \in Nat
      /\ Rising(queue[c], last[c], Newest(c))
  BY NewestIsNat DEF Types, Write, OrderInv, InOrder
<1>2. /\ UNCHANGED <<positions, dispatch>> /\ queue'[c] = Tail(queue[c]) /\ last'[c] = new
      /\ \A d \in Conns \ {c} : queue'[d] = queue[d] /\ last'[d] = last[d]
      /\ last' = [last EXCEPT ![c] = new]
  BY DEF Write, Types, OrderInv
<1>3. m \in Int /\ 1 \in 1..Len(queue[c]) /\ m = queue[c][1]  BY <1>1
<1>4. new \in Nat /\ new >= last[c]  BY <1>1, <1>3 DEF Rising
<1>5. Rising(queue'[c], last'[c], Newest(c))  BY <1>1, <1>2, RisingTail
<1> HIDE DEF new, m
<1>6. last' \in [Conns -> Nat]  BY <1>2, <1>4 DEF OrderInv
<1>7. \A d \in Conns : Newest(d)' = Newest(d)  BY <1>2 DEF Newest
<1>8. \A d \in Conns : InOrder(d)'
  BY <1>2, <1>5, <1>6, <1>7 DEF OrderInv, InOrder
<1>9. Readers'  BY <1>2 DEF OrderInv, Readers
<1>10. \A d \in Conns : last'[d] >= last[d]
  BY <1>2, <1>4 DEF OrderInv
<1> QED  BY <1>6, <1>8, <1>9, <1>10 DEF OrderInv

\* A new position is newer than all that its org, or another, has sent.
LEMMA DispatchInOrder ==
    ASSUME IInv, OrderInv, NEW o \in Orgs, NEW v \in Vehicles, Dispatch(o, v)
    PROVE  OrderInv' /\ last' = last
<1> USE DEF IInv, client
<1>1. /\ dispatch[o].n = 0 /\ UNCHANGED <<queue, last>>
      /\ positions' = Append(positions, <<o, v>>)
      /\ dispatch' = [dispatch EXCEPT ![o] = [n |-> Len(positions'), todo |-> Targets(o, v)]]
  BY DEF Dispatch, sends
<1>2. Len(positions) \in Nat /\ Len(positions') = Len(positions) + 1
  BY <1>1 DEF Types
<1>3. /\ dispatch'[o].n = Len(positions) + 1 /\ dispatch'[o].todo = Targets(o, v)
      /\ \A p \in Orgs \ {o} : dispatch'[p] = dispatch[p]
  BY <1>1, <1>2 DEF Types
<1>4. ASSUME NEW t \in Targets(o, v) PROVE OrgOf[t[1]] = o
  <2>1. PICK c \in Conns, k \in {"vehicle", "all"} : t = <<c, k>> /\ OrgOf[c] = o
    BY DEF Targets, Types
  <2>2. t[1] = c  BY <2>1
  <2> QED  BY <2>1, <2>2
<1>5. \A p \in Orgs : dispatch[p].n \in Nat  BY DEF Types
<1>6. Readers'
  BY <1>2, <1>3, <1>4, <1>5 DEF OrderInv, Readers
<1>7. ASSUME NEW c \in Conns PROVE InOrder(c)'
  <2>1. OrgOf[c] \in Orgs /\ dispatch[OrgOf[c]].n <= Len(positions)
    BY ClientConstants DEF OrderInv, Readers
  <2>2. Newest(c) \in Nat /\ Newest(c)' \in Nat /\ Newest(c) <= Newest(c)'
    BY <1>1, <1>2, <1>3, <1>5, <2>1 DEF Newest
  <2>3. queue[c] \in Seq(Int) /\ last[c] \in Nat /\ Rising(queue[c], last[c], Newest(c))
    BY DEF Types, OrderInv, InOrder
  <2>4. Rising(queue[c], last[c], Newest(c)')  BY <2>2, <2>3, RisingHigher
  <2> QED  BY <1>1, <2>3, <2>4 DEF InOrder
<1> QED  BY <1>1, <1>6, <1>7 DEF OrderInv

LEMMA DispatchingInOrder ==
    ASSUME IInv, OrderInv, NEW o \in Orgs, dispatching(o)
    PROVE  OrderInv' /\ last' = last
<1> USE DEF IInv, client
<1>1. ASSUME NEW t \in dispatch[o].todo, DispatchSend(o, t) PROVE OrderInv' /\ last' = last
  <2>1. t[1] \in Conns /\ OrgOf[t[1]] = o /\ dispatch[o].n \in Nat /\ dispatch[o].n > 0
    <3>1. dispatch[o].todo \subseteq Places /\ dispatch[o].n \in Nat  BY DEF Types
    <3>2. t[1] \in Conns  BY <3>1 DEF Places
    <3>3. OrgOf[t[1]] = o  BY DEF OrderInv, Readers
    <3>4. dispatch[o].n # 0  BY DEF Calls, CallOf
    <3> QED  BY <3>1, <3>2, <3>3, <3>4
  <2>2. dispatch[o].n = Newest(t[1])  BY <2>1 DEF Newest
  <2>3. \A d \in Conns : Kept(d, dispatch[o].n)
    BY <1>1, <2>1, <2>2, SentOrNot DEF DispatchSend
  <2>4. UNCHANGED <<last, positions>>
        /\ \A p \in Orgs : dispatch'[p].n = dispatch[p].n
                           /\ dispatch'[p].todo \subseteq dispatch[p].todo
    BY <1>1 DEF DispatchSend, Types
  <2> QED  BY <2>1, <2>3, <2>4, QueuesKeepOrder
<1>2. CASE DispatchReturn(o)
  <2>1. /\ UNCHANGED <<queue, last, positions>>
        /\ dispatch' = [dispatch EXCEPT ![o] = NoCall]
    BY <1>2 DEF DispatchReturn, sends
  <2>2. /\ dispatch'[o].n = 0 /\ dispatch'[o].todo = {}
        /\ \A p \in Orgs \ {o} : dispatch'[p] = dispatch[p]
    BY <2>1 DEF Types, NoCall
  <2>3. \A p \in Orgs : dispatch[p].n \in Nat /\ Len(positions) \in Nat  BY DEF Types
  <2>4. Readers'  BY <2>1, <2>2, <2>3 DEF OrderInv, Readers
  <2>5. ASSUME NEW c \in Conns PROVE InOrder(c)'
    <3>1. OrgOf[c] \in Orgs /\ dispatch[OrgOf[c]].n <= Len(positions)
      BY ClientConstants DEF OrderInv, Readers
    <3>2. Newest(c) \in Nat /\ Newest(c)' \in Nat /\ Newest(c) <= Newest(c)'
      BY <2>1, <2>2, <2>3, <3>1 DEF Newest
    <3>3. queue[c] \in Seq(Int) /\ last[c] \in Nat /\ Rising(queue[c], last[c], Newest(c))
      BY DEF Types, OrderInv, InOrder
    <3>4. Rising(queue[c], last[c], Newest(c)')  BY <3>2, <3>3, RisingHigher
    <3> QED  BY <2>1, <3>3, <3>4 DEF InOrder
  <2> QED  BY <2>1, <2>4, <2>5 DEF OrderInv
<1> QED  BY <1>1, <1>2 DEF dispatching

LEMMA OrderKept ==
    ASSUME IInv, OrderInv, [Next]_vars
    PROVE  OrderInv' /\ \A c \in Conns : last'[c] >= last[c]
<1>1. \A c \in Conns : last[c] >= last[c]  BY DEF OrderInv
<1>2. CASE UNCHANGED vars  BY <1>1, <1>2, StillInOrder DEF vars, sends, client, IInv
<1>3. ASSUME NEW c \in Conns, Write(c) PROVE OrderInv' /\ \A d \in Conns : last'[d] >= last[d]
  BY <1>3, WriteInOrder
<1>4. ASSUME NEW c \in Conns,
             \/ HandleConnection(c) \/ readLoop(c) \/ cleanup(c)
             \/ WriterStop(c) \/ SnapshotStart(c) \/ sendInitialPositions(c)
      PROVE  OrderInv' /\ \A d \in Conns : last'[d] >= last[d]
  BY <1>1, <1>4, ConnectionInOrder
<1>5. ASSUME NEW o \in Orgs, dispatching(o) \/ \E v \in Vehicles : Dispatch(o, v)
      PROVE  OrderInv' /\ \A d \in Conns : last'[d] >= last[d]
  BY <1>1, <1>5, DispatchInOrder, DispatchingInOrder
<1> QED  BY <1>2, <1>3, <1>4, <1>5 DEF Next

LEMMA InitOrder == Init => OrderInv
<1> SUFFICES ASSUME Init PROVE OrderInv  OBVIOUS
<1>1. \A c \in Conns : Newest(c) = 0 /\ last[c] = 0 /\ queue[c] = <<>>
  BY ClientConstants DEF Init, NoCall, Newest
<1>2. \A c \in Conns : InOrder(c)  BY <1>1 DEF InOrder, Rising
<1>3. last \in [Conns -> Nat] /\ Readers  BY DEF Init, NoCall, Readers
<1> QED  BY <1>2, <1>3 DEF OrderInv

-----------------------------------------------------------------------------
(* The initial positions among the live ones *)

ClientTypes ==
    /\ shown \in [Conns -> [Vehicles -> Int]] /\ answer \in [Conns -> [Vehicles -> Int]]
    /\ snapshot \in [Conns -> {"none", "start", "query", "done"}]

\* The initial positions are sent at most once, ...
OneSnapshot(c) ==
    \A i \in 1..Len(queue[c]) : queue[c][i] = Snapshot =>
        snapshot[c] = "done" /\ \A j \in 1..Len(queue[c]) : queue[c][j] = Snapshot => i = j

\* ... and have not reached the client.
Pending(c) == snapshot[c] # "done" \/ \E i \in 1..Len(queue[c]) : queue[c][i] = Snapshot

\* Until then a client has live positions only, and once set back live positions again.
NotAhead(c) ==
    \A v \in Vehicles :
        /\ <<c, v>> \in setBack => shown[c][v] <= last[c]
        /\ Pending(c) => shown[c][v] <= last[c] /\ <<c, v>> \notin setBack

Unstarted(c) == phase[c] = "none" => snapshot[c] = "none"

SnapInv == ClientTypes /\ \A c \in Conns : Unstarted(c) /\ OneSnapshot(c) /\ NotAhead(c)

\* What a step other than Write may do to the snapshot of a connection.
Moves(c) ==
    \/ /\ queue'[c] = queue[c]
       /\ snapshot[c] = "done" => snapshot'[c] = "done"
    \/ /\ queue[c] # <<>> /\ queue'[c] = Tail(queue[c]) /\ snapshot'[c] = snapshot[c]
    \/ \E m \in Int : /\ m # Snapshot /\ queue'[c] = Append(queue[c], m)
                      /\ snapshot'[c] = snapshot[c]
    \/ /\ queue'[c] = Append(queue[c], Snapshot)
       /\ snapshot[c] # "done" /\ snapshot'[c] = "done"

LEMMA TailOf ==
    ASSUME NEW q \in Seq(Int), q # <<>>
    PROVE  /\ Len(q) \in Nat \ {0} /\ Len(Tail(q)) = Len(q) - 1 /\ Head(q) = q[1]
           /\ \A i \in 1..Len(Tail(q)) : i + 1 \in 1..Len(q) /\ Tail(q)[i] = q[i + 1]
<1>1. /\ Len(Tail(q)) = Len(q) - 1 /\ Len(q) \in Nat \ {0} /\ Head(q) = q[1]
      /\ \A i \in 1..Len(Tail(q)) : Tail(q)[i] = q[i + 1]
  BY HeadTailProperties, EmptySeq
<1>2. \A i \in 1..Len(Tail(q)) : i + 1 \in 1..Len(q)
  <2> SUFFICES ASSUME NEW i \in 1..Len(Tail(q)) PROVE i + 1 \in 1..Len(q)  OBVIOUS
  <2>1. i \in 1..(Len(q) - 1)  BY <1>1
  <2> QED  BY <1>1, <2>1
<1> QED  BY <1>1, <1>2

LEMMA AppendOf ==
    ASSUME NEW q \in Seq(Int), NEW m \in Int
    PROVE  /\ Len(q) \in Nat /\ Len(Append(q, m)) = Len(q) + 1
           /\ \A i \in 1..Len(Append(q, m)) :
                 Append(q, m)[i] = IF i = Len(q) + 1 THEN m ELSE q[i]
OBVIOUS

\* A first message that leaves the channel leaves at most one Snapshot in it.
LEMMA SnapshotOfTail ==
    ASSUME NEW c \in Conns, queue[c] \in Seq(Int), queue[c] # <<>>, OneSnapshot(c),
           queue'[c] = Tail(queue[c]), snapshot'[c] = snapshot[c]
    PROVE  /\ OneSnapshot(c)' /\ (Pending(c)' => Pending(c))
           /\ Head(queue[c]) = Snapshot => ~Pending(c)'
<1> DEFINE q == queue[c]
           t == Tail(queue[c])
<1>1. /\ Len(q) \in Nat \ {0} /\ Len(t) = Len(q) - 1 /\ Head(q) = q[1]
      /\ \A i \in 1..Len(t) : i + 1 \in 1..Len(q) /\ t[i] = q[i + 1]
  BY TailOf
<1>2. /\ queue[c] = q /\ queue'[c] = t  OBVIOUS
<1> HIDE DEF q, t
<1>3. \A i \in 1..Len(t) : i \in Nat /\ i >= 1  BY <1>1
<1>4. OneSnapshot(c)'
  <2> SUFFICES ASSUME NEW i \in 1..Len(t), t[i] = Snapshot
               PROVE  /\ snapshot[c] = "done"
                      /\ \A j \in 1..Len(t) : t[j] = Snapshot => i = j
    BY <1>2 DEF OneSnapshot
  <2>1. snapshot[c] = "done"  BY <1>1, <1>2 DEF OneSnapshot
  <2>2. ASSUME NEW j \in 1..Len(t), t[j] = Snapshot PROVE i = j
    <3>1. i + 1 = j + 1  BY <1>1, <1>2, <2>2 DEF OneSnapshot
    <3> QED  BY <1>3, <3>1
  <2> QED  BY <2>1, <2>2
<1>5. Pending(c)' => Pending(c)  BY <1>1, <1>2 DEF Pending
<1>6. ASSUME Head(q) = Snapshot PROVE ~Pending(c)'
  <2>1. 1 \in 1..Len(q) /\ q[1] = Snapshot  BY <1>1, <1>6
  <2>2. snapshot[c] = "done"  BY <1>2, <2>1 DEF OneSnapshot
  <2>3. ASSUME NEW i \in 1..Len(t), t[i] = Snapshot PROVE FALSE
    <3>1. 1 = i + 1  BY <1>1, <1>2, <2>1, <2>3 DEF OneSnapshot
    <3> QED  BY <1>3, <3>1
  <2> QED  BY <1>2, <2>2, <2>3 DEF Pending
<1> QED  BY <1>2, <1>4, <1>5, <1>6

LEMMA MoveKeeps ==
    ASSUME NEW c \in Conns, queue[c] \in Seq(Int), OneSnapshot(c), Moves(c)
    PROVE  OneSnapshot(c)' /\ (Pending(c)' => Pending(c))
<1>1. CASE queue'[c] = queue[c] /\ (snapshot[c] = "done" => snapshot'[c] = "done")
  BY <1>1 DEF OneSnapshot, Pending
<1>2. CASE queue[c] # <<>> /\ queue'[c] = Tail(queue[c]) /\ snapshot'[c] = snapshot[c]
  BY <1>2, SnapshotOfTail
<1>3. ASSUME NEW m \in Int, m # Snapshot, queue'[c] = Append(queue[c], m),
             snapshot'[c] = snapshot[c]
      PROVE  OneSnapshot(c)' /\ (Pending(c)' => Pending(c))
  <2>1. \A i \in 1..Len(queue'[c]) : queue'[c][i] = Snapshot =>
            i \in 1..Len(queue[c]) /\ queue[c][i] = Snapshot
    BY <1>3, AppendOf
  <2> QED  BY <1>3, <2>1 DEF OneSnapshot, Pending
<1>4. CASE /\ queue'[c] = Append(queue[c], Snapshot)
           /\ snapshot[c] # "done" /\ snapshot'[c] = "done"
  <2>1. Snapshot \in Int  BY DEF Snapshot
  <2>2. /\ Len(queue[c]) \in Nat /\ Len(queue'[c]) = Len(queue[c]) + 1
        /\ \A i \in 1..Len(queue'[c]) :
              queue'[c][i] = IF i = Len(queue[c]) + 1 THEN Snapshot ELSE queue[c][i]
    BY <1>4, <2>1, AppendOf
  <2>3. \A i \in 1..Len(queue[c]) : queue[c][i] # Snapshot  BY <1>4 DEF OneSnapshot
  <2>4. \A i \in 1..Len(queue'[c]) : queue'[c][i] = Snapshot => i = Len(queue[c]) + 1
    BY <2>2, <2>3
  <2>5. OneSnapshot(c)'  BY <1>4, <2>4 DEF OneSnapshot
  <2> QED  BY <1>4, <2>5 DEF Pending
<1> QED  BY <1>1, <1>2, <1>3, <1>4 DEF Moves

\* A step that writes nothing to a client.
LEMMA QuietSnap ==
    ASSUME Types, SnapInv, UNCHANGED client, \A c \in Conns : Moves(c),
           answer' \in [Conns -> [Vehicles -> Int]],
           snapshot' \in [Conns -> {"none", "start", "query", "done"}],
           \A c \in Conns : Unstarted(c)'
    PROVE  SnapInv'
<1>1. ASSUME NEW c \in Conns PROVE OneSnapshot(c)' /\ NotAhead(c)'
  <2>1. OneSnapshot(c)' /\ (Pending(c)' => Pending(c))
    BY MoveKeeps DEF Types, SnapInv
  <2>2. last'[c] = last[c] /\ shown'[c] = shown[c] /\ setBack' = setBack  BY DEF client
  <2> QED  BY <2>1, <2>2 DEF SnapInv, NotAhead
<1> QED  BY <1>1 DEF SnapInv, ClientTypes, client

LEMMA SendMoves ==
    ASSUME Types, NEW c \in Conns, NEW m \in Int, m # Snapshot, Send(c, m), snapshot' = snapshot
    PROVE  \A d \in Conns : Moves(d)
<1>1. queue' = queue \/ queue' = [queue EXCEPT ![c] = Append(queue[c], m)]
  BY DEF Send, sends
<1> QED  BY <1>1 DEF Moves, Types

\* What the query gives is a position or none.
LEMMA StoredInt == ASSUME Types, NEW c \in Conns, NEW v \in Vehicles PROVE Stored(c, v) \subseteq Int
BY ClientConstants DEF Types, Stored

LEMMA ConnectionStarts ==
    ASSUME Types, ClientTypes, NEW c \in Conns, \A d \in Conns : Unstarted(d),
           \/ HandleConnection(c) \/ readLoop(c) \/ cleanup(c)
           \/ WriterStop(c) \/ SnapshotStart(c) \/ sendInitialPositions(c)
    PROVE  \A d \in Conns : Unstarted(d)'
<1>1. CASE HandleConnection(c)
  BY <1>1 DEF HandleConnection, Types, ClientTypes, Unstarted
<1>2. CASE SnapshotStart(c) \/ sendInitialPositions(c)
  BY <1>2 DEF SnapshotStart, sendInitialPositions, Types, ClientTypes, Unstarted
<1>3. CASE readLoop(c) \/ cleanup(c) \/ WriterStop(c)
  <2>1. /\ UNCHANGED snapshot
        /\ \/ phase' = phase
           \/ \E p \in Phases \ {"none"} : phase' = [phase EXCEPT ![c] = p]
    BY <1>3 DEF readLoop, SubscribeAll, OnlyAnswer, Subscribe, Unsubscribe, ClientLeaves,
       LeaveLoop, cleanup, Answer, ReadFails, RemoveAll, RemoveConnection, CloseChannel,
       CloseSocket, WriterStop, Reading, Phases
  <2> QED  BY <2>1 DEF Types, Unstarted
<1> QED  BY <1>1, <1>2, <1>3

LEMMA ConnectionSnap ==
    ASSUME IInv, SnapInv, NEW c \in Conns,
           \/ HandleConnection(c) \/ readLoop(c) \/ cleanup(c)
           \/ WriterStop(c) \/ SnapshotStart(c) \/ sendInitialPositions(c)
    PROVE  SnapInv'
<1> USE DEF IInv
<1>0. \A d \in Conns : Unstarted(d)'  BY ConnectionStarts DEF SnapInv
<1>1. CASE HandleConnection(c) \/ SnapshotStart(c)
  <2>1. UNCHANGED <<client, queue, answer>>
    BY <1>1 DEF HandleConnection, SnapshotStart, sends
  <2>2. /\ snapshot' \in [Conns -> {"none", "start", "query", "done"}]
        /\ \A d \in Conns : snapshot[d] = "done" => snapshot'[d] = "done"
    BY <1>1 DEF HandleConnection, SnapshotStart, SnapInv, ClientTypes, Unstarted
  <2> QED  BY <2>1, <2>2, <1>0, QuietSnap DEF Moves, SnapInv, ClientTypes
<1>2. CASE \/ readLoop(c) \/ ReadFails(c) \/ RemoveAll(c) \/ RemoveConnection(c)
           \/ CloseChannel(c) \/ CloseSocket(c)
  <2>1. UNCHANGED <<client, queue, answer, snapshot>>
    BY <1>2 DEF readLoop, SubscribeAll, OnlyAnswer, Subscribe, Unsubscribe, ClientLeaves,
       LeaveLoop, ReadFails, RemoveAll, RemoveConnection, CloseChannel, CloseSocket, sends
  <2> QED  BY <2>1, <1>0, QuietSnap DEF Moves, SnapInv, ClientTypes
<1>3. CASE Answer(c)
  <2>1. UNCHANGED <<client, answer, snapshot>> /\ Send(c, Reply)  BY <1>3 DEF Answer
  <2>2. Reply \in Int /\ Reply # Snapshot  BY DEF Reply, Snapshot
  <2> QED  BY <2>1, <2>2, SendMoves, <1>0, QuietSnap DEF SnapInv, ClientTypes
<1>4. CASE WriterStop(c)
  <2>1. UNCHANGED <<client, answer, snapshot>>  BY <1>4 DEF WriterStop
  <2>2. \A d \in Conns : Moves(d)
    BY <1>4, <2>1 DEF WriterStop, Moves, Types
  <2> QED  BY <2>1, <2>2, <1>0, QuietSnap DEF SnapInv, ClientTypes
<1>5. CASE sendInitialPositions(c)
  <2>1. /\ snapshot[c] = "query" /\ snapshot' = [snapshot EXCEPT ![c] = "done"]
        /\ UNCHANGED client
    BY <1>5 DEF sendInitialPositions
  <2>2. snapshot' \in [Conns -> {"none", "start", "query", "done"}]
    BY <2>1 DEF SnapInv, ClientTypes
  <2>3. answer' \in [Conns -> [Vehicles -> Int]]
    <3>1. CASE answer' = answer  BY <3>1 DEF SnapInv, ClientTypes
    <3>2. ASSUME NEW a \in [Vehicles -> 0..MaxPositions], answer' = [answer EXCEPT ![c] = a]
          PROVE  answer' \in [Conns -> [Vehicles -> Int]]
      BY <3>2, ClientConstants DEF SnapInv, ClientTypes
    <3> QED  BY <1>5, <3>1, <3>2 DEF sendInitialPositions
  <2>4. queue' = queue \/ queue' = [queue EXCEPT ![c] = Append(queue[c], Snapshot)]
    BY <1>5 DEF sendInitialPositions, Send, sends
  <2>5. /\ snapshot'[c] = "done" /\ \A d \in Conns : d # c => snapshot'[d] = snapshot[d]
        /\ queue'[c] = queue[c] \/ queue'[c] = Append(queue[c], Snapshot)
        /\ \A d \in Conns : d # c => queue'[d] = queue[d]
    BY <2>1, <2>4 DEF SnapInv, ClientTypes, Types
  <2>6. \A d \in Conns : Moves(d)  BY <2>1, <2>5 DEF Moves
  <2> QED  BY <2>1, <2>2, <2>3, <2>6, <1>0, QuietSnap
<1> QED  BY <1>1, <1>2, <1>3, <1>4, <1>5 DEF cleanup

LEMMA DispatchSnap ==
    ASSUME IInv, SnapInv, NEW o \in Orgs,
           dispatching(o) \/ \E v \in Vehicles : Dispatch(o, v)
    PROVE  SnapInv'
<1> USE DEF IInv
<1>1. UNCHANGED <<client, answer, snapshot>>
  BY DEF dispatching, DispatchSend, DispatchReturn, Dispatch
<1>2. \A d \in Conns : Moves(d)
  <2>1. CASE queue' = queue  BY <1>1, <2>1 DEF Moves
  <2>2. ASSUME NEW t \in dispatch[o].todo, DispatchSend(o, t)
        PROVE  \A d \in Conns : Moves(d)
    <3>1. t[1] \in Conns /\ dispatch[o].n \in Nat  BY DEF Types, Places
    <3>2. dispatch[o].n # Snapshot  BY <3>1 DEF Snapshot
    <3> QED  BY <1>1, <2>2, <3>1, <3>2, SendMoves DEF DispatchSend
  <2> QED  BY <2>1, <2>2 DEF dispatching, DispatchReturn, Dispatch, sends
<1>3. \A d \in Conns : Unstarted(d)'
  BY <1>1 DEF dispatching, DispatchSend, DispatchReturn, Dispatch, SnapInv, Unstarted
<1> QED  BY <1>1, <1>2, <1>3, QuietSnap DEF SnapInv, ClientTypes

\* A vehicle is set back when the initial positions are written, or by the next live
\* one after them; either way only once.
SetBackOnce == \A c \in Conns, v \in Vehicles :
                  shown'[c][v] < shown[c][v] => <<c, v>> \notin setBack

LEMMA WriteSnap ==
    ASSUME IInv, OrderInv, SnapInv, NEW c \in Conns, Write(c)
    PROVE  SnapInv' /\ SetBackOnce
<1> USE DEF IInv
<1> DEFINE m == Head(queue[c])
<1>1. queue[c] \in Seq(Int) /\ queue[c] # <<>> /\ last[c] \in Nat
  BY DEF Types, Write, OrderInv
<1>2. m \in Int /\ 1 \in 1..Len(queue[c]) /\ m = queue[c][1]  BY <1>1
<1>3. m > 0 => last[c] <= m /\ m \in 1..Len(positions)
  BY <1>1, <1>2 DEF OrderInv, InOrder, Rising, Addressed, Right
<1> HIDE DEF m
<1>4. /\ queue' = [queue EXCEPT ![c] = Tail(queue[c])]
      /\ last' = [last EXCEPT ![c] = IF m > 0 THEN m ELSE last[c]]
      /\ shown' = [shown EXCEPT ![c] = ShownAfter(c, m)]
      /\ setBack' = setBack \cup {<<c, v>> : v \in {u \in Vehicles : shown'[c][u] < shown[c][u]}}
      /\ UNCHANGED <<snapshot, answer>>
  BY DEF Write, m
<1>5. ShownAfter(c, m) \in [Vehicles -> Int]
  <2>1. shown[c] \in [Vehicles -> Int] /\ answer[c] \in [Vehicles -> Int]
    BY DEF SnapInv, ClientTypes
  <2>2. CASE m = Snapshot  BY <2>1, <2>2 DEF ShownAfter
  <2>3. CASE m # Snapshot  BY <1>2, <2>1, <2>3 DEF ShownAfter
  <2> QED  BY <2>2, <2>3
<1>6. ClientTypes'  BY <1>4, <1>5 DEF SnapInv, ClientTypes
<1>7. /\ queue'[c] = Tail(queue[c]) /\ shown'[c] = ShownAfter(c, m)
      /\ last'[c] = IF m > 0 THEN m ELSE last[c]
      /\ \A d \in Conns : d # c => /\ queue'[d] = queue[d] /\ shown'[d] = shown[d]
                                  /\ last'[d] = last[d]
                                  /\ \A v \in Vehicles : <<d, v>> \in setBack' <=> <<d, v>> \in setBack
  BY <1>4 DEF Types, OrderInv, SnapInv, ClientTypes
<1>8. \A v \in Vehicles : <<c, v>> \in setBack' <=>
          <<c, v>> \in setBack \/ shown'[c][v] < shown[c][v]
  BY <1>4
<1>9. /\ OneSnapshot(c)' /\ (Pending(c)' => Pending(c)) /\ (m = Snapshot => ~Pending(c)')
  BY <1>1, <1>4, <1>7, SnapshotOfTail DEF SnapInv, m
<1>10. m = Snapshot => Pending(c)  BY <1>2 DEF Pending
<1>11. ASSUME NEW v \in Vehicles
       PROVE  /\ <<c, v>> \in setBack' => shown'[c][v] <= last'[c]
              /\ Pending(c)' => shown'[c][v] <= last'[c] /\ <<c, v>> \notin setBack'
              /\ shown'[c][v] < shown[c][v] => <<c, v>> \notin setBack
  <2>1. /\ shown[c][v] \in Int /\ shown'[c][v] \in Int /\ last'[c] \in Int
        /\ last[c] <= last'[c]
    BY <1>1, <1>2, <1>3, <1>6, <1>7 DEF SnapInv, ClientTypes
  <2>2. /\ <<c, v>> \in setBack => shown[c][v] <= last[c]
        /\ Pending(c) => shown[c][v] <= last[c] /\ <<c, v>> \notin setBack
    BY DEF SnapInv, NotAhead
  <2>3. CASE m = Snapshot
    BY <1>8, <1>1, <1>9, <1>10, <2>1, <2>2, <2>3
  <2>4. CASE m # Snapshot
    <3>1. shown'[c][v] = shown[c][v] \/ (shown'[c][v] = m /\ m > 0)
      <4>1. CASE ~(m > 0)  BY <1>7, <2>4, <4>1 DEF ShownAfter
      <4>2. CASE m > 0
        <5>1. shown'[c] = [shown[c] EXCEPT ![positions[m][2]] = m]
          BY <1>7, <2>4, <4>2 DEF ShownAfter
        <5> QED  BY <4>2, <5>1 DEF SnapInv, ClientTypes
      <4> QED  BY <4>1, <4>2
    <3>2. CASE shown'[c][v] = shown[c][v]
      BY <1>8, <1>1, <1>9, <2>1, <2>2, <3>2
    <3>3. CASE shown'[c][v] = m /\ m > 0
      <4>1. last'[c] = m /\ last[c] <= m  BY <1>3, <1>7, <3>3
      <4> QED  BY <1>2, <1>1, <1>8, <1>9, <2>1, <2>2, <3>3, <4>1
    <3> QED  BY <3>1, <3>2, <3>3
  <2> QED  BY <2>3, <2>4
<1>12. \A d \in Conns : Unstarted(d)' /\ OneSnapshot(d)' /\ NotAhead(d)'
  <2>1. OneSnapshot(c)' /\ NotAhead(c)'  BY <1>9, <1>11 DEF NotAhead
  <2>2. ASSUME NEW d \in Conns, d # c PROVE OneSnapshot(d)' /\ NotAhead(d)'
    BY <1>4, <1>7, <2>2 DEF SnapInv, OneSnapshot, NotAhead, Pending
  <2>3. \A d \in Conns : Unstarted(d)'  BY <1>4 DEF Write, SnapInv, Unstarted
  <2> QED  BY <2>1, <2>2, <2>3
<1>13. SetBackOnce
  <2> SUFFICES ASSUME NEW d \in Conns, NEW v \in Vehicles, shown'[d][v] < shown[d][v]
               PROVE  <<d, v>> \notin setBack
    BY DEF SetBackOnce
  <2>1. CASE d = c  BY <1>11, <2>1
  <2>2. CASE d # c
    <3>1. shown'[d][v] = shown[d][v] /\ shown[d][v] \in Int
      BY <1>7, <2>2 DEF SnapInv, ClientTypes
    <3> QED  BY <3>1
  <2> QED  BY <2>1, <2>2
<1> QED  BY <1>6, <1>12, <1>13 DEF SnapInv

\* Where nothing is written to a client nothing is set back.
LEMMA NotSetBack == ASSUME SnapInv, shown' = shown PROVE SetBackOnce
<1> SUFFICES ASSUME NEW c \in Conns, NEW v \in Vehicles, shown[c][v] < shown[c][v]
             PROVE  FALSE
  BY DEF SetBackOnce
<1>1. shown[c][v] \in Int  BY DEF SnapInv, ClientTypes
<1> QED  BY <1>1

LEMMA SnapKept ==
    ASSUME IInv, OrderInv, SnapInv, [Next]_vars
    PROVE  SnapInv' /\ SetBackOnce
<1>1. CASE UNCHANGED vars
  BY <1>1, QuietSnap, NotSetBack DEF vars, sends, client, Moves, IInv, SnapInv, ClientTypes, Unstarted
<1>2. ASSUME NEW c \in Conns, Write(c) PROVE SnapInv' /\ SetBackOnce
  BY <1>2, WriteSnap
<1>3. ASSUME NEW c \in Conns,
             \/ HandleConnection(c) \/ readLoop(c) \/ cleanup(c)
             \/ WriterStop(c) \/ SnapshotStart(c) \/ sendInitialPositions(c)
      PROVE  SnapInv' /\ SetBackOnce
  <2>1. shown' = shown
    BY <1>3 DEF HandleConnection, readLoop, SubscribeAll, OnlyAnswer, Subscribe, Unsubscribe,
       ClientLeaves, LeaveLoop, cleanup, Answer, ReadFails, RemoveAll, RemoveConnection,
       CloseChannel, CloseSocket, WriterStop, SnapshotStart, sendInitialPositions, client
  <2> QED  BY <1>3, <2>1, ConnectionSnap, NotSetBack
<1>4. ASSUME NEW o \in Orgs, dispatching(o) \/ \E v \in Vehicles : Dispatch(o, v)
      PROVE  SnapInv' /\ SetBackOnce
  <2>1. shown' = shown
    BY <1>4 DEF dispatching, DispatchSend, DispatchReturn, Dispatch, client
  <2> QED  BY <1>4, <2>1, DispatchSnap, NotSetBack
<1> QED  BY <1>1, <1>2, <1>3, <1>4 DEF Next

LEMMA InitSnap == Init => SnapInv
<1> SUFFICES ASSUME Init PROVE SnapInv  OBVIOUS
<1> USE DEF Init, Nothing
<1>1. ClientTypes  BY DEF ClientTypes
<1>2. ASSUME NEW c \in Conns PROVE Unstarted(c) /\ OneSnapshot(c) /\ NotAhead(c)
  <2>1. snapshot[c] = "none" /\ queue[c] = <<>> /\ last[c] = 0 /\ shown[c] = [v \in Vehicles |-> 0] /\ setBack = {}
    OBVIOUS
  <2> QED  BY <2>1 DEF OneSnapshot, NotAhead, Unstarted
<1> QED  BY <1>1, <1>2 DEF SnapInv

-----------------------------------------------------------------------------
LEMMA SpecIInv == Spec => []IInv
<1>1. ASSUME IInv, [Next]_vars PROVE IInv'
  <2>1. CASE UNCHANGED vars
    BY <1>1, <2>1, SameQueues, QuietKeeps DEF vars, index, sends, IInv, Types
  <2>2. ASSUME NEW c \in Conns,
               HandleConnection(c) \/ readLoop(c) \/ cleanup(c) \/ Write(c)
                   \/ WriterStop(c) \/ SnapshotStart(c) \/ sendInitialPositions(c)
        PROVE  IInv'
    BY <1>1, <2>2, ReadLoopKeeps, ConnectionKeeps
  <2>3. ASSUME NEW o \in Orgs, dispatching(o) PROVE IInv'
    BY <1>1, <2>3, DispatchingKeeps
  <2>4. ASSUME NEW o \in Orgs, NEW v \in Vehicles, Dispatch(o, v) PROVE IInv'
    BY <1>1, <2>4, DispatchKeeps
  <2> QED  BY <1>1, <2>1, <2>2, <2>3, <2>4 DEF Next
<1> QED  BY InitIInv, <1>1, PTL DEF Spec

(* For any number of connections and orgs that share vehicle IDs: a channel  *)
(* never holds a position of another org.                                    *)
THEOREM OrgsAreIsolated == Spec => []OrgIsolation
<1>1. IInv => OrgIsolation  BY DEF IInv, Addressed, Right, OrgIsolation
<1> QED  BY SpecIInv, <1>1, PTL

(* For the same: once RemoveAll returned, neither the index nor a Dispatch   *)
(* under way refers to the connection.                                       *)
THEOREM RemovedIsForgotten == Spec => []ForgottenWhenGone
<1>1. IInv => ForgottenWhenGone  BY DEF IInv
<1> QED  BY SpecIInv, <1>1, PTL

(* For any lists of vehicles a client sends, repeated, known or unknown ones *)
(* among them: its count is the number of its entries in the index.          *)
THEOREM CountsAreExact == Spec => []CountIsExact
<1>1. Exactness => CountIsExact
  BY DEF Exactness, Exact, Removed, Bucket, CountIsExact, Registered
<1>2. IInv /\ Exactness /\ [Next]_vars => Exactness'  BY ExactnessKept
<1> QED  BY SpecIInv, InitExactness, <1>1, <1>2, PTL DEF Spec

(* However the Sends to a connection interleave (the answers of its read     *)
(* loop, the initial positions, the two buckets of each Dispatch) and for    *)
(* any capacities: because the org has one reader, live positions never go   *)
(* back; because the initial ones are sent once, a vehicle is set back at    *)
(* most once.                                                                *)
THEOREM NoClientGoesBack == Spec => NeverBackwards
<1>1. IInv /\ OrderInv /\ SnapInv /\ [Next]_vars =>
          /\ OrderInv' /\ SnapInv'
          /\ [\A c \in Conns :
                 /\ last'[c] >= last[c]
                 /\ \A v \in Vehicles : shown'[c][v] < shown[c][v] => <<c, v>> \notin setBack]_vars
  BY OrderKept, SnapKept DEF SetBackOnce
<1> QED  BY SpecIInv, InitOrder, InitSnap, <1>1, PTL DEF Spec, NeverBackwards
=============================================================================
