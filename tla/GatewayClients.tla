----------------------------- MODULE GatewayClients -----------------------------
(***************************************************************************)
(* The connections of one websocket-gateway: the goroutines of each         *)
(* connection (read loop, writeLoop, sendInitialPositions, the Close that   *)
(* Send starts), the VehicleIndex they share, and Dispatch, called by the   *)
(* reader of each org's stream.  Where the positions come from is           *)
(* GatewayFanout.                                                           *)
(*                                                                          *)
(* A live position is its place in positions, the initial positions are     *)
(* Snapshot and what the query gave, any other message is Reply.            *)
(***************************************************************************)
EXTENDS Integers, Sequences, FiniteSets

CONSTANTS
    Conns, Orgs, Vehicles,
    OrgOf,              \* org in the token of each connection
    Requests,           \* lists of vehicles a client asks for
    MaxPerConnection,   \* Subscriptions.MaxPerConnection
    WriteBuf,           \* WriteBufSize, capacity of writeChan
    MaxDrops,           \* maxConsecutiveDrops
    HasClickHouse,      \* chClient is not nil
    MaxPositions, MaxRequests   \* bounds

ASSUME ClientConstants ==
    /\ OrgOf \in [Conns -> Orgs] /\ Requests \subseteq Seq(Vehicles)
    /\ MaxPerConnection \in Nat /\ WriteBuf \in Nat \ {0} /\ MaxDrops \in Nat \ {0}
    /\ HasClickHouse \in BOOLEAN
    /\ MaxPositions \in Nat /\ MaxRequests \in Nat

VARIABLES
    phase,          \* read loop: "none", "open", "reply", "leaving", "removed", "gone"
    byVehicle,      \* VehicleIndex.byVehicle, as pairs <<vehicle, connection>>
    byOrgAll,       \* VehicleIndex.byOrgAll: a connection is only in its own org's bucket
    count,          \* subscriptionCount
    queue, drops,   \* writeChan, consecutiveDrops
    writing,        \* connections whose writeLoop runs
    closing, closed, hungUp,   \* Close() was called; channel closed; socket closed
    snapshot,       \* sendInitialPositions: "none", "start", "query" or "done"
    answer,         \* positions in its message, by vehicle; 0: not in it
    dispatch,       \* the Dispatch call of each org's reader
    positions,      \* history: <<org, vehicle>> of each position read
    last,           \* history: latest live position written to the client
    shown,          \* history: position the client has of each vehicle; 0: none
    setBack,        \* history: pairs <<connection, vehicle>> that got an older one
    requests

index == <<byVehicle, byOrgAll>>
sends == <<queue, drops>>
close == <<closing, closed, hungUp>>
client == <<last, shown, setBack>>
vars == <<phase, index, count, sends, writing, close, snapshot, answer, dispatch,
          positions, client, requests>>

Reply == 0
Snapshot == -1
Nothing == [v \in Vehicles |-> 0]
NoCall == [n |-> 0, todo |-> {}]

Init ==
    /\ phase = [c \in Conns |-> "none"] /\ byVehicle = {} /\ byOrgAll = {}
    /\ count = [c \in Conns |-> 0]
    /\ queue = [c \in Conns |-> <<>>] /\ drops = [c \in Conns |-> 0]
    /\ writing = {} /\ closing = {} /\ closed = {} /\ hungUp = {}
    /\ snapshot = [c \in Conns |-> "none"] /\ answer = [c \in Conns |-> Nothing]
    /\ dispatch = [o \in Orgs |-> NoCall] /\ positions = <<>>
    /\ last = [c \in Conns |-> 0] /\ shown = [c \in Conns |-> Nothing] /\ setBack = {}
    /\ requests = 0

\* Keys of the backend's connections map.
Registered == {c \in Conns : phase[c] \in {"open", "reply"}}

\* HandleConnection up to its read loop.
HandleConnection(c) ==
    /\ phase[c] = "none" /\ phase' = [phase EXCEPT ![c] = "open"]
    /\ writing' = writing \cup {c}
    /\ snapshot' = [snapshot EXCEPT ![c] = IF HasClickHouse THEN "start" ELSE "done"]
    /\ UNCHANGED <<answer, index, count, sends, close, dispatch, positions, client, requests>>

\* Mutant: drops are counted and nobody is closed for them.
SendNeverCloses(c, m) ==
    \/ /\ Len(queue[c]) < WriteBuf
       /\ queue' = [queue EXCEPT ![c] = Append(@, m)]
       /\ drops' = [drops EXCEPT ![c] = 0] /\ UNCHANGED closing
    \/ /\ Len(queue[c]) >= WriteBuf
       /\ drops' = [drops EXCEPT ![c] = @ + 1] /\ UNCHANGED <<queue, closing>>

\* Send.  The select takes any ready case: a closed connection with room in its
\* channel may accept the message.
Accepts(c) == Len(queue[c]) < WriteBuf
Send(c, m) ==
    \/ /\ Accepts(c)
       /\ queue' = [queue EXCEPT ![c] = Append(@, m)]
       /\ drops' = [drops EXCEPT ![c] = 0] /\ UNCHANGED closing
    \/ c \in closed /\ UNCHANGED <<sends, closing>>
    \/ /\ ~Accepts(c) /\ c \notin closed
       /\ drops' = [drops EXCEPT ![c] = @ + 1] /\ UNCHANGED queue
       /\ closing' = IF drops'[c] >= MaxDrops THEN closing \cup {c} ELSE closing

-----------------------------------------------------------------------------
(* The read loop of a connection.                                          *)

\* The index's write lock is free: no Dispatch holds it for reading.
Unlocked == \A o \in Orgs : dispatch[o].n = 0

Distinct(ids) == {ids[i] : i \in 1..Len(ids)}

Trim(ids, n) == SubSeq(ids, 1, IF Len(ids) > n THEN n ELSE Len(ids))
Headroom(c) == MaxPerConnection - count[c]

\* Mutant: a vehicle counts again although the connection is in its bucket.
AddedAgain(c, ids) == Distinct(ids)

Added(c, ids) == {v \in Distinct(ids) : <<v, c>> \notin byVehicle}

Reading(c) ==
    /\ phase[c] = "open" /\ requests < MaxRequests /\ requests' = requests + 1

SubscribeAll(c) ==
    /\ Reading(c) /\ Unlocked
    /\ byOrgAll' = byOrgAll \cup {c} /\ phase' = [phase EXCEPT ![c] = "reply"]
    /\ UNCHANGED <<byVehicle, count, sends, writing, close, snapshot, answer, dispatch,
                   positions, client>>

Subscribe(c, ids) ==
    /\ Reading(c) /\ Unlocked /\ Headroom(c) > 0
    /\ LET toAdd == Trim(ids, Headroom(c))
       IN  /\ byVehicle' = byVehicle \cup (Distinct(toAdd) \X {c})
           /\ count' = [count EXCEPT ![c] = @ + Cardinality(Added(c, toAdd))]
    /\ phase' = [phase EXCEPT ![c] = "reply"]
    /\ UNCHANGED <<byOrgAll, sends, writing, close, snapshot, answer, dispatch, positions,
                   client>>

Unsubscribe(c, ids) ==
    /\ Reading(c) /\ Unlocked
    /\ LET known == {v \in Distinct(ids) : <<v, c>> \in byVehicle}
       IN  /\ byVehicle' = byVehicle \ (known \X {c})
           /\ count' = [count EXCEPT ![c] = @ - Cardinality(known)]
    /\ UNCHANGED <<phase, byOrgAll, sends, writing, close, snapshot, answer, dispatch,
                   positions, client>>

\* A ping, or a subscription without headroom, changes nothing before its answer.
OnlyAnswer(c) ==
    /\ Reading(c) /\ phase' = [phase EXCEPT ![c] = "reply"]
    /\ UNCHANGED <<index, count, sends, writing, close, snapshot, answer, dispatch,
                   positions, client>>

\* "subscription_confirmation", "error" or "pong".
Answer(c) ==
    /\ phase[c] = "reply" /\ phase' = [phase EXCEPT ![c] = "open"] /\ Send(c, Reply)
    /\ UNCHANGED <<index, count, writing, closed, hungUp, snapshot, answer, dispatch,
                   positions, client, requests>>

\* ReadJSON fails: the socket is closed, or the client left or missed its pongs.
LeaveLoop(c) ==
    /\ phase[c] = "open" /\ phase' = [phase EXCEPT ![c] = "leaving"]
    /\ UNCHANGED <<index, count, sends, writing, close, snapshot, answer, dispatch,
                   positions, client, requests>>
ReadFails(c) == c \in hungUp /\ LeaveLoop(c)
ClientLeaves(c) == c \notin hungUp /\ LeaveLoop(c)

\* Mutant: the index is changed without its lock.
RemoveAllUnlocked(c) ==
    /\ phase[c] = "leaving" /\ phase' = [phase EXCEPT ![c] = "removed"]
    /\ byVehicle' = {s \in byVehicle : s[2] # c} /\ byOrgAll' = byOrgAll \ {c}
    /\ closing' = closing \cup {c}
    /\ UNCHANGED <<count, sends, writing, closed, hungUp, snapshot, answer, dispatch,
                   positions, client, requests>>

\* removeConnection: RemoveAll, then Close.
RemoveAll(c) ==
    /\ phase[c] = "leaving" /\ Unlocked /\ phase' = [phase EXCEPT ![c] = "removed"]
    /\ byVehicle' = {s \in byVehicle : s[2] # c} /\ byOrgAll' = byOrgAll \ {c}
    /\ closing' = closing \cup {c}
    /\ UNCHANGED <<count, sends, writing, closed, hungUp, snapshot, answer, dispatch,
                   positions, client, requests>>

\* ... and HandleConnection returns once Close has.
RemoveConnection(c) ==
    /\ phase[c] = "removed" /\ c \in hungUp /\ phase' = [phase EXCEPT ![c] = "gone"]
    /\ UNCHANGED <<index, count, sends, writing, close, snapshot, answer, dispatch, positions,
                   client, requests>>

-----------------------------------------------------------------------------
(* The other goroutines of a connection.                                   *)

\* Close, under its sync.Once: the channel, then the socket.
CloseChannel(c) ==
    /\ c \in closing \ closed /\ closed' = closed \cup {c}
    /\ UNCHANGED <<phase, index, count, sends, writing, closing, hungUp, snapshot, answer,
                   dispatch, positions, client, requests>>

CloseSocket(c) ==
    /\ c \in closed \ hungUp /\ hungUp' = hungUp \cup {c}
    /\ UNCHANGED <<phase, index, count, sends, writing, closing, closed, snapshot, answer,
                   dispatch, positions, client, requests>>

\* What the client has once message m is written to it.
ShownAfter(c, m) ==
    IF m = Snapshot
    THEN [v \in Vehicles |-> IF answer[c][v] = 0 THEN shown[c][v] ELSE answer[c][v]]
    ELSE IF m > 0 THEN [shown[c] EXCEPT ![positions[m][2]] = m] ELSE shown[c]

\* writeLoop, which may still choose writeChan when closed is readable too.
Write(c) ==
    /\ c \in writing \ hungUp /\ queue[c] # <<>>
    /\ queue' = [queue EXCEPT ![c] = Tail(@)]
    /\ last' = [last EXCEPT ![c] = IF Head(queue[c]) > 0 THEN Head(queue[c]) ELSE @]
    /\ shown' = [shown EXCEPT ![c] = ShownAfter(c, Head(queue[c]))]
    /\ setBack' = setBack \cup {<<c, v>> : v \in {u \in Vehicles : shown'[c][u] < shown[c][u]}}
    /\ UNCHANGED <<phase, index, count, drops, writing, close, snapshot, answer, dispatch,
                   positions, requests>>

\* Mutant: a message whose write fails is put into the channel again.
WriterRetries(c) ==
    /\ c \in writing /\ queue[c] # <<>>
    /\ queue' = [queue EXCEPT ![c] = Append(Tail(@), Head(@))]
    /\ UNCHANGED <<phase, index, count, drops, writing, close, snapshot, answer, dispatch,
                   positions, client, requests>>

\* A write failed (of a message, which is lost, or of a ping) or closed is readable:
\* the deferred Close runs.
WriterStop(c) ==
    /\ c \in writing /\ writing' = writing \ {c} /\ closing' = closing \cup {c}
    /\ queue' = IF queue[c] # <<>> /\ c \notin closed
                THEN [queue EXCEPT ![c] = Tail(@)] ELSE queue
    /\ UNCHANGED <<phase, index, count, drops, closed, hungUp, snapshot, answer, dispatch,
                   positions, client, requests>>

\* sendInitialPositions: nothing for a closed connection or when the query fails.
SnapshotStart(c) ==
    /\ snapshot[c] = "start"
    /\ snapshot' = [snapshot EXCEPT ![c] = IF c \in closed THEN "done" ELSE "query"]
    /\ UNCHANGED <<phase, index, count, sends, writing, close, answer, dispatch, positions,
                   client, requests>>

\* What the query may give of a vehicle: anyLast takes any of its stored positions.
\* The batch-writer may have stored positions this gateway has yet to read.
Stored(c, v) ==
    {0} \cup ((Len(positions) + 1)..MaxPositions)
        \cup {n \in 1..Len(positions) : positions[n] = <<OrgOf[c], v>>}

sendInitialPositions(c) ==
    /\ snapshot[c] = "query" /\ snapshot' = [snapshot EXCEPT ![c] = "done"]
    /\ \/ /\ answer' \in {[answer EXCEPT ![c] = a] : a \in
                              {f \in [Vehicles -> 0..MaxPositions] :
                                  \A v \in Vehicles : f[v] \in Stored(c, v)}}
          /\ Send(c, Snapshot)
       \/ UNCHANGED <<answer, sends, closing>>
    /\ UNCHANGED <<phase, index, count, writing, closed, hungUp, dispatch, positions,
                   client, requests>>

-----------------------------------------------------------------------------
(* Dispatch: holds the index for reading, first byVehicle, then byOrgAll.    *)

\* Mutant: the org of a vehicle's subscribers is not compared.
TargetsAnyOrg(o, v) ==
    {<<c, "vehicle">> : c \in {d \in Conns : <<v, d>> \in byVehicle}}
        \cup {<<c, "all">> : c \in {d \in byOrgAll : OrgOf[d] = o}}

Targets(o, v) ==
    {<<c, "vehicle">> : c \in {d \in Conns : <<v, d>> \in byVehicle /\ OrgOf[d] = o}}
        \cup {<<c, "all">> : c \in {d \in byOrgAll : OrgOf[d] = o}}

Dispatch(o, v) ==
    /\ dispatch[o].n = 0 /\ Len(positions) < MaxPositions
    /\ positions' = Append(positions, <<o, v>>)
    /\ dispatch' = [dispatch EXCEPT ![o] =
          [n |-> Len(positions'), todo |-> Targets(o, v)]]
    /\ UNCHANGED <<phase, index, count, sends, writing, close, snapshot, answer, client,
                   requests>>

DispatchSend(o, t) ==
    /\ t \in dispatch[o].todo
    /\ t[2] = "all" => \A u \in dispatch[o].todo : u[2] = "all"
    /\ Send(t[1], dispatch[o].n)
    /\ dispatch' = [dispatch EXCEPT ![o] = [n |-> @.n, todo |-> @.todo \ {t}]]
    /\ UNCHANGED <<phase, index, count, writing, closed, hungUp, snapshot, answer, positions,
                   client, requests>>

DispatchReturn(o) ==
    /\ dispatch[o].n > 0 /\ dispatch[o].todo = {}
    /\ dispatch' = [dispatch EXCEPT ![o] = NoCall]
    /\ UNCHANGED <<phase, index, count, sends, writing, close, snapshot, answer, positions,
                   client, requests>>

-----------------------------------------------------------------------------

readLoop(c) ==
    \/ SubscribeAll(c) \/ OnlyAnswer(c)
    \/ \E ids \in Requests : Subscribe(c, ids) \/ Unsubscribe(c, ids)
    \/ ClientLeaves(c)

cleanup(c) == Answer(c) \/ ReadFails(c) \/ RemoveAll(c) \/ RemoveConnection(c)
                  \/ CloseChannel(c) \/ CloseSocket(c)

dispatching(o) == (\E t \in dispatch[o].todo : DispatchSend(o, t)) \/ DispatchReturn(o)

Next ==
    \/ \E c \in Conns : HandleConnection(c) \/ readLoop(c) \/ cleanup(c) \/ Write(c)
                            \/ WriterStop(c) \/ SnapshotStart(c) \/ sendInitialPositions(c)
    \/ \E o \in Orgs : dispatching(o) \/ \E v \in Vehicles : Dispatch(o, v)

Spec == Init /\ [][Next]_vars

\* Runnable goroutines run, and a read on a closed socket returns.  Nothing is
\* assumed of clients, of what they ask for, or of a write.
FairSpec ==
    /\ Spec
    /\ \A c \in Conns : WF_vars(cleanup(c))
    /\ \A o \in Orgs : WF_vars(dispatching(o))
=============================================================================
