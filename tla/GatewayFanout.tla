------------------------------ MODULE GatewayFanout ------------------------------
(***************************************************************************)
(* The StreamDispatchers of the websocket-gateway replicas: one reader per  *)
(* org and replica, all of them consumers of one group of gps:realtime:org, *)
(* which the mqtt-consumers trim.  Dispatch is one step here, and either way *)
(* to subscribe is to all vehicles of the client's org (GatewayClients has  *)
(* the index and the connections).                                          *)
(***************************************************************************)
EXTENDS Integers, Sequences

CONSTANTS
    Gateways, Clients, Orgs,
    OrgOf,        \* org of each client
    Asked,        \* subscriptions the clients ask for: pairs <<client, way>>
    MaxLen,       \* MAXLEN of the XADD
    Malformed,    \* entries parsePositionUpdate rejects
    Batch,        \* Count of the XREADGROUP
    MaxEntries, MaxFaults   \* bounds

Nowhere == "nowhere"
NoGroup == -1

ASSUME FanoutConstants ==
    /\ Nowhere \notin Gateways /\ OrgOf \in [Clients -> Orgs]
    /\ Batch \in Nat \ {0} /\ MaxEntries \in Nat /\ MaxFaults \in Nat
    /\ Malformed \subseteq 1..MaxEntries /\ MaxLen \in Nat \ {0}
    /\ Asked \subseteq Clients \X {"vehicle", "all"}

VARIABLES
    alive,        \* running replicas
    server,       \* replica a client is connected to, or Nowhere
    subscribed,   \* pairs in their replica's VehicleIndex: byVehicle, byOrgAll
    published,    \* entries added to each org's stream
    trimmed,      \* the first of them, which it no longer has
    group,        \* entries its group has delivered, or NoGroup
    origin,       \* history: entries there were when the group was created
    pending,      \* entries delivered and not acknowledged
    reader,       \* readOrgStream per replica, org: "none", "creating", "reading", "stopped"
    hand,         \* entries it still has to dispatch
    since,        \* history: entries there were at the time of the subscription
    offered,      \* history: entries Send was called with for each subscription
    again,        \* history: <<subscription, entry>> where it was called once more
    missed,       \* history: entries that left Redis for a process that lost them
    cut,          \* history: entries trimmed before the group had read them
    faults

clients == <<server, subscribed, since, offered, again>>
redis == <<published, trimmed, group, origin, pending, cut>>
readers == <<reader, hand>>
fanoutVars == <<alive, clients, redis, readers, missed, faults>>

FanoutInit ==
    /\ alive = Gateways
    /\ server = [c \in Clients |-> Nowhere] /\ subscribed = {}
    /\ published = [o \in Orgs |-> 0] /\ trimmed = [o \in Orgs |-> 0]
    /\ group = [o \in Orgs |-> NoGroup]
    /\ origin = [o \in Orgs |-> 0] /\ pending = [o \in Orgs |-> {}]
    /\ reader = [g \in Gateways |-> [o \in Orgs |-> "none"]]
    /\ hand = [g \in Gateways |-> [o \in Orgs |-> <<>>]]
    /\ since = [s \in Asked |-> 0] /\ offered = [s \in Asked |-> {}] /\ again = {}
    /\ missed = [o \in Orgs |-> {}] /\ cut = [o \in Orgs |-> {}] /\ faults = 0

Fault == faults < MaxFaults /\ faults' = faults + 1

\* XADD of an mqtt-consumer.  MAXLEN ~ trims what it likes of the entries before the
\* last MaxLen, whether a reader has got them or not.
Publish(o) ==
    /\ published[o] < MaxEntries /\ published' = [published EXCEPT ![o] = @ + 1]
    /\ \E t \in trimmed[o]..published[o] :
          /\ t = trimmed[o] \/ t + MaxLen <= published[o] + 1
          /\ trimmed' = [trimmed EXCEPT ![o] = t]
          /\ cut' = [cut EXCEPT ![o] = @ \cup {n \in 1..t : n > group[o]}]
    /\ UNCHANGED <<alive, clients, group, origin, pending, readers, missed, faults>>

\* HandleConnection: EnsureOrg starts a reader unless the org has one.
EnsureOrg(g, o) ==
    reader' = IF reader[g][o] = "none" THEN [reader EXCEPT ![g][o] = "creating"] ELSE reader

Connect(c, g) ==
    /\ server[c] = Nowhere /\ g \in alive
    /\ server' = [server EXCEPT ![c] = g] /\ EnsureOrg(g, OrgOf[c])
    /\ UNCHANGED <<alive, subscribed, since, offered, again, redis, hand, missed, faults>>

\* Subscribe or SubscribeAll.
Subscribe(s) ==
    /\ server[s[1]] # Nowhere /\ s \notin subscribed
    /\ subscribed' = subscribed \cup {s}
    /\ since' = [since EXCEPT ![s] = published[OrgOf[s[1]]]]
    /\ UNCHANGED <<alive, server, offered, again, redis, readers, missed, faults>>

\* Only what is subscribed has a time of subscription.
Forget == since' = [s \in Asked |-> IF s \in subscribed' THEN since[s] ELSE 0]

\* removeConnection: the reader of the org goes on (nothing calls StopOrg).
Leave(c) ==
    /\ server[c] # Nowhere
    /\ server' = [server EXCEPT ![c] = Nowhere]
    /\ subscribed' = {s \in subscribed : s[1] # c} /\ Forget
    /\ UNCHANGED <<alive, offered, again, redis, readers, missed, faults>>

\* Mutant: BUSYGROUP ends the reader like any other error would.
CreateGroupReturns(g, o) ==
    /\ reader[g][o] = "creating"
    /\ IF group[o] # NoGroup THEN UNCHANGED <<group, origin>>
       ELSE /\ group' = [group EXCEPT ![o] = published[o]]
            /\ origin' = [origin EXCEPT ![o] = published[o]]
    /\ reader' = [reader EXCEPT ![g][o] = IF group[o] = NoGroup THEN "reading" ELSE "stopped"]
    /\ UNCHANGED <<alive, clients, published, trimmed, cut, pending, hand, missed>>

\* Mutant: the reader begins with the oldest entry that is not acknowledged.
CreateGroupRereads(g, o) ==
    /\ reader[g][o] = "creating"
    /\ IF group[o] # NoGroup THEN UNCHANGED <<group, origin>>
       ELSE /\ group' = [group EXCEPT ![o] = published[o]]
            /\ origin' = [origin EXCEPT ![o] = published[o]]
    /\ reader' = [reader EXCEPT ![g][o] = "reading"]
    /\ \/ pending[o] = {} /\ UNCHANGED hand
       \/ \E n \in pending[o] : /\ \A m \in pending[o] : n <= m
                               /\ hand' = [hand EXCEPT ![g][o] = <<n>>]
    /\ UNCHANGED <<alive, clients, published, trimmed, cut, pending, missed>>

\* XGroupCreateMkStream at "$": no change when the group exists (BUSYGROUP).
CreateGroup(g, o) ==
    /\ reader[g][o] = "creating"
    /\ IF group[o] # NoGroup THEN UNCHANGED <<group, origin>>
       ELSE /\ group' = [group EXCEPT ![o] = published[o]]
            /\ origin' = [origin EXCEPT ![o] = published[o]]
    /\ reader' = [reader EXCEPT ![g][o] = "reading"]
    /\ UNCHANGED <<alive, clients, published, trimmed, cut, pending, hand, missed>>

\* Any other error is logged and the reader goes on to its loop.
CreateGroupFails(g, o) ==
    /\ Fault /\ reader[g][o] = "creating"
    /\ reader' = [reader EXCEPT ![g][o] = "reading"]
    /\ UNCHANGED <<alive, clients, redis, hand, missed>>

\* XREADGROUP with ">" hands out entries never delivered to the group, of those the
\* stream still has.  Without a group (NOGROUP), or on another error, the reader waits
\* and tries again.
Before(o) == IF trimmed[o] > group[o] THEN trimmed[o] ELSE group[o]
Delivered(o, k) ==
    /\ group[o] # NoGroup /\ Before(o) + k <= published[o]
    /\ group' = [group EXCEPT ![o] = Before(o) + k]
    /\ pending' = [pending EXCEPT ![o] = @ \cup (Before(o) + 1 .. Before(o) + k)]

Idle(g, o) == reader[g][o] = "reading" /\ hand[g][o] = <<>>

Read(g, o) ==
    /\ Idle(g, o)
    /\ \E k \in 1..Batch :
          /\ Delivered(o, k)
          /\ hand' = [hand EXCEPT ![g][o] = [i \in 1..k |-> Before(o) + i]]
    /\ UNCHANGED <<alive, clients, published, trimmed, cut, origin, reader, missed, faults>>

\* The answer does not arrive; the entries are never asked for again.
ReadLost(g, o) ==
    /\ Fault /\ Idle(g, o)
    /\ \E k \in 1..Batch :
          /\ Delivered(o, k)
          /\ missed' = [missed EXCEPT ![o] = @ \cup (Before(o) + 1 .. Before(o) + k)]
    /\ UNCHANGED <<alive, clients, published, trimmed, cut, origin, readers>>

\* Mutant: one consumer of the group per connection, so one connection is reached.
ListenersOne(g, o) ==
    LET all == {s \in subscribed : server[s[1]] = g /\ OrgOf[s[1]] = o}
    IN  IF all = {} THEN {} ELSE {CHOOSE s \in all : TRUE}

Listeners(g, o) == {s \in subscribed : server[s[1]] = g /\ OrgOf[s[1]] = o}

\* Parse, Dispatch to the org's subscribers on this replica, once for each way they
\* are subscribed, XACK; the error of the XACK is discarded.
Offer(g, o, acked) ==
    /\ hand[g][o] # <<>>
    /\ LET n == Head(hand[g][o])
           to == IF n \in Malformed THEN {} ELSE Listeners(g, o)
       IN  /\ offered' = [s \in Asked |-> IF s \in to THEN offered[s] \cup {n} ELSE offered[s]]
           /\ again' = again \cup {<<s, n>> : s \in {t \in to : n \in offered[t]}}
           /\ pending' = IF acked THEN [pending EXCEPT ![o] = @ \ {n}] ELSE pending
    /\ hand' = [hand EXCEPT ![g][o] = Tail(@)]
    /\ UNCHANGED <<alive, server, subscribed, since, published, trimmed, cut, group, origin,
                   reader, missed>>

HandleEntry(g, o) == Offer(g, o, TRUE) /\ UNCHANGED faults
AckFails(g, o) == Offer(g, o, FALSE) /\ Fault

\* Shutdown or a crash: its connections and readers end with the process.
Exit(g) ==
    /\ Fault /\ g \in alive /\ alive' = alive \ {g}
    /\ server' = [c \in Clients |-> IF server[c] = g THEN Nowhere ELSE server[c]]
    /\ subscribed' = {s \in subscribed : server[s[1]] # g} /\ Forget
    /\ reader' = [reader EXCEPT ![g] = [o \in Orgs |-> "none"]]
    /\ hand' = [hand EXCEPT ![g] = [o \in Orgs |-> <<>>]]
    /\ missed' = [o \in Orgs |-> missed[o] \cup {hand[g][o][i] : i \in 1..Len(hand[g][o])}]
    /\ UNCHANGED <<offered, again, redis>>

\* The orchestrator restarts it.
Restart(g) ==
    /\ g \notin alive /\ alive' = alive \cup {g}
    /\ UNCHANGED <<clients, redis, readers, missed, faults>>

Creates(g, o) == CreateGroup(g, o) /\ UNCHANGED faults

FanoutNext ==
    \/ \E o \in Orgs : Publish(o)
    \/ \E s \in Asked : Subscribe(s)
    \/ \E c \in Clients : Leave(c) \/ \E g \in Gateways : Connect(c, g)
    \/ \E g \in Gateways : Exit(g) \/ Restart(g)
    \/ \E g \in Gateways, o \in Orgs :
          \/ Creates(g, o) \/ CreateGroupFails(g, o)
          \/ Read(g, o) \/ ReadLost(g, o)
          \/ HandleEntry(g, o) \/ AckFails(g, o)

FanoutSpec == FanoutInit /\ [][FanoutNext]_fanoutVars

\* The readers run, and Redis answers them again after its last fault.
FairFanout ==
    /\ FanoutSpec
    /\ \A g \in Gateways, o \in Orgs :
          /\ WF_fanoutVars(Creates(g, o)) /\ WF_fanoutVars(Read(g, o))
          /\ WF_fanoutVars(HandleEntry(g, o))

-----------------------------------------------------------------------------

(* A position reaches every subscription to it: of the entries the group has *)
(* gone past since then, none was let go without offering it, faults aside,  *)
(* unless the stream lost it before it was read (those from before the       *)
(* creation of the group are never delivered).  With one replica it holds;   *)
(* with two it would be main.go's "correct multi-replica fanout".            *)
InHand(g, o) == {hand[g][o][i] : i \in 1..Len(hand[g][o])}
FanoutReachesAll ==
    \A s \in subscribed :
        LET o == OrgOf[s[1]]
        IN  \A n \in since[s] + 1 .. group[o] : n > origin[o] =>
                n \in offered[s] \cup InHand(server[s[1]], o) \cup missed[o] \cup cut[o]
                                \cup Malformed

(* A client is sent an entry at most once for each way it is subscribed, over *)
(* all its connections to any replica, although entries stay unacknowledged  *)
(* when an XACK or a replica fails and a restarted replica reads again.      *)
OfferedOnce == again = {}

(* An entry published to an existing group after a subscription is offered   *)
(* to it, unless the client leaves, a fault loses the entry, or the readers  *)
(* lag so far behind that the stream is trimmed before they get to it.       *)
EveryoneServed ==
    \A s \in Asked, n \in 1..MaxEntries :
        LET o == OrgOf[s[1]]
        IN  (s \in subscribed /\ since[s] < n /\ n <= published[o] /\ group[o] \in 0..(n - 1))
                ~> \/ s \notin subscribed
                   \/ n \in offered[s] \cup missed[o] \cup cut[o] \cup Malformed
=============================================================================
