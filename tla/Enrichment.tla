------------------------------- MODULE Enrichment -------------------------------
(***************************************************************************)
(* What the workers of the mqtt-consumer replicas do with a parsed message: *)
(* enrichEvent under the striped lock of their process, the movement filter,*)
(* the writes to the two streams after the lock was released.  The topics   *)
(* are subscribed to without a shared group, so every replica gets every    *)
(* message; the last state of a vehicle, in Redis, is common to them all.   *)
(***************************************************************************)
EXTENDS Integers

CONSTANTS
    Replicas,       \* mqtt-consumer processes
    Workers,        \* their worker goroutines
    ReplicaOf,      \* the process of each worker
    First,          \* the first message a replica gets, from when it subscribed
    Vehicles,
    Stripes, stripe,  \* the locks of a process, and the hash of a vehicle
    MaxMessages,    \* bound: messages published
    Feeds,          \* what may be published: the messages in their order
    MinDistance, MinTime,  \* MovementFilter
    MaxFaults,      \* bound: calls of Redis that fail, states that expire
    None, Failed    \* an empty hash; the answer of a read that failed

Published == 1..MaxMessages
Message == [vehicle : Vehicles, pos : Int, time : Int, critical : BOOLEAN]

ASSUME EnrichmentConstants ==
    /\ ReplicaOf \in [Workers -> Replicas]
    /\ First \in [Replicas -> Nat \ {0}]
    /\ stripe \in [Vehicles -> Stripes]
    /\ MaxMessages \in Nat /\ Feeds \subseteq [Published -> Message]
    /\ MinDistance \in Nat \ {0} /\ MinTime \in Nat \ {0}
    /\ MaxFaults \in Nat /\ None \notin Workers

VARIABLES
    feed,      \* one of Feeds
    next,      \* next[r]: the message replica r takes next from its channel
    holder,    \* holder[r][s]: the worker that holds stripe s of replica r
    at, msg,   \* per worker: position, message in hand
    seen,      \* per worker: the state it read
    state,     \* Redis: the message that left the state of a vehicle, and the replica
    late,      \* writes that timed out here and are not yet applied there
    realtime, batch,  \* copies <<replica, message>> in the streams
    buffered,  \* in the back-pressure buffer, which WorkerPool follows
    counted, logged,  \* history: copies whose XADD to gps:batch failed, of filtered events
                      \* (batch_stream_errors) and of broadcast ones (a log line)
    owed,      \* history: copies that moved far enough from the state they replaced
    faults

worker == <<at, msg, seen>>
streams == <<realtime, batch, buffered, counted, logged>>
vars == <<feed, next, holder, worker, state, late, streams, owed, faults>>

\* A state of a vehicle: the message, whose write it was, whether it came late.
State == [m : Published, by : Replicas, late : BOOLEAN]
Nobody == None
Positions == {"idle", "lock", "read", "store", "filtered", "realtime", "batch"}

Init ==
    /\ feed \in Feeds
    /\ next = First
    /\ holder = [r \in Replicas |-> [s \in Stripes |-> Nobody]]
    /\ at = [w \in Workers |-> "idle"]
    /\ msg = [w \in Workers |-> 1]
    /\ seen = [w \in Workers |-> None]
    /\ state = [v \in Vehicles |-> None]
    /\ late = {}
    /\ realtime = {} /\ batch = {} /\ buffered = {} /\ counted = {} /\ logged = {} /\ owed = {}
    /\ faults = 0

Goto(w, place) == at' = [at EXCEPT ![w] = place]
Fault == faults < MaxFaults /\ faults' = faults + 1
vehicle(w) == feed[msg[w]].vehicle
copy(w) == <<ReplicaOf[w], msg[w]>>

\* DistanceFromLast and TimeSinceLast of message m against an earlier one.
distance(l, m) == LET d == feed[m].pos - feed[l].pos IN IF d < 0 THEN -d ELSE d
Moved(l, m) == \/ distance(l, m) >= MinDistance
               \/ feed[m].time - feed[l].time >= MinTime

-----------------------------------------------------------------------------
(* processWorker *)

\* <-p.inputChannel
Take(w) ==
    /\ at[w] = "idle" /\ next[ReplicaOf[w]] <= MaxMessages
    /\ msg' = [msg EXCEPT ![w] = next[ReplicaOf[w]]]
    /\ next' = [next EXCEPT ![ReplicaOf[w]] = @ + 1]
    /\ Goto(w, "lock")
    /\ UNCHANGED <<feed, holder, seen, state, late, streams, owed, faults>>

\* Mutant: the lock is not waited for.
LockAlways(w) ==
    /\ at[w] = "lock"
    /\ holder' = [holder EXCEPT ![ReplicaOf[w]][stripe[vehicle(w)]] = w]
    /\ Goto(w, "read")
    /\ UNCHANGED <<feed, next, msg, seen, state, late, streams, owed, faults>>

\* p.stripedLock.Lock(event.VehicleID)
Lock(w) ==
    /\ at[w] = "lock" /\ holder[ReplicaOf[w]][stripe[vehicle(w)]] = Nobody
    /\ holder' = [holder EXCEPT ![ReplicaOf[w]][stripe[vehicle(w)]] = w]
    /\ Goto(w, "read")
    /\ UNCHANGED <<feed, next, msg, seen, state, late, streams, owed, faults>>

\* The read pipeline of enrichEvent, whose error is discarded.
Read(w) ==
    /\ at[w] = "read" /\ Goto(w, "store")
    /\ \/ seen' = [seen EXCEPT ![w] = state[vehicle(w)]] /\ UNCHANGED faults
       \/ seen' = [seen EXCEPT ![w] = Failed] /\ Fault
    /\ UNCHANGED <<feed, next, holder, msg, state, late, streams, owed>>

\* Without a last state distance and time stay 0, below any threshold.
Known(w) == seen[w] \notin {None, Failed}

\* Mutant: both thresholds must be passed.
ShouldBroadcastBoth(w) ==
    Known(w) /\ distance(seen[w].m, msg[w]) >= MinDistance
             /\ feed[msg[w]].time - feed[seen[w].m].time >= MinTime

shouldBroadcast(w) == Known(w) /\ Moved(seen[w].m, msg[w])
isCriticalEvent(w) == feed[msg[w]].critical

Own(w) == [m |-> msg[w], by |-> ReplicaOf[w], late |-> FALSE]

\* The write pipeline: HSET and EXPIRE, errors discarded.  A call that timed out
\* was applied, or never is, or will be when the lock is no longer held.
WriteState(w) ==
    \/ state' = [state EXCEPT ![vehicle(w)] = Own(w)] /\ UNCHANGED <<late, faults>>
    \/ Fault /\ late' = late /\ state' \in {state, [state EXCEPT ![vehicle(w)] = Own(w)]}
    \/ Fault /\ late' = late \cup {[Own(w) EXCEPT !.late = TRUE]} /\ state' = state

\* The copy has to be shown, by the state it replaces and not the one it read.
MustShow(w) == LET l == state[vehicle(w)] IN
    /\ seen[w] # Failed /\ l # None
    /\ l.by = ReplicaOf[w] /\ ~l.late
    /\ Moved(l.m, msg[w])

\* Mutant: enrichEvent returns an error, and the caller leaves without unlocking.
UnlockOnSuccess(w) ==
    holder' = IF faults' = faults THEN [holder EXCEPT ![ReplicaOf[w]][stripe[vehicle(w)]] = Nobody]
              ELSE holder

\* p.stripedLock.Unlock(event.VehicleID)
Unlock(w) == holder' = [holder EXCEPT ![ReplicaOf[w]][stripe[vehicle(w)]] = Nobody]

\* Mutant: a filtered event is finished with.
RouteDropped(w) == Goto(w, IF shouldBroadcast(w) \/ isCriticalEvent(w) THEN "realtime" ELSE "idle")

\* A filtered event goes to the batch stream only.
Route(w) == Goto(w, IF shouldBroadcast(w) \/ isCriticalEvent(w) THEN "realtime" ELSE "filtered")

Store(w) ==
    /\ at[w] = "store"
    /\ WriteState(w) /\ Unlock(w) /\ Route(w)
    /\ owed' = IF MustShow(w) THEN owed \cup {copy(w)} ELSE owed
    /\ UNCHANGED <<feed, next, msg, seen, streams>>

\* writeToRedisStreams: XADD gps:realtime, where an error (the entry added or not)
\* sends the event to the buffer ...
AddRealtime(w) ==
    /\ at[w] = "realtime"
    /\ \/ /\ realtime' = realtime \cup {copy(w)} /\ Goto(w, "batch")
          /\ UNCHANGED <<buffered, faults>>
       \/ /\ Fault /\ realtime' \in {realtime, realtime \cup {copy(w)}}
          /\ buffered' = buffered \cup {copy(w)} /\ Goto(w, "idle")
    /\ UNCHANGED <<feed, next, holder, msg, seen, state, late, batch, counted, logged, owed>>

\* XADD gps:batch; one that failed may have been applied.
Added(w) == batch' = batch \cup {copy(w)} /\ UNCHANGED faults
AddFails(w) == Fault /\ batch' \in {batch, batch \cup {copy(w)}}

\* ... then XADD gps:batch, whose error is only logged.
AddBatch(w) ==
    /\ at[w] = "batch" /\ Goto(w, "idle")
    /\ \/ Added(w) /\ logged' = logged
       \/ AddFails(w) /\ logged' = logged \cup {copy(w)}
    /\ UNCHANGED <<feed, next, holder, msg, seen, state, late, realtime, buffered, counted, owed>>

\* The only write of a filtered event, whose error is counted.
AddFiltered(w) ==
    /\ at[w] = "filtered" /\ Goto(w, "idle")
    /\ \/ Added(w) /\ counted' = counted
       \/ AddFails(w) /\ counted' = counted \cup {copy(w)}
    /\ UNCHANGED <<feed, next, holder, msg, seen, state, late, realtime, buffered, logged, owed>>

-----------------------------------------------------------------------------
(* Redis *)

\* A write that its caller gave up arrives.
ApplyLate == \E l \in late :
    /\ late' = late \ {l}
    /\ state' = [state EXCEPT ![feed[l.m].vehicle] = l]
    /\ UNCHANGED <<feed, next, holder, worker, streams, owed, faults>>

\* The 30 s of a vehicle that sent nothing are over.
Expire(v) ==
    /\ Fault /\ state[v] # None /\ state' = [state EXCEPT ![v] = None]
    /\ UNCHANGED <<feed, next, holder, worker, late, streams, owed>>

Enrich(w) == Lock(w) \/ Read(w) \/ Store(w)
Write(w) == AddRealtime(w) \/ AddBatch(w) \/ AddFiltered(w)

Next == \/ \E w \in Workers : Take(w) \/ Enrich(w) \/ Write(w)
        \/ ApplyLate \/ \E v \in Vehicles : Expire(v)

\* A Go mutex is handed to the longest waiter, so Lock is strongly fair.
Fairness == \A w \in Workers : /\ WF_vars(Take(w) \/ Read(w) \/ Store(w) \/ Write(w))
                               /\ SF_vars(Lock(w))

Spec == Init /\ [][Next]_vars /\ Fairness

-----------------------------------------------------------------------------

InHand == {copy(w) : w \in {u \in Workers : at[u] # "idle"}}

(* main.go:470 "so two workers can't both read stale state, compute wrong       *)
(* distance": when the message of a worker is far from the state it replaces    *)
(* in Redis, the message is on its way to the clients, was shown or waits in the*)
(* buffer.  Exempt are the steps that no lock of this process can order: a      *)
(* failed read, an expired or late state, the state another replica left.       *)
BigMovesSeen == owed \subseteq realtime \cup buffered \cup
                    {copy(w) : w \in {u \in Workers : at[u] = "realtime"}}

(* env.example: filtered events "still go to the batch stream for persistence": *)
(* every copy a worker has finished with is there or in the buffer, or its XADD *)
(* failed, of every replica's copy of a message.  batch_stream_errors tells of  *)
(* such a failure only when no client saw the copy; a copy that is in the       *)
(* realtime stream and missing from the batch stream leaves but a log line.     *)
EveryDeliveryKept ==
    /\ \A r \in Replicas, m \in Published :
          First[r] <= m /\ m < next[r] =>
              <<r, m>> \in batch \cup buffered \cup counted \cup logged \cup InHand
    /\ logged \subseteq realtime /\ counted \cap realtime = {}

(* However stripes are shared, whatever calls fail: every worker gets the lock  *)
(* it waits for and every message is dealt with.                                *)
EveryoneGetsThrough == <>(InHand = {} /\ \A r \in Replicas : next[r] > MaxMessages)
=============================================================================
