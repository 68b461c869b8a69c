------------------------------- MODULE PoolScaling -------------------------------
(***************************************************************************)
(* ServicePool.ScaleTo and addReplica, called by the autoscaler goroutine   *)
(* and by the handlers of POST /scale, and the processes of the replicas as *)
(* far as their ports go.  sp.mu protects each access to the slice          *)
(* sp.instances and not the whole of ScaleTo, so two calls interleave       *)
(* between its critical sections.  AutoScaler makes it a specification.     *)
(*                                                                          *)
(* The slice is modelled as Go has it: a backing array with a capacity and  *)
(* a length.  toStop := sp.instances[n:] shares that array, which a later   *)
(* append writes to.                                                        *)
(***************************************************************************)
EXTENDS Integers, Sequences, FiniteSets

CONSTANTS
    Callers,       \* goroutines that call ScaleTo on this pool
    Scaler,        \* the autoscaler among them: its panic ends the orchestrator
    MinReplicas, MaxReplicas,
    MaxUnderWay,   \* bound: calls of ScaleTo under way at a time
    MaxFaults      \* bound: spawns that fail

ASSUME ScalingConstants ==
    /\ Scaler \in Callers
    /\ MinReplicas \in Nat \ {0} /\ MaxReplicas \in Nat
    /\ MinReplicas <= MaxReplicas /\ MaxReplicas <= 256
    /\ MaxUnderWay \in Nat \ {0} /\ MaxFaults \in Nat

VARIABLES
    arrays,   \* the backing arrays allocated so far; 0 is a nil pointer
    cur, len, \* sp.instances: its array and its length
    replica,  \* replica[i]: replica index (port offset) of the i-th process spawned
    process,  \* process[i]: "starting", "bound" to its port, "deaf" without it, "dead"
    cancelled,  \* instances whose cancelFn was called: their processes are killed
    held,     \* sp.mu is held for ever by a caller that panicked
    dead,     \* the orchestrator itself panicked
    pc, target, todo, index, \* per caller: position, n, replicas to add, len read
    stops,    \* per caller: toStop as <<array, next, last>>
    overwritten, \* history: <<old, new>> where append put new into an entry of a toStop
    overlapped,  \* history: two calls were under way at a time
    faults

poolVars == <<arrays, cur, len, replica>>
lockVars == <<held, dead>>
historyVars == <<overwritten, overlapped>>
scalingVars == <<poolVars, process, cancelled, lockVars, pc, target, todo, index, stops,
                 historyVars, faults>>

clamp(v, min, max) == IF v < min THEN min ELSE IF v > max THEN max ELSE v

InPool == {arrays[cur][k] : k \in 1..len}
Spawned == 1..Len(replica)

\* Go's append doubles a full array of up to 256 elements: the capacity of a slice
\* built by k appends.
CapFor(k) == CHOOSE c \in {1, 2, 4, 8, 16, 32, 64, 128, 256} : c >= k /\ c < 2 * k

\* ServicePool.Start has added MinReplicas replicas, before any other caller.
ScalingInit ==
    /\ arrays = << [k \in 1..CapFor(MinReplicas) |-> IF k <= MinReplicas THEN k ELSE 0] >>
    /\ cur = 1 /\ len = MinReplicas
    /\ replica = [k \in 1..MinReplicas |-> k - 1]
    /\ process = [k \in 1..MinReplicas |-> "bound"] /\ cancelled = {}
    /\ held = FALSE /\ dead = FALSE
    /\ pc = [c \in Callers |-> "idle"]
    /\ target = [c \in Callers |-> 0] /\ todo = [c \in Callers |-> 0]
    /\ index = [c \in Callers |-> 0]
    /\ stops = [c \in Callers |-> <<1, 1, 0>>]
    /\ overwritten = {} /\ overlapped = FALSE
    /\ faults = 0

CanLock == ~held /\ ~dead
Goto(c, p) == pc' = [pc EXCEPT ![c] = p]

UnderWay == {d \in Callers : pc[d] # "idle"}

\* ScaleTo(n): the request is clamped first.
ScaleTo(c, n) ==
    /\ pc[c] = "idle" /\ ~dead
    /\ Cardinality(UnderWay) < MaxUnderWay
    /\ target' = [target EXCEPT ![c] = clamp(n, MinReplicas, MaxReplicas)]
    /\ overlapped' = (overlapped \/ UnderWay # {})
    /\ Goto(c, "size")
    /\ UNCHANGED <<poolVars, process, cancelled, lockVars, todo, index, stops, overwritten, faults>>

\* current := len(sp.instances), under RLock.
ReadSize(c) ==
    /\ pc[c] = "size" /\ CanLock
    /\ \/ target[c] = len /\ Goto(c, "idle") /\ todo' = todo
       \/ target[c] > len /\ Goto(c, "add") /\ todo' = [todo EXCEPT ![c] = target[c] - len]
       \/ target[c] < len /\ Goto(c, "cut") /\ todo' = todo
    /\ UNCHANGED <<poolVars, process, cancelled, lockVars, target, index, stops, historyVars, faults>>

\* addReplica reads its replica index under the lock ...
ReadIndex(c) ==
    /\ pc[c] = "add" /\ CanLock
    /\ index' = [index EXCEPT ![c] = len]
    /\ Goto(c, "spawn")
    /\ UNCHANGED <<poolVars, process, cancelled, lockVars, target, todo, stops, historyVars, faults>>

\* The next entry of the array belongs to what some call has yet to stop.
Awaited == \E d \in Callers : /\ pc[d] = "stop" /\ stops[d][1] = cur
                             /\ len + 1 \in stops[d][2]..stops[d][3]

\* append(sp.instances, inst), in place while the capacity allows.
AppendInstance(i) ==
    /\ len' = len + 1
    /\ IF len < Len(arrays[cur])
       THEN /\ arrays' = [arrays EXCEPT ![cur][len + 1] = i]
            /\ cur' = cur
            /\ overwritten' = IF Awaited THEN overwritten \cup {<<arrays[cur][len + 1], i>>}
                              ELSE overwritten
       ELSE /\ arrays' = Append(arrays, [k \in 1..2 * len |->
                             IF k <= len THEN arrays[cur][k] ELSE IF k = len + 1 THEN i ELSE 0])
            /\ cur' = Len(arrays) + 1 /\ overwritten' = overwritten

NextAdd(c) == /\ todo' = [todo EXCEPT ![c] = @ - 1]
              /\ Goto(c, IF todo[c] = 1 THEN "idle" ELSE "add")

\* ... spawns the process with it, and appends the instance; a failed spawn is
\* logged and the loop goes on.
SpawnAppend(c) ==
    /\ pc[c] = "spawn" /\ CanLock
    /\ NextAdd(c)
    /\ \/ /\ replica' = Append(replica, index[c])
          /\ AppendInstance(Len(replica) + 1)
          /\ process' = Append(process, "starting") /\ faults' = faults
       \/ /\ faults < MaxFaults /\ faults' = faults + 1
          /\ UNCHANGED <<poolVars, process, overwritten>>
    /\ UNCHANGED <<cancelled, lockVars, target, index, stops, overlapped>>

\* Mutant: toStop := sp.instances[n+1:].
CutOneLess(c) ==
    /\ pc[c] = "cut" /\ CanLock /\ target[c] <= len
    /\ stops' = [stops EXCEPT ![c] = <<cur, target[c] + 2, len>>]
    /\ len' = target[c]
    /\ Goto(c, "stop")
    /\ UNCHANGED <<arrays, cur, replica, process, cancelled, lockVars, target, todo, index, historyVars, faults>>

\* toStop := sp.instances[n:]; sp.instances = sp.instances[:n].  Go panics when
\* n exceeds the length; there is no deferred Unlock.  net/http recovers a
\* panic of a handler, nothing recovers one of the autoscaler.
Cut(c) ==
    /\ pc[c] = "cut" /\ CanLock
    /\ \/ /\ target[c] <= len
          /\ stops' = [stops EXCEPT ![c] = <<cur, target[c] + 1, len>>]
          /\ len' = target[c]
          /\ Goto(c, "stop")
          /\ UNCHANGED lockVars
       \/ /\ target[c] > len
          /\ held' = TRUE /\ dead' = (c = Scaler)
          /\ Goto(c, "panicked")
          /\ UNCHANGED <<stops, len>>
    /\ UNCHANGED <<arrays, cur, replica, process, cancelled, target, todo, index, historyVars, faults>>

\* for _, inst := range toStop: cancel the instance the array holds by now.
StopNext(c) ==
    /\ pc[c] = "stop" /\ ~dead
    /\ LET next == stops[c][2]  last == stops[c][3] IN
       \/ /\ next <= last
          /\ cancelled' = cancelled \cup {arrays[stops[c][1]][next]}
          /\ stops' = [stops EXCEPT ![c][2] = next + 1]
          /\ pc' = pc
       \/ /\ next > last
          /\ Goto(c, "idle")
          /\ UNCHANGED <<cancelled, stops>>
    /\ UNCHANGED <<poolVars, process, lockVars, target, todo, index, historyVars, faults>>

Call(c) == ReadSize(c) \/ ReadIndex(c) \/ SpawnAppend(c) \/ Cut(c) \/ StopNext(c)

-----------------------------------------------------------------------------
(* The processes of an mqtt-consumer pool and their ports                     *)

Holders(k) == {i \in Spawned : replica[i] = k /\ process[i] = "bound"}

\* ListenAndServe fails on a port that another process holds, which is only logged.
Bind(i) ==
    /\ process[i] = "starting" /\ i \notin cancelled
    /\ process' = [process EXCEPT ![i] = IF Holders(replica[i]) = {} THEN "bound" ELSE "deaf"]
    /\ UNCHANGED <<poolVars, cancelled, lockVars, pc, target, todo, index, stops, historyVars, faults>>

\* exec.CommandContext kills the process of a cancelled instance.
Killed(i) ==
    /\ i \in cancelled /\ process[i] # "dead"
    /\ process' = [process EXCEPT ![i] = "dead"]
    /\ UNCHANGED <<poolVars, cancelled, lockVars, pc, target, todo, index, stops, historyVars, faults>>

\* checkHealth asks a port, whoever holds it: only when nobody does the checks fail,
\* the process is told to end and watchProcess spawns it again.
Restarted(i) ==
    /\ process[i] = "deaf" /\ i \in InPool /\ i \notin cancelled
    /\ Holders(replica[i]) = {} /\ ~held /\ ~dead
    /\ process' = [process EXCEPT ![i] = "starting"]
    /\ UNCHANGED <<poolVars, cancelled, lockVars, pc, target, todo, index, stops, historyVars, faults>>

Process(i) == Bind(i) \/ Killed(i) \/ Restarted(i)

-----------------------------------------------------------------------------

(* README.md: "Each replica binds to a unique port (BasePort +               *)
(* replicaIndex)": no two replicas of the pool share an index.               *)
UniqueIndices == \A i, j \in InPool : i # j => replica[i] # replica[j]

(* Entries of toStop a caller has yet to reach. *)
ToStop(c) == IF pc[c] = "stop" THEN {arrays[stops[c][1]][k] : k \in stops[c][2]..stops[c][3]}
             ELSE {}
Doomed == cancelled \cup UNION {ToStop(c) : c \in Callers}

(* Scaling down neither forgets a process (it would run unsupervised by the   *)
(* pool and keep its port) nor stops one that stays in the pool, however the   *)
(* calls of ScaleTo overlap and whatever arrays their slices share: the        *)
(* instances cancelled or about to be are those that left the pool.  The one   *)
(* exception is an append into an entry of toStop that its call has not        *)
(* reached: the instance that was there is forgotten, and the new one stopped  *)
(* in its place.                                                               *)
StopsWhatLeft ==
    /\ Spawned \ InPool \subseteq Doomed \cup {p[1] : p \in overwritten}
    /\ Doomed \subseteq (Spawned \ InPool) \cup {p[2] : p \in overwritten}

(* The index of a stopped replica is given to a new one while the old process   *)
(* may still hold the port, and answers the checks of the new one meanwhile. A   *)
(* port that belongs to the pool is nevertheless held by its own replica in the  *)
(* end (or no longer belongs to the pool), as long as no two calls of ScaleTo    *)
(* were under way together: two replicas may share an index after that.          *)
PortsAreTakenOver ==
    \A k \in 0..MaxReplicas - 1 :
        []<>(k < len /\ ~overlapped => \E i \in InPool : replica[i] = k /\ process[i] = "bound")
=============================================================================
