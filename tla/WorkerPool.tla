------------------------------- MODULE WorkerPool -------------------------------
(***************************************************************************)
(* One mqtt-consumer process: the receive loop, the workers, the local      *)
(* buffer of events whose Redis write failed and the goroutine that flushes *)
(* it.  Workers and flusher share the buffer (its mutex makes Push and      *)
(* Drain atomic) and the degraded flag (an atomic, outside that mutex).     *)
(***************************************************************************)
EXTENDS Naturals, Sequences, FiniteSets

CONSTANTS
    MaxEvents,   \* bound: MQTT messages delivered to this process
    Malformed,   \* those parseMQTTMessage rejects
    Critical,    \* those of a critical event type
    Workers, Flusher,
    DirectWrite, \* there is a ClickHouse connection for critical events
    InputCap,    \* Processing.BufferSize: capacity of inputChannel
    Capacity,    \* LocalBufferSize
    DrainBatch,  \* 200
    MaxFaults    \* bound: failed XADDs

\* An event is its place in the order of arrival.
Events == 1..MaxEvents
Nothing == 0

ASSUME PoolConstants ==
    /\ Malformed \subseteq Events /\ Critical \subseteq Events
    /\ MaxEvents \in Nat
    /\ Flusher \notin Workers /\ DirectWrite \in BOOLEAN
    /\ InputCap \in Nat /\ MaxFaults \in Nat
    /\ Capacity \in Nat \ {0} /\ DrainBatch \in Nat \ {0}

VARIABLES
    life,               \* "up", "stopping" (stopChan is closed) or "down"
    arrived,            \* number of messages the receive loop has got from the client
    input,              \* inputChannel
    normal, critical,   \* BackpressureBuffer
    degraded,
    at, ev, err,        \* per goroutine: position, event in hand, outcome of its write
    todo, requeue,      \* flushBuffer: rest of the drained events, failed ones
    final,              \* it is the flush after stopChan was closed
    realtime,           \* copies of each event in gps:realtime, counted up to 2
    batch,              \* events in gps:batch
    missed,             \* history: events of gps:realtime whose XADD to gps:batch failed, which
                        \* is logged and not counted
    direct,             \* events the workers wrote to ClickHouse
    doubt,              \* history: events whose XADD failed although it was applied
    dropped,            \* history: how the process let go of an event for good
    faults

buffer == <<normal, critical>>
local == <<at, ev, err>>
flush == <<todo, requeue, final>>
redis == <<realtime, batch, missed, doubt, faults>>
vars == <<life, arrived, input, buffer, degraded, local, flush, redis, direct, dropped>>

Procs == Workers \cup {Flusher}
\* A full channel, a malformed message, a failed XADD of a filtered event and a full
\* critical slot have a metric; an eviction and the end of the process leave no trace.
Counted == {"input", "parse", "batch", "slot"}
Silent == {"evicted", "exit"}
Causes == {"no"} \cup Counted \cup Silent

Init ==
    /\ life = "up" /\ arrived = 0 /\ input = <<>>
    /\ normal = <<>> /\ critical = <<>> /\ degraded = FALSE
    /\ at = [p \in Procs |-> "idle"]
    /\ ev = [p \in Procs |-> Nothing]
    /\ err = [p \in Procs |-> FALSE]
    /\ todo = <<>> /\ requeue = <<>> /\ final = FALSE
    /\ realtime = [e \in Events |-> 0] /\ batch = {} /\ missed = {} /\ doubt = {} /\ faults = 0
    /\ direct = {}
    /\ dropped = [e \in Events |-> "no"]

At(p, place) == life # "down" /\ at[p] = place
Goto(p, place) == at' = [at EXCEPT ![p] = place]
Hold(p, e) == ev' = [ev EXCEPT ![p] = e]
Forget(p) == err' = [err EXCEPT ![p] = FALSE]   \* it is local to one write
Drop(e, cause) == dropped' = [dropped EXCEPT ![e] = cause]

-----------------------------------------------------------------------------
(* The receive loop: a full channel drops the message.                       *)

Receive ==
    /\ life # "down" /\ arrived < MaxEvents
    /\ arrived' = arrived + 1
    /\ IF Len(input) < InputCap
       THEN input' = Append(input, arrived + 1) /\ dropped' = dropped
       ELSE Drop(arrived + 1, "input") /\ input' = input
    /\ UNCHANGED <<life, buffer, degraded, local, flush, redis, direct>>

-----------------------------------------------------------------------------
(* timedRedisWrite, run by the workers and by the flusher: the two XADDs, then *)
(* the degraded flag from their latency.  One step, as nothing else in the    *)
(* process reads the streams or sets `err`.                                    *)

AddRealtime(e) == realtime' = [realtime EXCEPT ![e] = IF @ = 2 THEN 2 ELSE @ + 1]

Fault == faults < MaxFaults /\ faults' = faults + 1
AddBatch(e) == batch' = batch \cup {e} /\ faults' = faults
BatchFails(e) == Fault /\ batch' \in {batch, batch \cup {e}}

\* XADD gps:realtime, then gps:batch, whose error is only logged.
Added(p) ==
    /\ AddRealtime(ev[p])
    /\ \/ AddBatch(ev[p]) /\ missed' = missed
       \/ BatchFails(ev[p]) /\ missed' = missed \cup {ev[p]}
    /\ err' = [err EXCEPT ![p] = FALSE]
    /\ doubt' = doubt

\* An error of the first one returns at once; a call that timed out may have been
\* applied.
AddFails(p) ==
    /\ Fault
    /\ err' = [err EXCEPT ![p] = TRUE] /\ UNCHANGED <<batch, missed>>
    /\ \/ UNCHANGED <<realtime, doubt>>
       \/ AddRealtime(ev[p]) /\ doubt' = doubt \cup {ev[p]}

Write(p) ==
    /\ At(p, "write") /\ Goto(p, "written")
    /\ Added(p) \/ AddFails(p)
    /\ degraded' \in BOOLEAN
    /\ UNCHANGED <<life, arrived, input, buffer, ev, flush, direct, dropped>>

-----------------------------------------------------------------------------
(* BackpressureBuffer.  Critical events have half of the capacity for         *)
(* themselves; a normal event pushes out the oldest normal one, unlogged.     *)

\* Mutant: > for >=.
SlotOverfull == Len(critical) > Capacity \div 2

SlotFull == Len(critical) >= Capacity \div 2
Full == Len(normal) + Len(critical) >= Capacity /\ normal # <<>>

Push(e) ==
    IF e \in Critical
    THEN /\ normal' = normal
         /\ IF SlotFull THEN Drop(e, "slot") /\ critical' = critical
                        ELSE critical' = Append(critical, e) /\ dropped' = dropped
    ELSE /\ critical' = critical
         /\ IF Full THEN normal' = Append(Tail(normal), e) /\ Drop(Head(normal), "evicted")
                    ELSE normal' = Append(normal, e) /\ dropped' = dropped

\* Drain(n): the n first events, critical ones before the others.
Smaller(a, b) == IF a < b THEN a ELSE b
FromCritical == Smaller(DrainBatch, Len(critical))
FromNormal == Smaller(DrainBatch - FromCritical, Len(normal))

Drained == SubSeq(critical, 1, FromCritical) \o SubSeq(normal, 1, FromNormal)

-----------------------------------------------------------------------------
(* processWorker                                                              *)

\* Parse, enrich and filter; the enrichment decides what passes the filter, and
\* critical events pass it always.
Take(w) ==
    /\ At(w, "idle") /\ input # <<>>
    /\ input' = Tail(input)
    /\ LET e == Head(input) IN
       \/ e \in Malformed /\ Drop(e, "parse") /\ UNCHANGED <<at, ev>>
       \/ /\ e \notin Malformed
          /\ Hold(w, e)
          /\ \/ e \notin Critical /\ Goto(w, "filtered")
             \/ Goto(w, "write")
          /\ dropped' = dropped
    /\ UNCHANGED <<life, arrived, buffer, degraded, err, flush, redis, direct>>

\* A filtered event only goes to the batch stream; an error is counted.
XAddFiltered(w) ==
    /\ At(w, "filtered")
    /\ \/ AddBatch(ev[w]) /\ dropped' = dropped
       \/ BatchFails(ev[w]) /\ Drop(ev[w], "batch")
    /\ Goto(w, "idle") /\ Hold(w, Nothing)
    /\ UNCHANGED <<life, arrived, input, buffer, degraded, err, flush, realtime, missed, doubt, direct>>

\* writeToClickhouse, for critical events; an error is counted.
WriteToClickhouse(e) ==
    \/ direct' = direct
    \/ DirectWrite /\ e \in Critical /\ direct' = direct \cup {e}

\* Mutant: the event is buffered whatever the write returned.
HandleBackpressureAlways(w) ==
    /\ At(w, "written")
    /\ Push(ev[w])
    /\ WriteToClickhouse(ev[w])
    /\ Goto(w, "idle") /\ Hold(w, Nothing) /\ Forget(w)
    /\ UNCHANGED <<life, arrived, input, degraded, flush, redis>>

\* The rest of the iteration: a failed event is buffered.
HandleBackpressure(w) ==
    /\ At(w, "written")
    /\ IF err[w] THEN Push(ev[w]) ELSE UNCHANGED <<buffer, dropped>>
    /\ WriteToClickhouse(ev[w])
    /\ Goto(w, "idle") /\ Hold(w, Nothing) /\ Forget(w)
    /\ UNCHANGED <<life, arrived, input, degraded, flush, redis>>

WorkerStop(w) ==
    /\ At(w, "idle") /\ life = "stopping"
    /\ Goto(w, "ended")
    /\ UNCHANGED <<life, arrived, input, buffer, degraded, ev, err, flush, redis, direct, dropped>>

-----------------------------------------------------------------------------
(* drainBackpressureBuffer and flushBuffer                                    *)

\* Mutant: the buffer is flushed while Redis is degraded.
FlushTickInverted ==
    /\ At(Flusher, "idle")
    /\ degraded /\ normal \o critical # <<>>
    /\ Goto(Flusher, "drain")
    /\ UNCHANGED <<life, arrived, input, buffer, degraded, ev, err, flush, redis, direct, dropped>>

FlushTick ==
    /\ At(Flusher, "idle")
    /\ ~degraded /\ normal \o critical # <<>>
    /\ Goto(Flusher, "drain")
    /\ UNCHANGED <<life, arrived, input, buffer, degraded, ev, err, flush, redis, direct, dropped>>

FlushStop ==
    /\ At(Flusher, "idle") /\ life = "stopping"
    /\ final' = TRUE
    /\ Goto(Flusher, "drain")
    /\ UNCHANGED <<life, arrived, input, buffer, degraded, ev, err, todo, requeue, redis, direct, dropped>>

\* flushBuffer returns, to the ticker or to the end of the goroutine.
Return == Goto(Flusher, IF final THEN "ended" ELSE "idle") /\ Hold(Flusher, Nothing)

\* Mutant: the critical events are copied and not removed.
DrainCopies ==
    /\ At(Flusher, "drain")
    /\ \/ normal \o critical = <<>> /\ Return /\ UNCHANGED <<buffer, todo>>
       \/ /\ normal \o critical # <<>>
          /\ critical' = critical
          /\ normal' = SubSeq(normal, FromNormal + 1, Len(normal))
          /\ Hold(Flusher, Head(Drained)) /\ todo' = Tail(Drained)
          /\ Goto(Flusher, "write")
    /\ UNCHANGED <<life, arrived, input, degraded, err, requeue, final, redis, direct, dropped>>

Drain ==
    /\ At(Flusher, "drain")
    /\ \/ normal \o critical = <<>> /\ Return /\ UNCHANGED <<buffer, todo>>
       \/ /\ normal \o critical # <<>>
          /\ critical' = SubSeq(critical, FromCritical + 1, Len(critical))
          /\ normal' = SubSeq(normal, FromNormal + 1, Len(normal))
          /\ Hold(Flusher, Head(Drained)) /\ todo' = Tail(Drained)
          /\ Goto(Flusher, "write")
    /\ UNCHANGED <<life, arrived, input, degraded, err, requeue, final, redis, direct, dropped>>

\* Mutant: the flush ends at the first failed write (what the comment on
\* flushBuffer says of an earlier version).
NextDrainedStops ==
    /\ At(Flusher, "written")
    /\ requeue' = IF err[Flusher] THEN Append(requeue, ev[Flusher]) ELSE requeue
    /\ IF todo = <<>> \/ err[Flusher]
       THEN Goto(Flusher, "requeue") /\ Hold(Flusher, Nothing) /\ todo' = <<>>
       ELSE Goto(Flusher, "write") /\ Hold(Flusher, Head(todo)) /\ todo' = Tail(todo)
    /\ Forget(Flusher)
    /\ UNCHANGED <<life, arrived, input, buffer, degraded, final, redis, direct, dropped>>

NextDrained ==
    /\ At(Flusher, "written")
    /\ requeue' = IF err[Flusher] THEN Append(requeue, ev[Flusher]) ELSE requeue
    /\ IF todo = <<>>
       THEN Goto(Flusher, "requeue") /\ Hold(Flusher, Nothing) /\ todo' = todo
       ELSE Goto(Flusher, "write") /\ Hold(Flusher, Head(todo)) /\ todo' = Tail(todo)
    /\ Forget(Flusher)
    /\ UNCHANGED <<life, arrived, input, buffer, degraded, final, redis, direct, dropped>>

Requeue ==
    /\ At(Flusher, "requeue")
    /\ \/ /\ requeue # <<>>
          /\ Push(Head(requeue)) /\ requeue' = Tail(requeue)
          /\ UNCHANGED <<at, ev>>
       \/ /\ requeue = <<>>
          /\ IF degraded THEN Return ELSE Goto(Flusher, "drain") /\ ev' = ev
          /\ UNCHANGED <<buffer, dropped, requeue>>
    /\ UNCHANGED <<life, arrived, input, degraded, err, todo, final, redis, direct>>

-----------------------------------------------------------------------------
(* The process                                                                *)

\* SIGTERM: Disconnect, then close(stopChan) ...
Stop ==
    /\ life = "up" /\ life' = "stopping"
    /\ UNCHANGED <<arrived, input, buffer, degraded, local, flush, redis, direct, dropped>>

Elements(s) == {s[i] : i \in 1..Len(s)}
\* Events some part of the process is responsible for.
InHand == {ev[p] : p \in Procs} \ {Nothing}
Held == InHand \cup UNION {Elements(s) : s \in {input, normal, critical, todo, requeue}}

\* Both streams have been seen to.
Done(e) == e \in batch \cup missed

\* Events that are between their two XADDs, or may be.
Halfway == {ev[p] : p \in {q \in Procs : at[q] = "write"}}

\* ... and main returns without waiting for the goroutines.  A crash is the same.
Exit ==
    /\ life # "down" /\ life' = "down"
    /\ \E S \in SUBSET Halfway :
          realtime' = [e \in Events |-> IF e \in S /\ realtime[e] < 2 THEN realtime[e] + 1
                                                                    ELSE realtime[e]]
    /\ dropped' = [e \in Events |-> IF e \in Held /\ ~Done(e) THEN "exit" ELSE dropped[e]]
    /\ input' = <<>> /\ normal' = <<>> /\ critical' = <<>> /\ todo' = <<>> /\ requeue' = <<>>
    /\ at' = [p \in Procs |-> "idle"] /\ ev' = [p \in Procs |-> Nothing]
    /\ err' = [p \in Procs |-> FALSE] /\ degraded' = FALSE /\ final' = FALSE
    /\ UNCHANGED <<arrived, batch, missed, doubt, faults, direct>>

Work(w) == Take(w) \/ XAddFiltered(w) \/ Write(w) \/ HandleBackpressure(w)
Flush == FlushTick \/ FlushStop \/ Drain \/ Write(Flusher) \/ NextDrained \/ Requeue

Next == \/ Receive
        \/ \E w \in Workers : Work(w) \/ WorkerStop(w)
        \/ Flush \/ Stop \/ Exit

Spec == Init /\ [][Next]_vars

\* Goroutines are scheduled; their calls end by their timeouts.
FairSpec == Spec /\ WF_vars(Flush) /\ \A w \in Workers : WF_vars(Work(w))
=============================================================================
