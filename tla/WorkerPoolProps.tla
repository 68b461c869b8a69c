----------------------------- MODULE WorkerPoolProps -----------------------------
(***************************************************************************)
(* What the mqtt-consumer process promises about each event.                *)
(***************************************************************************)
EXTENDS WorkerPool

(* The memory of a degraded process is bounded: whatever the workers push     *)
(* while the flusher puts failed events back, the buffer never holds more     *)
(* than one and a half times its capacity.                                    *)
BufferBounded ==
    /\ Len(critical) <= Capacity \div 2
    /\ Len(normal) <= Capacity

(* One owner: an event is never in two places of the process at once, so it   *)
(* is not written twice by two goroutines.                                    *)
Places(e) ==
    Cardinality({p \in Procs : ev[p] = e})
    + Cardinality({i \in 1..Len(input) : input[i] = e})
    + Cardinality({i \in 1..Len(normal) : normal[i] = e})
    + Cardinality({i \in 1..Len(critical) : critical[i] = e})
    + Cardinality({i \in 1..Len(todo) : todo[i] = e})
    + Cardinality({i \in 1..Len(requeue) : requeue[i] = e})

OneOwner == \A e \in Events : Places(e) <= 1

(* Conservation, for both streams: an event the process received is in its    *)
(* hands, in the batch stream, in the realtime stream alone with the failed   *)
(* XADD of its other copy logged, or let go as a whole at one of the places   *)
(* of `Causes`.  Two of these are silent, the eviction by Push and the end of *)
(* the process, which may also come between the two XADDs.                    *)
Accounted(e) ==
    \/ e \in Held
    \/ e \in batch
    \/ e \in missed /\ realtime[e] > 0
    \/ dropped[e] # "no"

(* A critical event is never evicted and never skips the realtime stream: but *)
(* for the end of the process, no loss of one goes uncounted.                 *)
CriticalCauses == {"no", "input", "parse", "slot", "exit"}
CriticalFirst ==
    \A e \in Critical : dropped[e] \in CriticalCauses /\ (e \in batch => realtime[e] > 0)

NothingVanishes == (\A e \in 1..arrived : Accounted(e)) /\ CriticalFirst

(* Two copies in the realtime stream need an XADD that failed after it had    *)
(* been applied: retries of the flusher never duplicate by themselves.        *)
DuplicateOnlyInDoubt == \A e \in Events : realtime[e] > 1 => e \in doubt

(* Every event the process took in is eventually let go or through with both  *)
(* streams, unless the process ends or it stays in the buffer with the        *)
(* degraded flag set: between bursts of messages no event is left over.       *)
Settled(e) ==
    \/ Done(e) \/ dropped[e] # "no"
    \/ degraded /\ e \in Elements(normal) \cup Elements(critical)
    \/ life # "up"

EverySettled == []<>(\A e \in 1..arrived : Settled(e))
=============================================================================
