------------------------------ MODULE Orchestrator ------------------------------
(***************************************************************************)
(* Orchestrator.Start and Shutdown: the pools come up one after the other   *)
(* behind the bootstrap gate and are stopped in the reverse order, while    *)
(* the auto-scaler or a POST /scale adds and removes replicas.  A pool has  *)
(* its first replica and one more (PoolScaling has the details of indices,  *)
(* ReplicaSupervision those of a replica).                                  *)
(***************************************************************************)
EXTENDS Naturals

CONSTANTS
    Scalable,      \* the pools that are given a second replica
    MaxCrashes     \* bound: crashes of the services

\* Pools in the order of startup: 1 batch-writer, 2 mqtt-consumer, 3 websocket-gateway.
Pools == 1..3
Slots == Pools \X {1, 2}

ASSUME OrchestratorConstants == Scalable \subseteq Pools /\ MaxCrashes \in Nat

VARIABLES
    proc,     \* per slot: "none", "booting", "serving", "draining" or "gone"
    listed,   \* slots in sp.instances
    watched,  \* slots with a watcher, which sp.wg counts
    removed,  \* slots whose own context a scale-down has cancelled
    held,     \* pools whose sp.mu a handler that panicked holds for ever
    ready,    \* history: pools WaitReady has found healthy
    pc, at,   \* "start", "wait", "run", "stop", "lock", "drain" or "exit", at pool `at`
    root,     \* the root context is cancelled (SIGINT or SIGTERM arrived)
    ctx,      \* pools whose own context is cancelled
    missed,   \* history: slots not counted, or not in the slice, when Stop was done
    crashes

pool == <<listed, watched, removed, held>>
main == <<ready, pc, at, ctx, missed>>
vars == <<proc, pool, main, root, crashes>>

Alive(s) == proc[s] \in {"booting", "serving", "draining"}
Cancelled(s) == root \/ s[1] \in ctx \/ s \in removed
First(p) == <<p, 1>>
Second(p) == <<p, 2>>

Init ==
    /\ proc = [s \in Slots |-> "none"]
    /\ listed = {} /\ watched = {} /\ removed = {} /\ held = {}
    /\ ready = {} /\ pc = "start" /\ at = 1
    /\ root = FALSE /\ ctx = {} /\ missed = {} /\ crashes = 0

\* The signal handler of main cancels the context every pool derives from.
Signal ==
    /\ ~root /\ root' = TRUE
    /\ UNCHANGED <<proc, pool, main, crashes>>

-----------------------------------------------------------------------------
(* Start *)

\* Any error of Start makes main call Shutdown for whatever did start.
GiveUpStart == pc' = "stop" /\ at' = 3

\* addReplica from one end to the other: nobody else looks at the pool yet.
AddFirst == /\ proc' = [proc EXCEPT ![First(at)] = "booting"]
            /\ listed' = listed \cup {First(at)} /\ watched' = watched \cup {First(at)}

\* pool.Start: a spawn that fails (always, once the context is done) is an error;
\* replicas spawned before it stay.
StartPool ==
    /\ pc = "start"
    /\ \/ ~root /\ AddFirst /\ pc' = "wait" /\ at' = at
       \/ ~root /\ AddFirst /\ GiveUpStart
       \/ UNCHANGED <<proc, listed, watched>> /\ GiveUpStart
    /\ UNCHANGED <<removed, held, ready, root, ctx, missed, crashes>>

StartNext == IF at = 3 THEN pc' = "run" /\ at' = at ELSE pc' = "start" /\ at' = at + 1
Healthy(p) == proc[First(p)] = "serving"

\* Mutants: the timeout does not stop the startup; nothing but health ends the wait.
WaitReadyGoesOn ==
    /\ pc = "wait"
    /\ ready' = IF Healthy(at) THEN ready \cup {at} ELSE ready
    /\ StartNext
    /\ UNCHANGED <<proc, pool, root, ctx, missed, crashes>>
WaitReadyForEver ==
    /\ pc = "wait" /\ Healthy(at)
    /\ ready' = ready \cup {at} /\ StartNext
    /\ UNCHANGED <<proc, pool, root, ctx, missed, crashes>>

\* WaitReady: a healthy replica, or the cancelled context, or the timeout.
WaitReady ==
    /\ pc = "wait"
    /\ \/ Healthy(at) /\ ready' = ready \cup {at} /\ StartNext
       \/ ready' = ready /\ GiveUpStart
    /\ UNCHANGED <<proc, pool, root, ctx, missed, crashes>>

\* main waits for the context.
BeginShutdown ==
    /\ pc = "run" /\ root
    /\ pc' = "stop" /\ at' = 3
    /\ UNCHANGED <<proc, pool, ready, root, ctx, missed, crashes>>

-----------------------------------------------------------------------------
(* The scaler and the control plane: they start after the pools, and a      *)
(* ScaleTo under way goes on while Shutdown runs.                           *)

\* addReplica spawns the process, which fails once the context is done ...
Spawn(p) ==
    /\ pc = "run" /\ ~root /\ proc[Second(p)] = "none" /\ p \notin held
    /\ proc' = [proc EXCEPT ![Second(p)] = "booting"]
    /\ UNCHANGED <<pool, main, root, crashes>>

\* ... then appends the instance, and then starts the watcher.
Append(p) ==
    /\ pc # "exit" /\ proc[Second(p)] # "none" /\ Second(p) \notin listed \cup removed
    /\ p \notin held
    /\ listed' = listed \cup {Second(p)}
    /\ UNCHANGED <<proc, watched, removed, held, main, root, crashes>>

Watch(p) ==
    /\ pc # "exit" /\ Second(p) \in (listed \cup removed) \ watched
    /\ watched' = watched \cup {Second(p)}
    /\ UNCHANGED <<proc, listed, removed, held, main, root, crashes>>

Terminate(s) == proc' = [proc EXCEPT ![s] = IF @ = "serving" THEN "draining"
                                            ELSE IF @ = "booting" THEN "gone" ELSE @]

\* ScaleTo downwards: the instance leaves the slice, its context is cancelled, SIGTERM.
ScaleDown(p) ==
    /\ pc \in {"run", "stop", "lock", "drain"} /\ Second(p) \in listed /\ p \notin held
    /\ listed' = listed \ {Second(p)} /\ removed' = removed \cup {Second(p)}
    /\ Terminate(Second(p))
    /\ UNCHANGED <<watched, held, main, root, crashes>>

\* A handler's ScaleTo slices beyond the pool (Cut of PoolScaling): net/http recovers
\* the panic, the pool's mutex stays locked.
PanicWithLock(p) ==
    /\ pc \in {"run", "stop", "lock", "drain"} /\ p \notin held
    /\ held' = held \cup {p}
    /\ UNCHANGED <<proc, listed, watched, removed, main, root, crashes>>

-----------------------------------------------------------------------------
(* Shutdown: ServicePool.Stop of each pool in turn *)

Listed(p) == {s \in listed : s[1] = p}

\* sp.cancel, before anything else ...
CancelPool ==
    /\ pc = "stop"
    /\ ctx' = ctx \cup {at} /\ pc' = "lock"
    /\ UNCHANGED <<proc, pool, ready, at, root, missed, crashes>>

\* ... then SIGTERM to the processes in the slice, which is read under the lock.
StopPool ==
    /\ pc = "lock" /\ at \notin held
    /\ proc' = [s \in Slots |-> IF s \notin Listed(at) THEN proc[s]
                                ELSE IF proc[s] = "serving" THEN "draining"
                                ELSE IF proc[s] = "booting" THEN "gone" ELSE proc[s]]
    /\ pc' = "drain"
    /\ UNCHANGED <<pool, ready, at, root, ctx, missed, crashes>>

NextStop == IF at = 1 THEN pc' = "exit" /\ at' = at ELSE pc' = "stop" /\ at' = at - 1

Uncounted(p) == {s \in Slots : s[1] = p /\ s \notin listed \cap watched}

\* wg.Wait returned, or the timeout did: SIGKILL to what the slice then holds, under
\* the lock.
PoolStopped ==
    /\ pc = "drain"
    /\ \/ (\A s \in watched : s[1] = at => ~Alive(s)) /\ UNCHANGED proc
       \/ /\ at \notin held
          /\ proc' = [s \in Slots |-> IF s \in Listed(at) /\ Alive(s) THEN "gone" ELSE proc[s]]
    /\ missed' = missed \cup Uncounted(at)
    /\ NextStop
    /\ UNCHANGED <<pool, ready, root, ctx, crashes>>

-----------------------------------------------------------------------------
(* The services and their watchers *)

Boots(s) ==
    /\ proc[s] = "booting"
    /\ proc' = [proc EXCEPT ![s] = "serving"]
    /\ UNCHANGED <<pool, main, root, crashes>>

Drained(s) ==
    /\ proc[s] = "draining"
    /\ proc' = [proc EXCEPT ![s] = "gone"]
    /\ UNCHANGED <<pool, main, root, crashes>>

Crash(s) ==
    /\ proc[s] \in {"booting", "serving"} /\ crashes < MaxCrashes
    /\ crashes' = crashes + 1 /\ proc' = [proc EXCEPT ![s] = "gone"]
    /\ UNCHANGED <<pool, main, root>>

\* Mutant: the spawn does not look at the context.
RespawnAnyway(s) ==
    /\ proc[s] = "gone" /\ s \in watched /\ pc # "exit"
    /\ proc' = [proc EXCEPT ![s] = "booting"]
    /\ UNCHANGED <<pool, main, root, crashes>>

\* watchProcess spawns it again, unless the context is done by then.
Respawn(s) ==
    /\ proc[s] = "gone" /\ s \in watched /\ pc # "exit" /\ ~Cancelled(s)
    /\ proc' = [proc EXCEPT ![s] = "booting"]
    /\ UNCHANGED <<pool, main, root, crashes>>

\* exec.CommandContext: SIGKILL when the context is done, while main lives.
KilledByContext(s) ==
    /\ Alive(s) /\ Cancelled(s) /\ pc # "exit"
    /\ proc' = [proc EXCEPT ![s] = "gone"]
    /\ UNCHANGED <<pool, main, root, crashes>>

Main == StartPool \/ WaitReady \/ BeginShutdown \/ CancelPool \/ StopPool \/ PoolStopped
Scaling(p) == Spawn(p) \/ Append(p) \/ Watch(p) \/ ScaleDown(p) \/ PanicWithLock(p)
Service(s) == Boots(s) \/ Drained(s) \/ Crash(s) \/ Respawn(s) \/ KilledByContext(s)

Next == Signal \/ Main \/ (\E p \in Scalable : Scaling(p)) \/ (\E s \in Slots : Service(s))
Spec == Init /\ [][Next]_vars

\* main is scheduled and its timeouts expire; the kernel delivers SIGKILL.
FairSpec == Spec /\ WF_vars(Main) /\ \A s \in Slots : WF_vars(KilledByContext(s))

-----------------------------------------------------------------------------

(* "Startup dependency order (enforced by BootstrapGate)": no pool has a     *)
(* process before every pool it depends on has been found ready.             *)
StartOrder == \A s, t \in Slots : s[1] < t[1] /\ proc[t] # "none" => s[1] \in ready

Stopped(p) == pc = "exit" \/ (pc \in {"stop", "lock", "drain"} /\ p > at)

(* README "surviving processes receive SIGKILL": once the Stop of a pool is  *)
(* done, and so when main returns, no process of it runs or is spawned again,*)
(* whatever was crashing, booting or in a back-off, but one Stop could not   *)
(* look for: its addReplica had not returned, or a scale-down had taken it.  *)
StoppedForGood == \A s \in Slots : Stopped(s[1]) /\ Alive(s) => s \in missed

(* A signal ends the orchestrator, in every phase of the startup too, and in *)
(* the middle of a scale-up or a scale-down, unless a handler panicked with    *)
(* the mutex of a pool: the Stop of that pool waits for it for ever.           *)
SignalEndsIt == root ~> (pc = "exit" \/ held # {})
=============================================================================
