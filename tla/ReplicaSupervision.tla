--------------------------- MODULE ReplicaSupervision ---------------------------
(***************************************************************************)
(* One supervised replica: the OS process, watchProcess that waits for it   *)
(* and spawns it again, and the two callers of checkHealth (the bootstrap   *)
(* gate and supervisionLoop), which probe over HTTP without the lock and    *)
(* then act under it.  Replicas do not influence each other here.           *)
(***************************************************************************)
EXTENDS RestartBackoff

CONSTANTS
    UnhealthyThreshold,  \* consecutive failures before SIGTERM
    PollLimit,           \* polls of the gate until the bootstrap timeout
    MaxCrashes,          \* bound: times the process dies or hangs by itself
    MaxFaults            \* bound: spawns that fail, probes that time out

ASSUME SupervisionConstants ==
    /\ UnhealthyThreshold \in Nat \ {0} /\ PollLimit \in Nat \ {0}
    /\ MaxCrashes \in Nat /\ MaxFaults \in Nat

Checkers == {"gate", "loop"}

VARIABLES
    proc,       \* the OS process: see ProcStates
    state,      \* inst.state
    badChecks,  \* inst.unhealthyCount
    watch,      \* watchProcess: "wait", "backoff" or "done"
    cancelled,  \* the context of the instance
    check,      \* check[c]: "idle", or the result of the probe to be recorded
    gate,       \* WaitReady: "probing", "ready", "timeout", "early" or "cancelled"
    polls,      \* ticks of the gate
    served,     \* history: a probe has been answered with 200
    crashes, faults

vars == <<proc, state, badChecks, watch, cancelled, check, gate, polls, served,
          crashes, faults, backoffVars>>

\* booting: no answer yet; terminating: drains after SIGTERM; hung: neither
\* answers nor reacts to SIGTERM.
ProcStates == {"booting", "serving", "terminating", "hung", "gone"}
Alive == proc # "gone"

Init ==
    /\ proc = "booting" /\ state = "starting" /\ badChecks = 0
    /\ watch = "wait" /\ cancelled = FALSE
    /\ check = [c \in Checkers |-> "idle"]
    /\ gate = "probing" /\ polls = 0
    /\ served = FALSE /\ crashes = 0 /\ faults = 0
    /\ BackoffInit

-----------------------------------------------------------------------------
(* The process (external) *)

Boots ==
    /\ proc = "booting" /\ proc' = "serving"
    /\ UNCHANGED <<state, badChecks, watch, cancelled, check, gate, polls, served, backoffVars,
                   crashes, faults>>

Fails ==
    /\ proc \in {"booting", "serving"} /\ crashes < MaxCrashes
    /\ crashes' = crashes + 1
    /\ proc' \in {"gone", "hung"}
    /\ UNCHANGED <<state, badChecks, watch, cancelled, check, gate, polls, served, backoffVars,
                   faults>>

Drained ==
    /\ proc = "terminating" /\ proc' = "gone"
    /\ UNCHANGED <<state, badChecks, watch, cancelled, check, gate, polls, served, backoffVars,
                   crashes, faults>>

\* A process that has not installed its handler dies of SIGTERM at once.
SigTerm(p) == IF p = "booting" THEN "gone" ELSE IF p = "serving" THEN "terminating" ELSE p

\* Mutant: exec.Command, without the context.
NeverKilled == FALSE /\ UNCHANGED vars

\* exec.CommandContext kills the process as soon as its context is done.
KilledByContext ==
    /\ cancelled /\ ~panicked /\ Alive /\ proc' = "gone"
    /\ UNCHANGED <<state, badChecks, watch, cancelled, check, gate, polls, served, backoffVars,
                   crashes, faults>>

-----------------------------------------------------------------------------
(* watchProcess *)

\* cmd.Wait returns: stop if the context is done, else count a restart.
WatchExit ==
    /\ watch = "wait" /\ ~Alive
    /\ IF cancelled THEN state' = "stopped" /\ watch' = "done"
       ELSE state' = "starting" /\ watch' = "backoff"
    /\ UNCHANGED <<proc, badChecks, cancelled, check, gate, polls, served, backoffVars,
                   crashes, faults>>

\* The select on ctx.Done during the back-off returns without a state change.
BackoffCancelled ==
    /\ watch = "backoff" /\ ~panicked /\ cancelled /\ watch' = "done"
    /\ UNCHANGED <<proc, state, badChecks, cancelled, check, gate, polls, served, backoffVars,
                   crashes, faults>>

\* Mutant: a failed spawn ends the watcher.
RespawnGivesUp ==
    /\ watch = "backoff" /\ ~panicked /\ BackoffStep
    /\ \/ ~cancelled /\ proc' = "booting" /\ state' = "starting" /\ faults' = faults /\ watch' = "wait"
       \/ cancelled /\ UNCHANGED <<proc, state, faults>> /\ watch' = "done"
       \/ faults < MaxFaults /\ faults' = faults + 1 /\ UNCHANGED <<proc, state>> /\ watch' = "done"
    /\ UNCHANGED <<badChecks, cancelled, check, gate, polls, served, crashes>>

\* After the back-off, which grows first: spawnProcess.  A failure is logged; the
\* next Wait on the old command returns at once, so the loop comes back here.
Respawn ==
    /\ watch = "backoff" /\ ~panicked /\ watch' = "wait" /\ BackoffStep
    /\ \/ ~cancelled /\ proc' = "booting" /\ state' = "starting" /\ faults' = faults
       \/ cancelled /\ UNCHANGED <<proc, state, faults>>
       \/ faults < MaxFaults /\ faults' = faults + 1 /\ UNCHANGED <<proc, state>>
    /\ UNCHANGED <<badChecks, cancelled, check, gate, polls, served, crashes>>

\* The panic of watchProcess: the orchestrator ends, and leaves the processes behind.
RespawnPanics ==
    /\ watch = "backoff" /\ ~panicked /\ BackoffPanics
    /\ UNCHANGED <<proc, state, badChecks, watch, cancelled, check, gate, polls, served,
                   crashes, faults>>

-----------------------------------------------------------------------------
(* checkHealth *)

\* Mutant: an instance is skipped until it runs.
MayProbeRunning(c) == ~panicked /\ check[c] = "idle" /\ state \in {"running", "unhealthy"} /\ c = "loop"

\* Skip a stopped instance; else GET /health or /metrics, no lock held.
MayProbe(c) == /\ check[c] = "idle" /\ state # "stopped" /\ ~panicked
               /\ c = "gate" => gate = "probing" /\ polls < PollLimit
               /\ c = "loop" => ~cancelled

Probe(c) ==
    /\ MayProbe(c)
    /\ \/ /\ check' = [check EXCEPT ![c] = IF proc = "serving" THEN "good" ELSE "bad"]
          /\ faults' = faults
       \/ /\ proc = "serving" /\ faults < MaxFaults
          /\ check' = [check EXCEPT ![c] = "bad"]
          /\ faults' = faults + 1
    /\ UNCHANGED <<proc, state, badChecks, watch, cancelled, gate, polls, served, backoffVars,
                   crashes>>

\* unhealthyCount >= UnhealthyThreshold
OverThreshold(n) == n >= UnhealthyThreshold

\* Mutant: an instance that was started counts as healthy.
GateVerdictStarted(s) == IF s \in {"running", "starting"} THEN "ready" ELSE "probing"

\* WaitReady after the check: ready on a running instance, early when all the
\* instances are stopped, timeout once the deadline has passed.
GateVerdict(s) == IF s = "running" THEN "ready"
                  ELSE IF s = "stopped" THEN "early"
                  ELSE IF polls + 1 = PollLimit THEN "timeout" ELSE "probing"

Record(c) ==
    /\ check[c] # "idle" /\ ~panicked
    /\ check' = [check EXCEPT ![c] = "idle"]
    /\ IF check[c] = "good"
       THEN /\ state' = "running" /\ badChecks' = 0 /\ served' = TRUE
            /\ proc' = proc
       ELSE /\ served' = served
            /\ IF OverThreshold(badChecks + 1)
               THEN /\ state' = "unhealthy" /\ badChecks' = 0
                    /\ proc' = SigTerm(proc)
               ELSE /\ badChecks' = badChecks + 1
                    /\ UNCHANGED <<state, proc>>
    /\ IF c = "gate" /\ gate = "probing"
       THEN gate' = GateVerdict(state') /\ polls' = polls + 1
       ELSE UNCHANGED <<gate, polls>>
    /\ UNCHANGED <<watch, cancelled, crashes, faults, backoffVars>>

-----------------------------------------------------------------------------
(* Pool shutdown or scale-down *)

\* cancelFn or sp.cancel, then SIGTERM.  WaitReady watches the same context.
Cancel ==
    /\ ~cancelled /\ ~panicked /\ cancelled' = TRUE
    /\ proc' \in {proc, SigTerm(proc)}
    /\ UNCHANGED <<state, badChecks, watch, check, gate, polls, served, backoffVars,
                   crashes, faults>>

GateCancelled ==
    /\ cancelled /\ ~panicked /\ gate = "probing" /\ check["gate"] = "idle"
    /\ gate' = "cancelled"
    /\ UNCHANGED <<proc, state, badChecks, watch, cancelled, check, polls, served, backoffVars,
                   crashes, faults>>

ProcNext == Boots \/ Fails \/ Drained \/ KilledByContext
WatchNext == WatchExit \/ BackoffCancelled \/ Respawn \/ RespawnPanics
CheckNext(c) == Probe(c) \/ Record(c)

Next == ProcNext \/ WatchNext \/ (\E c \in Checkers : CheckNext(c)) \/ Cancel \/ GateCancelled

Spec == Init /\ [][Next]_vars

\* The goroutines run, tickers tick, a booting process comes up or dies, a
\* draining one ends, the kernel delivers SIGKILL; nothing forces a crash.
FairSpec ==
    /\ Spec
    /\ WF_vars(Boots) /\ WF_vars(Drained) /\ WF_vars(KilledByContext)
    /\ WF_vars(WatchNext) /\ \A c \in Checkers : WF_vars(CheckNext(c))
    /\ WF_vars(GateCancelled)

-----------------------------------------------------------------------------

TypeOK ==
    /\ proc \in ProcStates
    /\ state \in {"starting", "running", "unhealthy", "stopped"}
    /\ badChecks \in 0..UnhealthyThreshold - 1
    /\ watch \in {"wait", "backoff", "done"}
    /\ cancelled \in BOOLEAN
    /\ check \in [Checkers -> {"idle", "good", "bad"}]
    /\ gate \in {"probing", "ready", "timeout", "early", "cancelled"}
    /\ polls \in 0..PollLimit
    /\ served \in BOOLEAN
    /\ crashes \in 0..MaxCrashes /\ faults \in 0..MaxFaults

(* The state of a replica, which the gate, the status page and the lag       *)
(* sampling go by, catches up with a process that serves, whatever crashes,  *)
(* restarts and results of older probes came before.                         *)
StatusCatchesUp ==
    (proc = "serving") ~> (state = "running" \/ proc # "serving" \/ cancelled)

(* The next pool starts only when some probe of this one was answered.       *)
ReadyMeansServed == gate = "ready" => served

(* README.md: "the orchestrator will not give up retrying": a process that   *)
(* died is spawned again, unless the pool is being stopped, or the cap of the *)
(* back-off is so small that drawing the jitter ends the orchestrator.        *)
CrashedIsRestarted == (~Alive /\ ~cancelled) ~> (Alive \/ cancelled \/ panicked)

(* Once its context is cancelled the replica is dead for good and its        *)
(* watcher gone: ServicePool.Stop, which waits for it, gets to return (but   *)
(* for the same panic).                                                      *)
CancelledIsFinal == cancelled ~> (panicked \/ [](~Alive /\ watch = "done"))
=============================================================================
