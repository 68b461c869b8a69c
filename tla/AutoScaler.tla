------------------------------- MODULE AutoScaler -------------------------------
(***************************************************************************)
(* AutoScaler.evaluate and the handler of POST /scale, as callers of the    *)
(* mqtt-consumer pool of PoolScaling: the smoothed stream lag decides its   *)
(* size, which decides that of the websocket-gateway pool.  That pool is a  *)
(* number of replicas here and its ScaleTo one step.                        *)
(*                                                                          *)
(* The float64 ewmaLag is ewma / scale up to a rounding error below         *)
(* 1 / Precision; int64(ewmaLag) is the floor of any number that close.     *)
(***************************************************************************)
EXTENDS PoolScaling

CONSTANTS
    AlphaNum, AlphaDen,        \* LagEWMAAlpha as a fraction
    Precision,                 \* the rounding errors add up to less than 1 / Precision
    ScaleUpLag, ScaleDownLag,
    WsMin, WsMax,
    Lags,                      \* values of the stream lag
    Overrides,                 \* replicas asked for by POST /scale
    MaxTicks, MaxOverrides     \* bounds

ASSUME ScalerConstants ==
    /\ AlphaDen \in Nat \ {0} /\ AlphaNum \in 1..AlphaDen
    /\ Precision \in Nat \ {0}
    /\ ScaleUpLag \in Nat /\ ScaleDownLag \in Nat /\ ScaleDownLag < ScaleUpLag
    /\ WsMin \in Nat \ {0} /\ WsMax \in Nat /\ WsMin <= WsMax
    /\ Lags \subseteq Nat /\ Overrides \subseteq Nat
    /\ MaxTicks \in Nat /\ MaxOverrides \in Nat

VARIABLES
    ws,              \* replicas of the websocket-gateway pool
    ewma, scale,     \* ewmaLag is near ewma / scale
    ticks,           \* samples taken
    step, current,   \* position in evaluate, currentMQTT
    meant,           \* history: what its last call of ScaleTo is for: "up", "down", "none"
    crossed,         \* history: since currentMQTT was read some request of an operator was under way
    above, below,    \* history: some sample was above ScaleUpLag since the last scale-down
                     \* decision, some was not above ScaleDownLag since the last scale-up decision
    overrides

evalVars == <<ws, ewma, scale, ticks, step, current, meant, crossed, above, below>>
vars == <<scalingVars, evalVars, overrides>>

\* The values of int64(ewmaLag): n <= x < n + 1 for some x nearer than 1 / Precision
\* to ewma / scale.
IsSmoothed(n) == /\ Precision * (n * scale) < Precision * ewma + scale
                 /\ Precision * ewma < Precision * ((n + 1) * scale) + scale
Smoothed == LET whole == ewma \div scale
            IN  {n \in whole - 1..whole + 1 : n >= 0 /\ IsSmoothed(n)}

Init ==
    /\ ScalingInit /\ ws = WsMin
    /\ ewma = 0 /\ scale = 1 /\ ticks = 0 /\ step = "tick" /\ current = 0
    /\ meant = "none" /\ crossed = FALSE
    /\ above = FALSE /\ below = FALSE /\ overrides = 0

\* sampleStreamLag: the largest lag any running batch-writer reports, 0 when none
\* of them answers.
Reported(l) == {l, 0}

\* The next average, over AlphaDen * scale.
Smooth(raw) == AlphaNum * raw * scale + (AlphaDen - AlphaNum) * ewma

Sample(raw) ==
    /\ step = "tick" /\ ticks < MaxTicks /\ ~dead
    /\ ewma' = IF ticks = 0 THEN raw ELSE Smooth(raw)
    /\ scale' = IF ticks = 0 THEN 1 ELSE AlphaDen * scale
    /\ ticks' = ticks + 1
    /\ above' = (above \/ raw > ScaleUpLag)
    /\ below' = (below \/ raw <= ScaleDownLag)
    /\ step' = "count"
    /\ UNCHANGED <<scalingVars, ws, current, meant, crossed, overrides>>

\* Mutant: the count of the first round is used for good.
ReadCountOnce ==
    /\ step = "count" /\ CanLock /\ step' = "decide"
    /\ current' = IF ticks = 1 THEN len ELSE current
    /\ crossed' = \E c \in Callers : pc[c] # "idle"
    /\ UNCHANGED <<scalingVars, ws, ewma, scale, ticks, meant, above, below, overrides>>

ReadCount ==
    /\ step = "count" /\ CanLock /\ step' = "decide"
    /\ current' = len /\ crossed' = \E c \in Callers : pc[c] # "idle"
    /\ UNCHANGED <<scalingVars, ws, ewma, scale, ticks, meant, above, below, overrides>>

\* Mutant: scaling up at the lower threshold.
GoUpAtDown(smoothed) == smoothed > ScaleDownLag

GoUp(smoothed) == smoothed > ScaleUpLag
GoDown(smoothed) == ~GoUp(smoothed) /\ smoothed < ScaleDownLag /\ current > MinReplicas

Decide(smoothed) ==
    /\ step = "decide" /\ step' = "scaling"
    /\ \/ /\ GoUp(smoothed) /\ ScaleTo(Scaler, current + 2)
          /\ meant' = "up" /\ below' = FALSE /\ above' = above
       \/ /\ GoDown(smoothed) /\ ScaleTo(Scaler, current - 1)
          /\ meant' = "down" /\ above' = FALSE /\ below' = below
       \/ /\ ~GoUp(smoothed) /\ ~GoDown(smoothed)
          /\ meant' = "none" /\ UNCHANGED <<scalingVars, above, below>>
    /\ UNCHANGED <<ws, ewma, scale, ticks, current, crossed, overrides>>

\* "1 WS gateway per 3 MQTT consumers", once mqttPool.ScaleTo has returned;
\* the local variables of evaluate end.
targetWS == clamp(len \div 3 + 1, WsMin, WsMax)

ScaleGateways ==
    /\ step = "scaling" /\ pc[Scaler] = "idle" /\ CanLock
    /\ step' = "tick" /\ ws' = targetWS
    /\ current' = 0 /\ meant' = "none" /\ crossed' = FALSE
    /\ UNCHANGED <<scalingVars, ewma, scale, ticks, above, below, overrides>>

\* handleScale; the call of ScaleTo is its last statement.
handleScale(c, n) ==
    /\ c # Scaler /\ overrides < MaxOverrides /\ overrides' = overrides + 1
    /\ ScaleTo(c, n) /\ crossed' = TRUE
    /\ UNCHANGED <<ws, ewma, scale, ticks, step, current, meant, above, below>>

evaluate == (\E l \in Lags : \E raw \in Reported(l) : Sample(raw))
                \/ ReadCount \/ (\E n \in Smoothed : Decide(n)) \/ ScaleGateways

Pool(action) == action /\ UNCHANGED <<evalVars, overrides>>
Calling(c) == Pool(Call(c))
Running(i) == Pool(Process(i))

Next == \/ evaluate
        \/ \E c \in Callers : Calling(c) \/ \E n \in Overrides : handleScale(c, n)
        \/ \E i \in Spawned : Running(i)

Spec == Init /\ [][Next]_vars

\* Processes bind and are killed, checks go on, and a call of ScaleTo proceeds.
FairSpec == /\ Spec
            /\ \A i \in 1..MaxReplicas * (MaxTicks + MaxOverrides + 1) : WF_vars(i \in Spawned /\ Running(i))
            /\ \A c \in Callers : WF_vars(Calling(c))

-----------------------------------------------------------------------------

(* Hysteresis: after a scale-up no scale-down is decided before some sample was *)
(* down at the lower threshold, and after a scale-down no scale-up before some  *)
(* sample was above the upper one; a lag between the two changes nothing,       *)
(* whatever the average remembers and however it was rounded.  (A constant lag  *)
(* equal to the lower threshold may be truncated to less than it.)              *)
HysteresisHolds ==
    [][step = "decide" /\ step' = "scaling" =>
           (meant' = "down" => below) /\ (meant' = "up" => above)]_vars

(* A decision to scale up takes replicas out of the pool, or one to scale down  *)
(* adds some, only when a request of an operator was under way when evaluate    *)
(* read the size or came later: its answer to the old size undoes the override. *)
(* (Calls that overlapped earlier can have left more than MaxReplicas; scaling  *)
(* up then cuts the pool to that.)                                              *)
OnlyOverridesAreUndone ==
    ~crossed => /\ meant = "up" /\ current <= MaxReplicas => pc[Scaler] \notin {"cut", "stop"}
                /\ meant = "down" => pc[Scaler] \notin {"add", "spawn"}
=============================================================================
