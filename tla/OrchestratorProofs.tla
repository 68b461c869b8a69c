---------------------------- MODULE OrchestratorProofs ----------------------------
(***************************************************************************)
(* However often the services crash and whichever pools are scaled: the     *)
(* startup order, and that the Stop of a pool is for good.                  *)
(***************************************************************************)
EXTENDS Orchestrator, TLAPS

States == {"none", "booting", "serving", "draining", "gone"}

Types ==
    /\ proc \in [Slots -> States]
    /\ pc \in {"start", "wait", "run", "stop", "lock", "drain", "exit"}
    /\ at \in Pools

\* What the position in Start and Shutdown says of the pools.
Progress ==
    /\ pc \in {"start", "wait"} => \A p \in Pools : p < at => p \in ready
    /\ pc = "run" => Pools \subseteq ready
    /\ pc \in {"lock", "drain"} => at \in ctx
    /\ \A p \in Pools : Stopped(p) => p \in ctx

IInv == Types /\ Progress /\ StartOrder /\ StoppedForGood

-----------------------------------------------------------------------------

LEMMA SlotsOfPools == \A p \in Pools : First(p) \in Slots /\ Second(p) \in Slots
BY DEF First, Second, Slots

LEMMA PoolOfSlot == \A s \in Slots : s[1] \in Pools
BY DEF Slots

LEMMA InitIInv == Init => IInv
<1> SUFFICES ASSUME Init PROVE IInv  OBVIOUS
<1>1. Types  BY DEF Init, Types, States, Pools
<1>2. Progress  BY DEF Init, Progress, Stopped, Pools
<1>3. StartOrder  BY DEF Init, StartOrder
<1>4. StoppedForGood  BY DEF Init, StoppedForGood, Alive
<1> QED  BY <1>1, <1>2, <1>3, <1>4 DEF IInv

\* A step that starts no process leaves the order of the startup as it is.
LEMMA OrderKept ==
    ASSUME Types, StartOrder, ready \subseteq ready',
           \A s \in Slots : proc'[s] # "none" => proc[s] # "none"
    PROVE  StartOrder'
BY DEF StartOrder

\* A step that revives nothing in a stopped pool keeps those pools stopped.
LEMMA StillStopped ==
    ASSUME StoppedForGood, missed \subseteq missed',
           \A p \in Pools : Stopped(p)' => Stopped(p),
           \A s \in Slots : Stopped(s[1]) /\ Alive(s)' => Alive(s)
    PROVE  StoppedForGood'
BY PoolOfSlot DEF StoppedForGood

-----------------------------------------------------------------------------
(* Start *)

LEMMA StartPoolKeeps == IInv /\ StartPool => IInv'
<1> SUFFICES ASSUME IInv, StartPool PROVE IInv'  OBVIOUS
<1> USE DEF IInv
<1>1. pc' \in {"wait", "stop"} /\ pc = "start" /\ ready' = ready /\ ctx' = ctx /\ missed' = missed
  BY DEF StartPool, GiveUpStart
<1>2. proc' = proc \/ proc' = [proc EXCEPT ![First(at)] = "booting"]
  BY DEF StartPool, AddFirst
<1>3. at' = at \/ (pc' = "stop" /\ at' = 3)
  BY DEF StartPool, GiveUpStart
<1>4. Types'
  BY <1>1, <1>2, <1>3, SlotsOfPools DEF Types, States, Pools
<1>5. \A p \in Pools : ~Stopped(p)'
  BY <1>1, <1>3 DEF Stopped, Pools, StartPool, GiveUpStart
<1>6. Progress'
  BY <1>1, <1>3, <1>5 DEF Progress
<1>7. StartOrder'
  <2> SUFFICES ASSUME NEW s \in Slots, NEW t \in Slots, s[1] < t[1], proc'[t] # "none"
               PROVE  s[1] \in ready
    BY <1>1 DEF StartOrder
  <2>1. CASE proc[t] # "none"  BY <2>1 DEF StartOrder
  <2>2. CASE proc[t] = "none"
    <3>1. t = First(at)  BY <1>2, <2>2, SlotsOfPools DEF Types
    <3>2. t[1] = at  BY <3>1 DEF First
    <3> QED  BY <1>1, <3>2, PoolOfSlot DEF Progress
  <2> QED  BY <2>1, <2>2
<1>8. StoppedForGood'
  BY <1>5, PoolOfSlot DEF StoppedForGood
<1> QED  BY <1>4, <1>6, <1>7, <1>8

LEMMA WaitReadyKeeps == IInv /\ WaitReady => IInv'
<1> SUFFICES ASSUME IInv, WaitReady PROVE IInv'  OBVIOUS
<1> USE DEF IInv
<1>1. /\ proc' = proc /\ ctx' = ctx /\ missed' = missed /\ pc = "wait"
      /\ ready \subseteq ready' /\ pc' \in {"start", "run", "stop"}
  BY DEF WaitReady, StartNext, GiveUpStart
<1>2. Types'
  BY <1>1 DEF Types, WaitReady, StartNext, GiveUpStart, Pools
<1>3. \A p \in Pools : ~Stopped(p)'
  BY <1>1 DEF Stopped, Pools, WaitReady, StartNext, GiveUpStart
<1>4. pc' \in {"start", "wait"} => \A p \in Pools : p < at' => p \in ready'
  BY <1>1 DEF Progress, Types, WaitReady, StartNext, GiveUpStart, Pools
<1>5. pc' = "run" => Pools \subseteq ready'
  BY <1>1 DEF Progress, Types, WaitReady, StartNext, GiveUpStart, Pools
<1>6. Progress'  BY <1>1, <1>3, <1>4, <1>5 DEF Progress
<1>7. StartOrder'  BY <1>1, OrderKept
<1>8. StoppedForGood'  BY <1>3, PoolOfSlot DEF StoppedForGood
<1> QED  BY <1>2, <1>6, <1>7, <1>8

LEMMA BeginShutdownKeeps == IInv /\ BeginShutdown => IInv'
<1> SUFFICES ASSUME IInv, BeginShutdown PROVE IInv'  OBVIOUS
<1> USE DEF IInv, BeginShutdown, pool
<1>1. Types'  BY DEF Types, Pools
<1>2. \A p \in Pools : ~Stopped(p)'  BY DEF Stopped, Pools
<1>3. Progress'  BY <1>2 DEF Progress
<1>4. StartOrder'  BY OrderKept
<1>5. StoppedForGood'  BY <1>2, PoolOfSlot DEF StoppedForGood
<1> QED  BY <1>1, <1>3, <1>4, <1>5

-----------------------------------------------------------------------------
(* Shutdown *)

LEMMA CancelPoolKeeps == IInv /\ CancelPool => IInv'
<1> SUFFICES ASSUME IInv, CancelPool PROVE IInv'  OBVIOUS
<1> USE DEF IInv
<1>1. /\ pc = "stop" /\ pc' = "lock" /\ at' = at /\ ctx' = ctx \cup {at}
      /\ proc' = proc /\ ready' = ready /\ missed' = missed
  BY DEF CancelPool
<1>2. Types'  BY <1>1 DEF Types
<1>3. \A p \in Pools : Stopped(p)' => Stopped(p)  BY <1>1 DEF Stopped
<1>4. Progress'  BY <1>1, <1>3 DEF Progress
<1>5. StartOrder'  BY <1>1, OrderKept
<1>6. StoppedForGood'  BY <1>1, <1>3, StillStopped DEF Alive
<1> QED  BY <1>2, <1>4, <1>5, <1>6

LEMMA StopPoolKeeps == IInv /\ StopPool => IInv'
<1> SUFFICES ASSUME IInv, StopPool PROVE IInv'  OBVIOUS
<1> USE DEF IInv
<1>1. /\ pc = "lock" /\ pc' = "drain" /\ at' = at /\ ctx' = ctx
      /\ ready' = ready /\ missed' = missed
  BY DEF StopPool
<1>2. \A s \in Slots : proc'[s] = proc[s] \/ (proc[s] = "serving" /\ proc'[s] = "draining")
                                          \/ (proc[s] = "booting" /\ proc'[s] = "gone")
  BY DEF StopPool
<1>3. Types'  BY <1>1, <1>2 DEF Types, States, StopPool
<1>4. \A p \in Pools : Stopped(p)' => Stopped(p)  BY <1>1 DEF Stopped
<1>5. Progress'  BY <1>1, <1>4 DEF Progress
<1>6. StartOrder'  BY <1>1, <1>2, OrderKept
<1>7. StoppedForGood'  BY <1>1, <1>2, <1>4, StillStopped DEF Alive
<1> QED  BY <1>3, <1>5, <1>6, <1>7

LEMMA PoolStoppedKeeps == IInv /\ PoolStopped => IInv'
<1> SUFFICES ASSUME IInv, PoolStopped PROVE IInv'  OBVIOUS
<1> USE DEF IInv
<1>1. /\ pc = "drain" /\ ctx' = ctx /\ ready' = ready /\ missed' = missed \cup Uncounted(at)
      /\ \/ at = 1 /\ pc' = "exit" /\ at' = at
         \/ at # 1 /\ pc' = "stop" /\ at' = at - 1
  BY DEF PoolStopped, NextStop
<1>2. \A s \in Slots : proc'[s] = proc[s] \/ (proc[s] # "none" /\ proc'[s] = "gone")
  BY DEF PoolStopped, Alive
<1>3. \A s \in Slots : s[1] = at /\ s \notin missed' => ~Alive(s)'
  <2> SUFFICES ASSUME NEW s \in Slots, s[1] = at, s \notin missed' PROVE ~Alive(s)'
    OBVIOUS
  <2>1. s \in listed /\ s \in watched  BY <1>1 DEF Uncounted
  <2>2. CASE ~Alive(s) /\ proc' = proc  BY <2>2 DEF Alive
  <2>3. CASE proc' = [t \in Slots |-> IF t \in Listed(at) /\ Alive(t) THEN "gone" ELSE proc[t]]
    BY <2>1, <2>3 DEF Listed, Alive
  <2> QED  BY <2>1, <2>2, <2>3 DEF PoolStopped
<1>4. Types'  BY <1>1, <1>2 DEF Types, States, Pools, PoolStopped
<1>5. \A p \in Pools : Stopped(p)' => Stopped(p) \/ p = at
  BY <1>1 DEF Stopped, Types, Pools
<1>6. Progress'  BY <1>1, <1>5 DEF Progress
<1>7. StartOrder'  BY <1>1, <1>2, OrderKept
<1>8. StoppedForGood'
  <2> SUFFICES ASSUME NEW s \in Slots, Stopped(s[1])', Alive(s)' PROVE s \in missed'
    BY DEF StoppedForGood
  <2>1. CASE s[1] = at  BY <1>3, <2>1
  <2>2. CASE Stopped(s[1])  BY <1>1, <1>2, <2>2 DEF StoppedForGood, Alive
  <2> QED  BY <1>5, <2>1, <2>2, PoolOfSlot
<1> QED  BY <1>4, <1>6, <1>7, <1>8

-----------------------------------------------------------------------------
(* Scaling *)

LEMMA ScalingKeeps == ASSUME NEW p \in Pools PROVE IInv /\ Scaling(p) => IInv'
<1> SUFFICES ASSUME IInv, Scaling(p) PROVE IInv'  OBVIOUS
<1> USE DEF IInv
<1>0. UNCHANGED main  BY DEF Scaling, Spawn, Append, Watch, ScaleDown, PanicWithLock
<1>1. Progress' /\ \A q \in Pools : Stopped(q)' <=> Stopped(q)
  BY <1>0 DEF Progress, Stopped, main
<1>2. CASE Spawn(p)
  <2>1. pc = "run" /\ proc' = [proc EXCEPT ![Second(p)] = "booting"]  BY <1>2 DEF Spawn
  <2>2. Types'  BY <1>0, <2>1, SlotsOfPools DEF Types, States, main
  <2>3. StartOrder'  BY <1>0, <2>1, PoolOfSlot DEF StartOrder, Progress, main
  <2>4. StoppedForGood'  BY <1>0, <2>1 DEF StoppedForGood, Stopped, main
  <2> QED  BY <1>1, <2>2, <2>3, <2>4
<1>3. CASE Append(p) \/ Watch(p) \/ PanicWithLock(p)
  <2>1. proc' = proc  BY <1>3 DEF Append, Watch, PanicWithLock
  <2> QED  BY <1>0, <1>1, <2>1, OrderKept, StillStopped DEF Types, main, Alive
<1>4. CASE ScaleDown(p)
  <2>1. \A s \in Slots : proc'[s] = proc[s] \/ (proc[s] = "serving" /\ proc'[s] = "draining")
                                            \/ (proc[s] = "booting" /\ proc'[s] = "gone")
    BY <1>4 DEF ScaleDown, Terminate, Types
  <2>2. Types'  BY <1>0, <1>4, <2>1 DEF Types, States, main, ScaleDown, Terminate
  <2> QED  BY <1>0, <1>1, <2>1, <2>2, OrderKept, StillStopped DEF main, Alive
<1> QED  BY <1>2, <1>3, <1>4 DEF Scaling

-----------------------------------------------------------------------------
(* The services *)

\* Only a watcher that was not cancelled starts a process again.
LEMMA ServiceKeeps == ASSUME NEW s \in Slots PROVE IInv /\ Service(s) => IInv'
<1> SUFFICES ASSUME IInv, Service(s) PROVE IInv'  OBVIOUS
<1> USE DEF IInv
<1>0. UNCHANGED main
  BY DEF Service, Boots, Drained, Crash, Respawn, KilledByContext
<1>1. Progress' /\ \A q \in Pools : Stopped(q)' <=> Stopped(q)
  BY <1>0 DEF Progress, Stopped, main
<1>2. PICK new \in States \ {"none"} : proc' = [proc EXCEPT ![s] = new]
  BY DEF Service, Boots, Drained, Crash, Respawn, KilledByContext, States
<1>3. proc[s] # "none"
  BY DEF Service, Boots, Drained, Crash, Respawn, KilledByContext, Alive
<1>4. Types'  BY <1>0, <1>2 DEF Types, main
<1>5. StartOrder'
  BY <1>0, <1>2, <1>3, OrderKept DEF Types, main
<1>6. Alive(s) \/ ~Alive(s)' \/ ~Stopped(s[1])
  <2>1. CASE Respawn(s)
    BY <2>1, PoolOfSlot DEF Respawn, Cancelled, Progress
  <2>2. CASE ~Respawn(s)
    BY <2>2 DEF Service, Boots, Drained, Crash, KilledByContext, Alive, Types
  <2> QED  BY <2>1, <2>2
<1>7. \A t \in Slots \ {s} : Alive(t)' <=> Alive(t)
  BY <1>2 DEF Alive, Types
<1>8. StoppedForGood'
  BY <1>0, <1>1, <1>6, <1>7, StillStopped DEF main
<1> QED  BY <1>1, <1>4, <1>5, <1>8

-----------------------------------------------------------------------------

LEMMA SpecIInv == Spec => []IInv
<1>1. ASSUME IInv, [Next]_vars PROVE IInv'
  <2>1. CASE Signal \/ UNCHANGED vars
    <3>1. UNCHANGED <<proc, ready, pc, at, ctx, missed>>
      BY <2>1 DEF Signal, vars, main
    <3> QED  BY <1>1, <3>1 DEF IInv, Types, Progress, StartOrder, StoppedForGood, Stopped, Alive
  <2>2. CASE Main
    BY <1>1, <2>2, StartPoolKeeps, WaitReadyKeeps, BeginShutdownKeeps, CancelPoolKeeps, StopPoolKeeps,
       PoolStoppedKeeps DEF Main
  <2>3. CASE \E p \in Scalable : Scaling(p)
    BY <1>1, <2>3, ScalingKeeps, OrchestratorConstants
  <2>4. CASE \E s \in Slots : Service(s)  BY <1>1, <2>4, ServiceKeeps
  <2> QED  BY <1>1, <2>1, <2>2, <2>3, <2>4 DEF Next
<1> QED  BY InitIInv, <1>1, PTL DEF Spec

(* For any number of crashes, a signal at any moment and scaling in progress:*)
(* a pool has processes only when all pools before it were found ready.      *)
THEOREM StartsInOrder == Spec => []StartOrder
<1>1. IInv => StartOrder  BY DEF IInv
<1> QED  BY SpecIInv, <1>1, PTL

(* Under the same conditions, what Stop was able to look for in a pool stays *)
(* dead once Stop is done.                                                   *)
THEOREM StopIsForGood == Spec => []StoppedForGood
<1>1. IInv => StoppedForGood  BY DEF IInv
<1> QED  BY SpecIInv, <1>1, PTL
=============================================================================
