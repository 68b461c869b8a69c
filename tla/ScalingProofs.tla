------------------------------ MODULE ScalingProofs ------------------------------
(***************************************************************************)
(* Proofs about the scaling of a pool.  For every number of callers whose   *)
(* calls of ScaleTo overlap in any way, every limits of the pool and number *)
(* of failing spawns: what is stopped is what left the slice but for the    *)
(* entries an append overwrote, only overrides are undone, and decisions    *)
(* have hysteresis, for every smoothing factor and precision.               *)
(***************************************************************************)
EXTENDS AutoScaler, FiniteSetTheorems, TLAPS

-----------------------------------------------------------------------------
(* The invariant of the pool *)

Positions == {"idle", "size", "add", "spawn", "cut", "stop", "panicked"}
Idle(c) == pc[c] = "idle"
At(k) == arrays[cur][k]

Types ==
    /\ arrays \in Seq(Seq(Nat)) /\ cur \in 1..Len(arrays)
    /\ len \in Nat \ {0} /\ len <= Len(arrays[cur])
    /\ replica \in Seq(Int) /\ index \in [Callers -> Int]
    /\ pc \in [Callers -> Positions]
    /\ target \in [Callers -> Int] /\ todo \in [Callers -> Int]
    /\ stops \in [Callers -> Int \X Int \X Int]

\* The slice holds processes that were spawned, each of them once.
Slice ==
    /\ \A k \in 1..len : At(k) \in Spawned
    /\ \A j, k \in 1..len : j # k => At(j) # At(k)

\* What a call has still to do.
CallOf(c) ==
    /\ pc[c] \in {"size", "cut"} => target[c] \in MinReplicas..MaxReplicas
    /\ pc[c] = "stop" => /\ stops[c][1] \in 1..Len(arrays)
                         /\ stops[c][2] >= 1 /\ stops[c][3] <= Len(arrays[stops[c][1]])
Calls == \A c \in Callers : CallOf(c)

\* StopsWhatLeft, for each process.
Left(x) == x \in Spawned /\ \A k \in 1..len : At(k) # x
Awaiting(c, x) == /\ pc[c] = "stop"
                  /\ \E k \in stops[c][2]..stops[c][3] : arrays[stops[c][1]][k] = x
IsDoomed(x) == x \in cancelled \/ \E c \in Callers : Awaiting(c, x)
LostTo(x, W) == \E p \in W : p[1] = x
MistakenIn(x, W) == \E p \in W : p[2] = x
Lost(x) == LostTo(x, overwritten)
Mistaken(x) == MistakenIn(x, overwritten)
LeftIsDoomed == \A x : /\ Left(x) => IsDoomed(x) \/ Lost(x)
                       /\ IsDoomed(x) => Left(x) \/ Mistaken(x)

PoolInv == Types /\ Slice /\ Calls /\ LeftIsDoomed

LEMMA EachProcess == LeftIsDoomed => StopsWhatLeft
<1> SUFFICES ASSUME LeftIsDoomed PROVE StopsWhatLeft  OBVIOUS
<1>1. \A x : x \in Doomed <=> IsDoomed(x)
  <2>1. \A c : \A x : x \in ToStop(c) <=> Awaiting(c, x)  BY DEF ToStop, Awaiting
  <2>2. \A x : x \in UNION {ToStop(c) : c \in Callers} <=> \E c \in Callers : x \in ToStop(c)
    OBVIOUS
  <2> QED  BY <2>1, <2>2 DEF Doomed, IsDoomed
<1>2. \A x : x \in Spawned \ InPool <=> Left(x)  BY DEF InPool, At, Left
<1>3. \A x : /\ x \in {p[1] : p \in overwritten} <=> Lost(x)
             /\ x \in {p[2] : p \in overwritten} <=> Mistaken(x)
  BY DEF Lost, Mistaken, LostTo, MistakenIn
<1> DEFINE Gone == Spawned \ InPool
           Olds == {p[1] : p \in overwritten}
           News == {p[2] : p \in overwritten}
<1> HIDE DEF Gone, Olds, News
<1>4. \A x : /\ x \in Gone <=> Left(x)
             /\ x \in Olds <=> Lost(x)
             /\ x \in News <=> Mistaken(x)
  BY <1>2, <1>3 DEF Gone, Olds, News
<1>5. Gone \subseteq Doomed \cup Olds /\ Doomed \subseteq Gone \cup News
  BY <1>1, <1>4 DEF LeftIsDoomed
<1> QED  BY <1>5 DEF StopsWhatLeft, Gone, Olds, News

\* The limits, alone: what most of the proofs need of the assumption.
LEMMA Limits ==
    /\ MinReplicas \in Nat \ {0} /\ MaxReplicas \in Nat
    /\ MinReplicas <= MaxReplicas /\ MaxReplicas <= 256
BY ScalingConstants

\* A slice of at most 256 elements has a capacity.
LEMMA CapacityFits ==
    ASSUME NEW k \in 1..256 PROVE CapFor(k) \in Nat /\ CapFor(k) >= k
<1> DEFINE Powers == {1, 2, 4, 8, 16, 32, 64, 128, 256}
<1>1. \E c \in Powers : c >= k /\ c < 2 * k
  <2>1. CASE k = 1  BY <2>1
  <2>2. CASE k \in 2..3  BY <2>2
  <2>3. CASE k \in 4..15  BY <2>3
  <2>4. CASE k \in 16..63  BY <2>4
  <2>5. CASE k \in 64..256  BY <2>5
  <2> QED  BY <2>1, <2>2, <2>3, <2>4, <2>5
<1>2. CapFor(k) \in Powers /\ CapFor(k) >= k  BY <1>1 DEF CapFor
<1> QED  BY <1>2

LEMMA InitPool == ScalingInit => PoolInv
<1> SUFFICES ASSUME ScalingInit PROVE PoolInv  OBVIOUS
<1> DEFINE cap == CapFor(MinReplicas)
           first == [k \in 1..cap |-> IF k <= MinReplicas THEN k ELSE 0]
<1>1. MinReplicas \in 1..256 /\ MinReplicas \in MinReplicas..MaxReplicas
  BY ScalingConstants
<1>2. cap \in Nat /\ cap >= MinReplicas  BY <1>1, CapacityFits
<1> HIDE DEF cap
<1>3. first \in Seq(Nat) /\ Len(first) = cap /\ \A k \in 1..MinReplicas : first[k] = k
  BY <1>1, <1>2
<1>4. arrays = <<first>> /\ cur = 1 /\ len = MinReplicas /\ cancelled = {}
  BY DEF ScalingInit, cap
<1> HIDE DEF first
<1>5. arrays \in Seq(Seq(Nat)) /\ Len(arrays) = 1 /\ arrays[cur] = first
  BY <1>3, <1>4
<1>6. replica \in Seq(Int) /\ Len(replica) = MinReplicas
  BY <1>1 DEF ScalingInit
<1>7. \A c \in Callers : pc[c] = "idle"  BY DEF ScalingInit
<1>8. Types
  <2>1. arrays \in Seq(Seq(Nat)) /\ cur \in 1..Len(arrays)  BY <1>4, <1>5
  <2>2. len \in Nat \ {0} /\ len <= Len(arrays[cur])
    BY <1>1, <1>2, <1>3, <1>4, <1>5
  <2>3. index \in [Callers -> Int] /\ pc \in [Callers -> Positions]
        /\ target \in [Callers -> Int] /\ todo \in [Callers -> Int]
    BY DEF ScalingInit, Positions
  <2>4. stops \in [Callers -> Int \X Int \X Int]  BY DEF ScalingInit
  <2> QED  BY <1>6, <2>1, <2>2, <2>3, <2>4 DEF Types
<1>9. \A k \in 1..len : At(k) = k  BY <1>3, <1>4, <1>5 DEF At
<1>10. Slice  BY <1>4, <1>6, <1>9 DEF Slice, Spawned
<1>11. Calls  BY <1>7 DEF Calls, CallOf
<1>12. \A c \in Callers : \A x : ~Awaiting(c, x)  BY <1>7 DEF Awaiting
<1>13. LeftIsDoomed
  BY <1>4, <1>6, <1>9, <1>12 DEF LeftIsDoomed, Left, IsDoomed, Spawned
<1> QED  BY <1>8, <1>10, <1>11, <1>13 DEF PoolInv

-----------------------------------------------------------------------------
(* The steps of ScaleTo *)

LEMMA Clamped == ASSUME NEW n \in Int PROVE clamp(n, MinReplicas, MaxReplicas) \in MinReplicas..MaxReplicas
BY Limits DEF clamp

\* With the slice, what is cancelled and the stopping calls unchanged.
LEMMA NothingLeaves ==
    ASSUME LeftIsDoomed, UNCHANGED <<arrays, cur, len, replica, cancelled, stops, overwritten>>,
           \A c \in Callers : pc[c] = "stop" <=> pc'[c] = "stop"
    PROVE  LeftIsDoomed'
<1>1. \A x : Left(x)' <=> Left(x)  BY DEF Left, Spawned, At
<1>2. \A x : IsDoomed(x)' <=> IsDoomed(x)  BY DEF IsDoomed, Awaiting
<1>3. \A x : (Lost(x)' <=> Lost(x)) /\ (Mistaken(x)' <=> Mistaken(x))  BY DEF Lost, Mistaken, LostTo, MistakenIn
<1> QED  BY <1>1, <1>2, <1>3 DEF LeftIsDoomed

\* A step of c to a position other than "stop" that leaves the slice alone.
LEMMA QuietStep ==
    ASSUME PoolInv, NEW c \in Callers, pc[c] # "stop",
           UNCHANGED <<arrays, cur, len, replica, cancelled, stops, overwritten>>,
           NEW p \in Positions \ {"stop"}, pc' = [pc EXCEPT ![c] = p],
           target' \in [Callers -> Int], todo' \in [Callers -> Int], index' \in [Callers -> Int],
           \A d \in Callers \ {c} : target'[d] = target[d],
           p \in {"size", "cut"} => target'[c] \in MinReplicas..MaxReplicas
    PROVE  PoolInv'
<1> USE DEF PoolInv
<1>1. pc' \in [Callers -> Positions] /\ pc'[c] = p /\ \A d \in Callers \ {c} : pc'[d] = pc[d]
  BY DEF Types
<1>2. Types'  BY <1>1 DEF Types
<1>3. Slice'  BY DEF Slice, At, Spawned
<1>4. Calls'  BY <1>1 DEF Calls, CallOf
<1>5. LeftIsDoomed'  BY <1>1, NothingLeaves
<1> QED  BY <1>2, <1>3, <1>4, <1>5

LEMMA ScaleToKeeps ==
    ASSUME PoolInv, NEW c \in Callers, NEW n \in Int, ScaleTo(c, n)
    PROVE  PoolInv'
<1>1. /\ UNCHANGED <<arrays, cur, len, replica, cancelled, todo, index, stops, overwritten>>
      /\ pc[c] = "idle" /\ pc' = [pc EXCEPT ![c] = "size"]
      /\ target' = [target EXCEPT ![c] = clamp(n, MinReplicas, MaxReplicas)]
  BY DEF ScaleTo, poolVars, Goto
<1>2. /\ target' \in [Callers -> Int] /\ target'[c] \in MinReplicas..MaxReplicas
      /\ \A d \in Callers \ {c} : target'[d] = target[d]
  BY <1>1, Clamped, Limits DEF PoolInv, Types
<1>3. todo' \in [Callers -> Int] /\ index' \in [Callers -> Int]
  BY <1>1 DEF PoolInv, Types
<1> QED  BY <1>1, <1>2, <1>3, QuietStep DEF Positions

\* ReadSize and ReadIndex leave the slice alone.
LEMMA ReadKeeps ==
    ASSUME PoolInv, NEW c \in Callers, ReadSize(c) \/ ReadIndex(c)
    PROVE  PoolInv'
<1>1. /\ UNCHANGED <<arrays, cur, len, replica, cancelled, target, stops, overwritten>>
      /\ pc[c] \in {"size", "add"}
  BY DEF ReadSize, ReadIndex, poolVars, historyVars
<1>2. PICK p \in Positions \ {"stop"} :
          pc' = [pc EXCEPT ![c] = p] /\ (p \in {"size", "cut"} => pc[c] = "size")
  BY DEF ReadSize, ReadIndex, Goto, Positions
<1>3. todo' \in [Callers -> Int] /\ index' \in [Callers -> Int] /\ target' \in [Callers -> Int]
  <2>1. /\ todo \in [Callers -> Int] /\ index \in [Callers -> Int]
        /\ target \in [Callers -> Int] /\ len \in Int
    BY DEF PoolInv, Types
  <2> QED  BY <1>1, <2>1 DEF ReadSize, ReadIndex
<1>4. pc[c] = "size" => target[c] \in MinReplicas..MaxReplicas
  BY DEF PoolInv, Calls, CallOf
<1> QED  BY <1>1, <1>2, <1>3, <1>4, QuietStep

\* append, in place or into an array of twice the size.
LEMMA Appended ==
    ASSUME Types, NEW i \in Nat, AppendInstance(i)
    PROVE  /\ arrays' \in Seq(Seq(Nat)) /\ cur' \in 1..Len(arrays')
           /\ len' = len + 1 /\ len' <= Len(arrays'[cur'])
           /\ \A k \in 1..len : At(k)' = At(k)
           /\ arrays'[cur'][len + 1] = i
           /\ Len(arrays') >= Len(arrays)
           /\ \A a \in 1..Len(arrays) :
               /\ Len(arrays'[a]) = Len(arrays[a])
               /\ \A k \in 1..Len(arrays[a]) :
                      a # cur \/ k # len + 1 => arrays'[a][k] = arrays[a][k]
<1> DEFINE A == arrays[cur]
<1>1. A \in Seq(Nat) /\ len \in Nat \ {0} /\ len <= Len(A) /\ Len(A) \in Nat
      /\ cur \in 1..Len(arrays) /\ arrays \in Seq(Seq(Nat)) /\ len' = len + 1
  <2>1. A \in Seq(Nat) /\ cur \in 1..Len(arrays) /\ arrays \in Seq(Seq(Nat)) /\ len <= Len(A)
    BY DEF Types
  <2>2. len' = len + 1  BY DEF AppendInstance
  <2> QED  BY <2>1, <2>2 DEF Types
<1>2. CASE len < Len(A)
  <2> DEFINE B == [A EXCEPT ![len + 1] = i]
  <2>1. arrays' = [arrays EXCEPT ![cur] = B] /\ cur' = cur
    BY <1>1, <1>2 DEF AppendInstance
  <2>2. /\ B \in Seq(Nat) /\ Len(B) = Len(A) /\ B[len + 1] = i
        /\ \A k \in 1..Len(A) : k # len + 1 => B[k] = A[k]
    BY <1>1, <1>2
  <2> HIDE DEF B
  <2>3. /\ arrays' \in Seq(Seq(Nat)) /\ Len(arrays') = Len(arrays) /\ arrays'[cur'] = B
        /\ \A a \in 1..Len(arrays) : a # cur => arrays'[a] = arrays[a]
    BY <1>1, <2>1, <2>2
  <2>4. \A k \in 1..len : At(k)' = At(k)
    <3>1. \A k \in 1..len : k \in 1..Len(A) /\ k # len + 1  BY <1>1
    <3> QED  BY <2>2, <2>3, <3>1 DEF At
  <2>5. \A a \in 1..Len(arrays) :
            /\ Len(arrays'[a]) = Len(arrays[a])
            /\ \A k \in 1..Len(arrays[a]) :
                   a # cur \/ k # len + 1 => arrays'[a][k] = arrays[a][k]
    <3> TAKE a \in 1..Len(arrays)
    <3>1. CASE a = cur  BY <2>1, <2>2, <2>3, <3>1
    <3>2. CASE a # cur  BY <2>3, <3>2
    <3> QED  BY <3>1, <3>2
  <2> QED  BY <1>1, <1>2, <2>1, <2>2, <2>3, <2>4, <2>5
<1>3. CASE ~(len < Len(A))
  <2> DEFINE B == [k \in 1..2 * len |->
                      IF k <= len THEN A[k] ELSE IF k = len + 1 THEN i ELSE 0]
  <2>1. arrays' = Append(arrays, B) /\ cur' = Len(arrays) + 1
    BY <1>1, <1>3 DEF AppendInstance
  <2>2. B \in Seq(Nat) /\ Len(B) = 2 * len /\ B[len + 1] = i /\ \A k \in 1..len : B[k] = A[k]
    <3>1. 2 * len \in Nat /\ len + 1 \in 1..2 * len /\ ~(len + 1 <= len)
          /\ \A k \in 1..2 * len : k <= len => k \in 1..Len(A)
      BY <1>1
    <3>2. \A k \in 1..2 * len : B[k] \in Nat
      <4>1. \A k \in 1..Len(A) : A[k] \in Nat  BY <1>1
      <4> QED  BY <3>1, <4>1
    <3>3. B \in [1..2 * len -> Nat]  BY <3>2
    <3>4. B \in Seq(Nat) /\ Len(B) = 2 * len  BY <3>1, <3>3
    <3>5. B[len + 1] = i  BY <3>1
    <3>6. \A k \in 1..len : B[k] = A[k]  BY <1>1
    <3> QED  BY <3>4, <3>5, <3>6
  <2> HIDE DEF B
  <2>3. /\ arrays' \in Seq(Seq(Nat)) /\ Len(arrays') = Len(arrays) + 1 /\ arrays'[cur'] = B
        /\ cur' \in 1..Len(arrays')
        /\ \A a \in 1..Len(arrays) : arrays'[a] = arrays[a]
    BY <1>1, <2>1, <2>2
  <2>4. \A k \in 1..len : At(k)' = At(k)  BY <1>1, <2>2, <2>3 DEF At
  <2> QED  BY <1>1, <2>1, <2>2, <2>3, <2>4
<1> QED  BY <1>2, <1>3

LEMMA SpawnAppendKeeps ==
    ASSUME PoolInv, NEW c \in Callers, SpawnAppend(c)
    PROVE  PoolInv'
<1> USE DEF PoolInv
<1>1. /\ UNCHANGED <<cancelled, target, index, stops>>
      /\ pc[c] = "spawn" /\ NextAdd(c)
  BY DEF SpawnAppend
<1>2. PICK p \in {"idle", "add"} : pc' = [pc EXCEPT ![c] = p]
  BY <1>1 DEF NextAdd, Goto
<1>3. /\ todo' \in [Callers -> Int] /\ target' \in [Callers -> Int]
      /\ index' \in [Callers -> Int]
  BY <1>1 DEF NextAdd, Types
<1>4. CASE UNCHANGED <<poolVars, overwritten>>
  <2>1. UNCHANGED <<arrays, cur, len, replica, overwritten>>  BY <1>4 DEF poolVars
  <2> QED  BY <1>1, <1>2, <1>3, <2>1, QuietStep DEF Positions
<1>5. CASE replica' = Append(replica, index[c]) /\ AppendInstance(Len(replica) + 1)
  <2> DEFINE new == Len(replica) + 1
  <2>1. /\ replica \in Seq(Int) /\ index[c] \in Int /\ new \in Nat /\ Len(replica) \in Nat
        /\ replica' \in Seq(Int) /\ Len(replica') = new
    BY <1>5 DEF Types
  <2>2. /\ arrays' \in Seq(Seq(Nat)) /\ cur' \in 1..Len(arrays')
        /\ len' = len + 1 /\ len' <= Len(arrays'[cur'])
        /\ \A k \in 1..len : At(k)' = At(k)
        /\ arrays'[cur'][len + 1] = new
        /\ Len(arrays') >= Len(arrays)
        /\ \A a \in 1..Len(arrays) :
            /\ Len(arrays'[a]) = Len(arrays[a])
            /\ \A k \in 1..Len(arrays[a]) :
                   a # cur \/ k # len + 1 => arrays'[a][k] = arrays[a][k]
    BY <1>5, <2>1, Appended
  <2>3. len \in Nat \ {0} /\ len' \in Nat \ {0} /\ Len(arrays) \in Nat /\ Len(arrays') \in Nat
    <3>1. len \in Nat \ {0} /\ arrays \in Seq(Seq(Nat))  BY DEF Types
    <3> QED  BY <2>2, <3>1
  <2>4. pc' \in [Callers -> Positions] /\ pc'[c] = p /\ \A d \in Callers \ {c} : pc'[d] = pc[d]
    BY <1>2 DEF Types, Positions
  <2>5. Types'  BY <1>1, <1>3, <2>1, <2>2, <2>3, <2>4 DEF Types
  <2>6. \A x : x \in Spawned' <=> x \in Spawned \/ x = new
    BY <2>1 DEF Spawned
  <2>7. new \notin Spawned  BY <2>1 DEF Spawned
  <2>8. \A k : k \in 1..len' <=> k \in 1..len \/ k = len + 1  BY <2>2, <2>3
  <2>9. Slice'
    <3>1. \A k \in 1..len' : (k \in 1..len /\ At(k)' = At(k)) \/ (k = len + 1 /\ At(k)' = new)
      BY <2>2, <2>8 DEF At
    <3>2. \A k \in 1..len : At(k) \in Spawned  BY DEF Slice
    <3> QED  BY <2>6, <2>7, <3>1, <3>2 DEF Slice
  <2>10. Calls'
    <3> SUFFICES ASSUME NEW d \in Callers PROVE CallOf(d)'  BY DEF Calls
    <3>1. CallOf(d)  BY DEF Calls
    <3>2. pc'[d] = "stop" => pc[d] = "stop"  BY <1>2, <2>4
    <3>3. pc'[d] \in {"size", "cut"} => pc[d] = pc'[d]  BY <1>2, <2>4
    <3>4. ASSUME pc'[d] = "stop"
          PROVE  /\ stops'[d][1] \in 1..Len(arrays')
                 /\ stops'[d][2] >= 1 /\ stops'[d][3] <= Len(arrays'[stops'[d][1]])
      <4>1. /\ stops[d][1] \in 1..Len(arrays)
            /\ stops[d][2] >= 1 /\ stops[d][3] <= Len(arrays[stops[d][1]])
        BY <3>1, <3>2, <3>4 DEF CallOf
      <4>2. 1..Len(arrays) \subseteq 1..Len(arrays')  BY <2>2, <2>3
      <4> QED  BY <1>1, <2>2, <4>1, <4>2
    <3> QED  BY <1>1, <3>1, <3>3, <3>4 DEF CallOf
  <2>11. \A x : Left(x)' <=> Left(x)
    <3> SUFFICES ASSUME NEW x PROVE Left(x)' <=> Left(x)  OBVIOUS
    <3>1. (\A k \in 1..len' : At(k)' # x) <=> (x # new /\ \A k \in 1..len : At(k) # x)
      BY <2>2, <2>8 DEF At
    <3> QED  BY <2>6, <2>7, <3>1 DEF Left
  \* An entry that changed under a stopping call is in overwritten.
  <2>12. /\ \A x : Lost(x) => Lost(x)'
         /\ \A x : Mistaken(x) => Mistaken(x)'
         /\ len < Len(arrays[cur]) /\ Awaited
                => /\ LostTo(arrays[cur][len + 1], overwritten')
                   /\ MistakenIn(new, overwritten')
    <3>1. \A q \in overwritten : q \in overwritten'  BY <1>5 DEF AppendInstance
    <3>2. len < Len(arrays[cur]) /\ Awaited
              => <<arrays[cur][len + 1], new>> \in overwritten'
      BY <1>5 DEF AppendInstance
    <3>3. <<arrays[cur][len + 1], new>>[1] = arrays[cur][len + 1]
          /\ <<arrays[cur][len + 1], new>>[2] = new
      OBVIOUS
    <3> HIDE DEF new
    <3>4. /\ \A x : Lost(x) => Lost(x)'
          /\ \A x : Mistaken(x) => Mistaken(x)'
      BY <3>1 DEF Lost, Mistaken, LostTo, MistakenIn
    <3>5. ASSUME len < Len(arrays[cur]), Awaited
          PROVE  LostTo(arrays[cur][len + 1], overwritten') /\ MistakenIn(new, overwritten')
      BY <3>2, <3>3, <3>5 DEF LostTo, MistakenIn
    <3> QED  BY <3>4, <3>5
  <2>13. ASSUME NEW d \in Callers, NEW k \in stops[d][2]..stops[d][3], pc[d] = "stop"
         PROVE  \/ arrays'[stops[d][1]][k] = arrays[stops[d][1]][k]
                \/ /\ stops[d][1] = cur /\ k = len + 1 /\ Awaited
                   /\ len < Len(arrays[cur]) /\ arrays'[cur][k] = new
    <3>1. stops[d][1] \in 1..Len(arrays) /\ k \in 1..Len(arrays[stops[d][1]])
      <4>1. /\ stops[d][1] \in 1..Len(arrays)
            /\ stops[d][2] >= 1 /\ stops[d][3] <= Len(arrays[stops[d][1]])
        BY <2>13 DEF Calls, CallOf
      <4>2. stops[d][2] \in Int /\ stops[d][3] \in Int /\ Len(arrays[stops[d][1]]) \in Nat
        BY <4>1 DEF Types
      <4> QED  BY <4>1, <4>2
    <3>2. CASE stops[d][1] # cur \/ k # len + 1  BY <2>2, <3>1, <3>2
    <3>3. CASE stops[d][1] = cur /\ k = len + 1
      <4>1. Awaited  BY <2>13, <3>3 DEF Awaited
      <4>2. CASE len < Len(arrays[cur])
        <5>1. cur' = cur  BY <1>5, <4>2 DEF AppendInstance
        <5> QED  BY <2>2, <3>3, <4>1, <4>2, <5>1
      <4>3. CASE ~(len < Len(arrays[cur]))
        <5> DEFINE B == [j \in 1..2 * len |->
                            IF j <= len THEN arrays[cur][j] ELSE IF j = len + 1 THEN new ELSE 0]
        <5>1. arrays' = Append(arrays, B)  BY <1>5, <4>3 DEF AppendInstance
        <5> HIDE DEF B
        <5>2. arrays'[cur] = arrays[cur]  BY <5>1 DEF Types
        <5> QED  BY <3>3, <5>2
      <4> QED  BY <4>2, <4>3
    <3> QED  BY <3>2, <3>3
  <2>14. ASSUME NEW x, Left(x)' PROVE IsDoomed(x)' \/ Lost(x)'
    <3>1. IsDoomed(x) \/ Lost(x)
      <4>1. Left(x)  BY <2>11, <2>14
      <4> QED  BY <4>1 DEF LeftIsDoomed
    <3>2. CASE x \in cancelled \/ Lost(x)  BY <1>1, <2>12, <3>2 DEF IsDoomed
    <3>3. ASSUME NEW d \in Callers, Awaiting(d, x) PROVE IsDoomed(x)' \/ Lost(x)'
      <4>1. PICK k \in stops[d][2]..stops[d][3] : arrays[stops[d][1]][k] = x
        BY <3>3 DEF Awaiting
      <4>2. pc[d] = "stop" /\ pc'[d] = "stop" /\ stops' = stops
        BY <1>1, <2>4, <3>3 DEF Awaiting
      <4>3. CASE arrays'[stops[d][1]][k] = arrays[stops[d][1]][k]
        BY <4>1, <4>2, <4>3 DEF IsDoomed, Awaiting
      <4>4. CASE stops[d][1] = cur /\ k = len + 1 /\ Awaited /\ len < Len(arrays[cur])
        BY <2>12, <4>1, <4>4 DEF Lost, Mistaken
      <4> QED  BY <2>13, <4>2, <4>3, <4>4
    <3> QED  BY <3>1, <3>2, <3>3 DEF IsDoomed
  <2>15. ASSUME NEW x, IsDoomed(x)' PROVE Left(x)' \/ Mistaken(x)'
    <3>1. CASE IsDoomed(x)  BY <2>11, <2>12, <3>1 DEF LeftIsDoomed
    <3>2. CASE x \in cancelled'  BY <1>1, <3>1, <3>2 DEF IsDoomed
    <3>3. ASSUME NEW d \in Callers, Awaiting(d, x)' PROVE Left(x)' \/ Mistaken(x)'
      <4>1. PICK k \in stops[d][2]..stops[d][3] : arrays'[stops[d][1]][k] = x
        BY <1>1, <3>3 DEF Awaiting
      <4>2. pc[d] = "stop"  BY <1>2, <2>4, <3>3 DEF Awaiting
      <4>3. CASE arrays'[stops[d][1]][k] = arrays[stops[d][1]][k]
        BY <3>1, <4>1, <4>2, <4>3 DEF IsDoomed, Awaiting
      <4>4. CASE /\ stops[d][1] = cur /\ k = len + 1 /\ Awaited
                 /\ len < Len(arrays[cur]) /\ arrays'[cur][k] = new
        BY <2>12, <4>1, <4>4 DEF Lost, Mistaken
      <4> QED  BY <2>13, <4>2, <4>3, <4>4
    <3> QED  BY <2>15, <3>2, <3>3 DEF IsDoomed
  <2>16. LeftIsDoomed'  BY <2>14, <2>15 DEF LeftIsDoomed
  <2> QED  BY <2>5, <2>9, <2>10, <2>16
<1> QED  BY <1>4, <1>5 DEF SpawnAppend

\* The cut takes the end of the slice out, whose processes are nowhere else in it.
LEMMA CutKeeps ==
    ASSUME PoolInv, NEW c \in Callers, Cut(c)
    PROVE  PoolInv'
<1> USE DEF PoolInv
<1>1. pc[c] = "cut" /\ target[c] \in MinReplicas..MaxReplicas
  BY DEF Cut, Calls, CallOf
<1>2. target[c] \in Nat \ {0} /\ len \in Nat \ {0} /\ len <= Len(arrays[cur])
      /\ Len(arrays[cur]) \in Nat
  BY <1>1, Limits DEF Types
<1>3. CASE target[c] > len
  <2>1. /\ UNCHANGED <<arrays, cur, len, replica, cancelled, stops, overwritten, target, todo, index>>
        /\ pc' = [pc EXCEPT ![c] = "panicked"]
    BY <1>2, <1>3 DEF Cut, Goto, historyVars
  <2>2. target' \in [Callers -> Int] /\ todo' \in [Callers -> Int] /\ index' \in [Callers -> Int]
    BY <2>1 DEF Types
  <2> QED  BY <1>1, <2>1, <2>2, QuietStep DEF Positions
<1>4. CASE target[c] <= len
  <2>1. /\ stops' = [stops EXCEPT ![c] = <<cur, target[c] + 1, len>>]
        /\ len' = target[c] /\ pc' = [pc EXCEPT ![c] = "stop"]
        /\ UNCHANGED <<arrays, cur, replica, cancelled, target, todo, index, overwritten>>
    BY <1>2, <1>4 DEF Cut, Goto, historyVars
  <2> DEFINE cut == <<cur, target[c] + 1, len>>
  <2>2. /\ stops' \in [Callers -> Int \X Int \X Int] /\ stops'[c] = cut
        /\ \A d \in Callers \ {c} : stops'[d] = stops[d]
    <3>1. cut \in Int \X Int \X Int  BY <1>2 DEF Types
    <3>2. stops' = [stops EXCEPT ![c] = cut]  BY <2>1
    <3> HIDE DEF cut
    <3> QED  BY <3>1, <3>2 DEF Types
  <2>3. stops'[c][1] = cur /\ stops'[c][2] = target[c] + 1 /\ stops'[c][3] = len
    BY <2>2
  <2> HIDE DEF cut
  <2>4. /\ pc' \in [Callers -> Positions] /\ pc'[c] = "stop"
        /\ \A d \in Callers \ {c} : pc'[d] = pc[d]
    BY <2>1 DEF Types, Positions
  <2>5. Types'
    <3>1. len' \in Nat \ {0} /\ len' <= Len(arrays'[cur'])  BY <1>2, <1>4, <2>1
    <3> QED  BY <2>1, <2>2, <2>4, <3>1 DEF Types
  <2>6. Slice'  BY <1>2, <1>4, <2>1 DEF Slice, At, Spawned
  <2>7. Calls'
    <3>1. cur \in 1..Len(arrays)  BY DEF Types
    <3>2. CallOf(c)'  BY <1>2, <2>1, <2>3, <2>4, <3>1 DEF CallOf
    <3>3. \A d \in Callers \ {c} : CallOf(d)'  BY <2>1, <2>2, <2>4 DEF Calls, CallOf
    <3> QED  BY <3>2, <3>3 DEF Calls
  <2>8. \A x : IsDoomed(x)' <=> IsDoomed(x) \/ \E k \in target[c] + 1..len : At(k) = x
    <3>1. \A x : Awaiting(c, x)' <=> \E k \in target[c] + 1..len : At(k) = x
      BY <2>1, <2>3, <2>4 DEF Awaiting, At
    <3>2. \A d \in Callers \ {c} : \A x : Awaiting(d, x)' <=> Awaiting(d, x)
      BY <2>1, <2>2, <2>4 DEF Awaiting
    <3>3. \A x : ~Awaiting(c, x)  BY <1>1 DEF Awaiting
    <3> QED  BY <2>1, <3>1, <3>2, <3>3 DEF IsDoomed
  <2>9. \A x : Left(x)' <=> Left(x) \/ \E k \in target[c] + 1..len : At(k) = x
    <3> SUFFICES ASSUME NEW x
                 PROVE  Left(x)' <=> Left(x) \/ \E k \in target[c] + 1..len : At(k) = x
      OBVIOUS
    <3>1. Left(x)' <=> x \in Spawned /\ \A k \in 1..target[c] : At(k) # x
      BY <2>1 DEF Left, Spawned, At
    <3>2. \A k \in 1..len : k \in 1..target[c] \/ k \in target[c] + 1..len
      BY <1>2
    <3>3. \A k \in target[c] + 1..len : k \in 1..len /\ k \notin 1..target[c]
      BY <1>2
    <3>4. 1..target[c] \subseteq 1..len  BY <1>2, <1>4
    <3> QED  BY <3>1, <3>2, <3>3, <3>4 DEF Left, Slice
  <2>10. \A x : (Lost(x)' <=> Lost(x)) /\ (Mistaken(x)' <=> Mistaken(x))
    BY <2>1 DEF Lost, Mistaken, LostTo, MistakenIn
  <2>11. LeftIsDoomed'  BY <2>8, <2>9, <2>10 DEF LeftIsDoomed
  <2> QED  BY <2>5, <2>6, <2>7, <2>11
<1> QED  BY <1>2, <1>3, <1>4

LEMMA StopNextKeeps ==
    ASSUME PoolInv, NEW c \in Callers, StopNext(c)
    PROVE  PoolInv'
<1> USE DEF PoolInv
<1> DEFINE a == stops[c][1]  next == stops[c][2]  last == stops[c][3]
<1>1. /\ pc[c] = "stop"
      /\ UNCHANGED <<arrays, cur, len, replica, target, todo, index, overwritten>>
  BY DEF StopNext, poolVars, historyVars
<1>2. a \in Int /\ next \in Int /\ last \in Int /\ stops[c] = <<a, next, last>>
      /\ a \in 1..Len(arrays) /\ next >= 1 /\ last <= Len(arrays[a])
  <2>1. stops[c] \in Int \X Int \X Int  BY DEF Types
  <2>2. a \in 1..Len(arrays) /\ next >= 1 /\ last <= Len(arrays[a])
    BY <1>1 DEF Calls, CallOf
  <2> QED  BY <2>1, <2>2
<1>3. Slice' /\ \A x : Left(x)' <=> Left(x)
  BY <1>1 DEF Slice, Left, At, Spawned
<1>4. \A x : (Lost(x)' <=> Lost(x)) /\ (Mistaken(x)' <=> Mistaken(x))
  BY <1>1 DEF Lost, Mistaken, LostTo, MistakenIn
<1>5. \A x : Awaiting(c, x) <=> \E k \in next..last : arrays[a][k] = x
  BY <1>1 DEF Awaiting
<1>6. CASE next <= last
  <2>1. /\ cancelled' = cancelled \cup {arrays[a][next]} /\ pc' = pc
        /\ stops' = [stops EXCEPT ![c][2] = next + 1]
    BY <1>2, <1>6 DEF StopNext
  <2>2. /\ stops' \in [Callers -> Int \X Int \X Int] /\ stops'[c] = <<a, next + 1, last>>
        /\ \A d \in Callers \ {c} : stops'[d] = stops[d]
    <3> DEFINE rest == <<a, next + 1, last>>
    <3>1. stops' = [stops EXCEPT ![c] = [stops[c] EXCEPT ![2] = next + 1]]
      BY <2>1
    <3>2. [stops[c] EXCEPT ![2] = next + 1] = rest
      BY <1>2
    <3>3. rest \in Int \X Int \X Int  BY <1>2 DEF Types
    <3>4. stops' = [stops EXCEPT ![c] = rest]  BY <3>1, <3>2
    <3> HIDE DEF rest
    <3>5. /\ stops'[c] = rest /\ stops' \in [Callers -> Int \X Int \X Int]
          /\ \A d \in Callers \ {c} : stops'[d] = stops[d]
      BY <3>3, <3>4 DEF Types
    <3> QED  BY <3>5 DEF rest
  <2>3. stops'[c][1] = a /\ stops'[c][2] = next + 1 /\ stops'[c][3] = last
    BY <2>2
  <2> HIDE DEF next, last, a
  <2>4. Types'  BY <1>1, <2>1, <2>2 DEF Types
  <2>5. Calls'
    <3>1. next + 1 >= 1  BY <1>2
    <3>2. CallOf(c)'  BY <1>1, <1>2, <2>1, <2>3, <3>1 DEF CallOf
    <3>3. \A d \in Callers \ {c} : CallOf(d)'  BY <1>1, <2>1, <2>2 DEF Calls, CallOf
    <3> QED  BY <3>2, <3>3 DEF Calls
  <2>6. \A x : IsDoomed(x)' <=> IsDoomed(x)
    <3>1. \A x : Awaiting(c, x)' <=> \E k \in next + 1..last : arrays[a][k] = x
      BY <1>1, <2>1, <2>3 DEF Awaiting
    <3>2. \A k : k \in next..last <=> k = next \/ k \in next + 1..last
      BY <1>2, <1>6
    <3>3. \A d \in Callers \ {c} : \A x : Awaiting(d, x)' <=> Awaiting(d, x)
      BY <1>1, <2>1, <2>2 DEF Awaiting
    <3>4. \A x : x \in cancelled' <=> x \in cancelled \/ arrays[a][next] = x
      BY <2>1
    <3> QED  BY <1>5, <3>1, <3>2, <3>3, <3>4 DEF IsDoomed
  <2>7. LeftIsDoomed'  BY <1>3, <1>4, <2>6 DEF LeftIsDoomed
  <2> QED  BY <1>3, <2>4, <2>5, <2>7
<1>7. CASE next > last
  <2>1. UNCHANGED <<cancelled, stops>> /\ pc' = [pc EXCEPT ![c] = "idle"]
    BY <1>2, <1>7 DEF StopNext, Goto
  <2>2. /\ pc' \in [Callers -> Positions] /\ pc'[c] = "idle"
        /\ \A d \in Callers \ {c} : pc'[d] = pc[d]
    BY <2>1 DEF Types, Positions
  <2>3. Types'  BY <1>1, <2>1, <2>2 DEF Types
  <2>4. Calls'  BY <1>1, <2>1, <2>2 DEF Calls, CallOf
  <2>5. \A x : ~Awaiting(c, x) /\ ~Awaiting(c, x)'
    <3>1. \A k : k \notin next..last  BY <1>2, <1>7
    <3> QED  BY <1>5, <2>2, <3>1 DEF Awaiting
  <2>6. \A d \in Callers \ {c} : \A x : Awaiting(d, x)' <=> Awaiting(d, x)
    BY <1>1, <2>1, <2>2 DEF Awaiting
  <2>7. \A x : IsDoomed(x)' <=> IsDoomed(x)  BY <2>1, <2>5, <2>6 DEF IsDoomed
  <2>8. LeftIsDoomed'  BY <1>3, <1>4, <2>7 DEF LeftIsDoomed
  <2> QED  BY <1>3, <2>3, <2>4, <2>8
<1> QED  BY <1>2, <1>6, <1>7

\* Neither processes nor the evaluation touch what the invariant is about.
LEMMA OthersKeep ==
    ASSUME PoolInv, UNCHANGED <<poolVars, cancelled, pc, target, todo, index, stops, overwritten>>
    PROVE  PoolInv'
<1>1. UNCHANGED <<arrays, cur, len, replica, cancelled, pc, target, todo, index, stops, overwritten>>
  BY DEF poolVars
<1>2. Types' /\ Slice' /\ Calls'
  BY <1>1 DEF PoolInv, Types, Slice, At, Spawned, Calls, CallOf
<1>3. LeftIsDoomed'  BY <1>1, NothingLeaves DEF PoolInv
<1> QED  BY <1>2, <1>3 DEF PoolInv

-----------------------------------------------------------------------------
(* The evaluation *)

\* The size evaluate has read stays the size while nobody else scales, and each
\* decision asks for more, or for fewer.
Undisturbed ==
    /\ \A c \in Callers \ {Scaler} : Idle(c)
    /\ step = "decide" => current = len
    /\ step = "scaling" /\ meant = "none" => Idle(Scaler)
    /\ meant = "up" /\ current <= MaxReplicas /\ pc[Scaler] = "size" => target[Scaler] >= len
    /\ meant = "down" /\ pc[Scaler] = "size" => target[Scaler] <= len

EvalInv ==
    /\ current \in Int
    /\ step # "scaling" => Idle(Scaler)
    /\ ~crossed /\ step \in {"decide", "scaling"} => Undisturbed
    /\ OnlyOverridesAreUndone

LEMMA InitEval == Init => EvalInv
<1> SUFFICES ASSUME Init PROVE EvalInv  OBVIOUS
<1>1. current = 0 /\ step = "tick" /\ pc[Scaler] = "idle"
  BY ScalingConstants DEF Init, ScalingInit
<1> QED  BY <1>1 DEF EvalInv, Idle, OnlyOverridesAreUndone

\* Sample, ReadCount and ScaleGateways leave the pool alone.
LEMMA QuietEval ==
    ASSUME PoolInv, EvalInv,
           \/ \E raw \in Nat : Sample(raw)
           \/ ReadCount \/ ScaleGateways
    PROVE  EvalInv'
<1>1. UNCHANGED <<pc, target, len>>
  BY DEF Sample, ReadCount, ScaleGateways, scalingVars, poolVars
<1>2. pc[Scaler] = "idle"
  BY DEF Sample, ReadCount, ScaleGateways, EvalInv, Idle
<1>3. len \in Int  BY DEF PoolInv, Types
<1>4. CASE ReadCount
  <2>1. step' = "decide" /\ current' = len /\ meant' = meant
        /\ (~crossed' => \A c \in Callers : pc[c] = "idle")
    BY <1>4 DEF ReadCount
  <2> QED  BY <1>1, <1>2, <1>3, <2>1 DEF EvalInv, Idle, Undisturbed, OnlyOverridesAreUndone
<1>5. CASE \E raw \in Nat : Sample(raw)
  <2>1. step' = "count" /\ UNCHANGED <<current, meant, crossed>>
    BY <1>5 DEF Sample
  <2> QED  BY <1>1, <1>2, <2>1 DEF EvalInv, Idle, OnlyOverridesAreUndone
<1>6. CASE ScaleGateways
  <2>1. step' = "tick" /\ current' = 0 /\ meant' = "none" /\ crossed' = FALSE
    BY <1>6 DEF ScaleGateways
  <2> QED  BY <1>1, <1>2, <2>1 DEF EvalInv, Idle, OnlyOverridesAreUndone
<1> QED  BY <1>4, <1>5, <1>6

LEMMA DecideEval ==
    ASSUME PoolInv, EvalInv, NEW smoothed, Decide(smoothed)
    PROVE  EvalInv'
<1>1. step = "decide" /\ step' = "scaling" /\ UNCHANGED <<current, crossed>>
  BY DEF Decide
<1>2. pc[Scaler] = "idle" /\ Scaler \in Callers  BY <1>1, ScalingConstants DEF EvalInv, Idle
<1>3. /\ len \in Nat \ {0} /\ MinReplicas \in Nat /\ MaxReplicas \in Nat /\ current \in Int
      /\ MinReplicas <= MaxReplicas
  BY Limits DEF PoolInv, Types, EvalInv
<1>4. ~crossed => current = len /\ \A c \in Callers \ {Scaler} : pc[c] = "idle"
  BY <1>1 DEF EvalInv, Undisturbed, Idle
<1>5. ASSUME NEW n \in Int, ScaleTo(Scaler, n),
             \/ meant' = "up" /\ n = current + 2
             \/ meant' = "down" /\ n = current - 1 /\ current > MinReplicas
      PROVE  EvalInv'
  <2>1. /\ len' = len /\ pc' = [pc EXCEPT ![Scaler] = "size"]
        /\ target' = [target EXCEPT ![Scaler] = clamp(n, MinReplicas, MaxReplicas)]
    BY <1>5 DEF ScaleTo, poolVars, Goto
  <2>2. /\ pc'[Scaler] = "size" /\ \A c \in Callers \ {Scaler} : pc'[c] = pc[c]
        /\ target'[Scaler] = clamp(n, MinReplicas, MaxReplicas)
    BY <1>2, <2>1 DEF PoolInv, Types
  <2>3. ASSUME ~crossed'
        PROVE  /\ meant' = "up" /\ current <= MaxReplicas => target'[Scaler] >= len
               /\ meant' = "down" => target'[Scaler] <= len
    BY <1>1, <1>3, <1>4, <1>5, <2>2, <2>3 DEF clamp
  <2> QED
    BY <1>1, <1>3, <1>4, <1>5, <2>1, <2>2, <2>3
       DEF EvalInv, Undisturbed, Idle, OnlyOverridesAreUndone
<1>6. CASE meant' = "none" /\ UNCHANGED scalingVars
  <2>1. pc' = pc  BY <1>6 DEF scalingVars
  <2> QED  BY <1>1, <1>2, <1>3, <1>4, <1>6, <2>1
       DEF EvalInv, Undisturbed, Idle, OnlyOverridesAreUndone
<1>7. current + 2 \in Int /\ current - 1 \in Int  BY <1>3
<1> QED  BY <1>5, <1>6, <1>7 DEF Decide, GoDown

\* A call that nobody disturbs finds the size it was asked to change.
LEMMA CallEval ==
    ASSUME PoolInv, EvalInv, NEW c \in Callers, Calling(c)
    PROVE  EvalInv'
<1>1. UNCHANGED <<step, current, meant, crossed>> /\ Call(c)
  BY DEF Calling, Pool, evalVars
<1>2. ~Idle(c) /\ pc[c] # "idle"
  BY <1>1 DEF Call, ReadSize, ReadIndex, SpawnAppend, Cut, StopNext, Idle
<1>3. Scaler \in Callers /\ \A d \in Callers \ {c} : pc'[d] = pc[d]
  BY <1>1, ScalingConstants DEF Call, ReadSize, ReadIndex, SpawnAppend, NextAdd, Cut, StopNext,
     Goto, PoolInv, Types
<1>4. target' = target
  BY <1>1 DEF Call, ReadSize, ReadIndex, SpawnAppend, Cut, StopNext
<1>5. CASE c # Scaler
  <2>1. pc'[Scaler] = pc[Scaler]  BY <1>3, <1>5
  <2>2. ~(~crossed /\ step \in {"decide", "scaling"})
    BY <1>2, <1>5 DEF EvalInv, Undisturbed
  <2> QED  BY <1>1, <2>1, <2>2 DEF EvalInv, Idle, OnlyOverridesAreUndone
<1>6. CASE c = Scaler
  <2>1. step = "scaling"  BY <1>2, <1>6 DEF EvalInv
  <2>2. CASE crossed  BY <1>1, <2>1, <2>2 DEF EvalInv, OnlyOverridesAreUndone
  <2>3. CASE ~crossed
    <3>1. Undisturbed /\ meant # "none"
      BY <1>2, <1>6, <2>1, <2>3 DEF EvalInv, Undisturbed
    <3>2. \A d \in Callers \ {Scaler} : Idle(d)'
      BY <1>3, <1>6, <3>1 DEF Undisturbed, Idle
    <3>3. pc'[Scaler] # "size" /\ (pc[Scaler] \in Positions)
      BY <1>1, <1>3, <1>6 DEF Call, ReadSize, ReadIndex, SpawnAppend, NextAdd, Cut, StopNext,
         Goto, PoolInv, Types, Positions
    <3>4. ASSUME pc[Scaler] = "size"
          PROVE  /\ pc'[Scaler] \in {"cut", "stop"} => target[Scaler] < len
                 /\ pc'[Scaler] \in {"add", "spawn"} => target[Scaler] > len
      BY <1>1, <1>3, <1>6, <3>4 DEF Call, ReadSize, ReadIndex, SpawnAppend, Cut, StopNext,
         Goto, PoolInv, Types
    <3>5. ASSUME pc[Scaler] # "size"
          PROVE  /\ pc'[Scaler] \in {"cut", "stop"} => pc[Scaler] \in {"cut", "stop"}
                 /\ pc'[Scaler] \in {"add", "spawn"} => pc[Scaler] \in {"add", "spawn"}
      BY <1>1, <1>3, <1>6, <3>5 DEF Call, ReadIndex, ReadSize, SpawnAppend, NextAdd, Cut,
         StopNext, Goto, PoolInv, Types
    <3>6. target[Scaler] \in Int /\ len \in Int
      BY <1>3, Limits DEF PoolInv, Types
    <3>7. OnlyOverridesAreUndone'
      BY <1>1, <2>3, <3>1, <3>4, <3>5, <3>6 DEF OnlyOverridesAreUndone, Undisturbed, EvalInv
    <3> QED  BY <1>1, <2>1, <3>1, <3>2, <3>3, <3>7 DEF EvalInv, Undisturbed
  <2> QED  BY <2>2, <2>3
<1> QED  BY <1>5, <1>6

\* An override crosses the evaluation; it does not touch its position.
LEMMA OverrideEval ==
    ASSUME PoolInv, EvalInv, NEW c \in Callers, NEW n, handleScale(c, n)
    PROVE  EvalInv'
<1>1. c # Scaler /\ crossed' /\ UNCHANGED <<step, current>> /\ pc' = [pc EXCEPT ![c] = "size"]
  BY DEF handleScale, ScaleTo, Goto
<1>2. pc'[Scaler] = pc[Scaler]  BY <1>1, ScalingConstants DEF PoolInv, Types
<1> QED  BY <1>1, <1>2 DEF EvalInv, Idle, OnlyOverridesAreUndone

LEMMA OthersEval ==
    ASSUME EvalInv, UNCHANGED <<pc, target, len, step, current, meant, crossed>>
    PROVE  EvalInv'
BY DEF EvalInv, Idle, Undisturbed, OnlyOverridesAreUndone

LEMMA ScalingStep ==
    ASSUME PoolInv, EvalInv, [Next]_vars
    PROVE  PoolInv' /\ EvalInv'
<1>1. CASE UNCHANGED vars
  <2>1. /\ UNCHANGED <<poolVars, cancelled, pc, target, todo, index, stops, overwritten>>
        /\ UNCHANGED <<pc, target, len, step, current, meant, crossed>>
    BY <1>1 DEF vars, scalingVars, evalVars, poolVars, historyVars
  <2> QED  BY <2>1, OthersKeep, OthersEval
<1>2. ASSUME NEW i, Running(i) PROVE PoolInv' /\ EvalInv'
  <2>1. /\ UNCHANGED <<poolVars, cancelled, pc, target, todo, index, stops, overwritten>>
        /\ UNCHANGED <<pc, target, len, step, current, meant, crossed>>
    BY <1>2 DEF Running, Pool, Process, Bind, Killed, Restarted, evalVars, poolVars, historyVars
  <2> QED  BY <2>1, OthersKeep, OthersEval
<1>3. ASSUME NEW c \in Callers, Calling(c) PROVE PoolInv' /\ EvalInv'
  <2>1. PoolInv'
    BY <1>3, ReadKeeps, SpawnAppendKeeps, CutKeeps, StopNextKeeps DEF Calling, Pool, Call
  <2> QED  BY <1>3, <2>1, CallEval
<1>4. ASSUME NEW c \in Callers, NEW n \in Overrides, handleScale(c, n) PROVE PoolInv' /\ EvalInv'
  <2>1. ScaleTo(c, n) /\ n \in Int  BY <1>4, ScalerConstants DEF handleScale
  <2> QED  BY <1>4, <2>1, ScaleToKeeps, OverrideEval
<1>5. CASE evaluate
  <2>1. ASSUME NEW n, Decide(n) PROVE PoolInv' /\ EvalInv'
    <3>1. current + 2 \in Int /\ current - 1 \in Int  BY DEF EvalInv
    <3>2. CASE UNCHANGED scalingVars
      <4>1. UNCHANGED <<poolVars, cancelled, pc, target, todo, index, stops, overwritten>>
        BY <3>2 DEF scalingVars, historyVars
      <4> QED  BY <2>1, <4>1, OthersKeep, DecideEval
    <3>3. CASE ScaleTo(Scaler, current + 2) \/ ScaleTo(Scaler, current - 1)
      BY <2>1, <3>1, <3>3, ScalingConstants, ScaleToKeeps, DecideEval
    <3> QED  BY <2>1, <3>2, <3>3 DEF Decide
  <2>2. CASE (\E raw \in Nat : Sample(raw)) \/ ReadCount \/ ScaleGateways
    <3>1. UNCHANGED <<poolVars, cancelled, pc, target, todo, index, stops, overwritten>>
      BY <2>2 DEF Sample, ReadCount, ScaleGateways, scalingVars, historyVars
    <3> QED  BY <2>2, <3>1, OthersKeep, QuietEval
  <2>3. \A l \in Lags : \A raw \in Reported(l) : raw \in Nat
    BY ScalerConstants DEF Reported
  <2> QED  BY <1>5, <2>1, <2>2, <2>3 DEF evaluate
<1> QED  BY <1>1, <1>2, <1>3, <1>4, <1>5 DEF Next

(* However many calls of ScaleTo overlap, for every size of the pool and every *)
(* number of spawns that fail: the instances cancelled or about to be are those *)
(* that left the slice, but for the entries of a toStop an append overwrote.    *)
THEOREM StoppedIsWhatLeft == Spec => []StopsWhatLeft
<1>1. Init => PoolInv /\ EvalInv  BY InitPool, InitEval DEF Init
<1>2. PoolInv /\ EvalInv /\ [Next]_vars => PoolInv' /\ EvalInv'  BY ScalingStep
<1>3. PoolInv => StopsWhatLeft  BY EachProcess DEF PoolInv
<1> QED  BY <1>1, <1>2, <1>3, PTL DEF Spec

(* However the calls overlap, for all thresholds and smoothing factors: a      *)
(* decision of evaluate has the opposite effect only if a request of an        *)
(* operator was under way since it read the size, or the pool had grown over   *)
(* its limit before.                                                           *)
THEOREM OverridesExplainUndoing == Spec => []OnlyOverridesAreUndone
<1>1. Init => PoolInv /\ EvalInv  BY InitPool, InitEval DEF Init
<1>2. PoolInv /\ EvalInv /\ [Next]_vars => PoolInv' /\ EvalInv'  BY ScalingStep
<1>3. EvalInv => OnlyOverridesAreUndone  BY DEF EvalInv
<1> QED  BY <1>1, <1>2, <1>3, PTL DEF Spec

-----------------------------------------------------------------------------
(* Hysteresis *)

LEMMA ProductGrows ==
    ASSUME NEW s \in Nat, NEW p \in Int, NEW q \in Int, p >= q
    PROVE  s * p >= s * q
<1>1. p - q \in Nat  OBVIOUS
<1>2. s * (p - q) >= 0  BY <1>1
<1>3. s * (p - q) = s * p - s * q  BY <1>1
<1> QED  BY <1>2, <1>3

\* The truncated average against a threshold: below it only if the exact one is less
\* than one over it, above it only if the exact one is.
LEMMA Thresholds ==
    ASSUME NEW p \in Nat \ {0}, NEW e \in Nat, NEW s \in Nat \ {0},
           NEW n \in Int, NEW t \in Nat
    PROVE  /\ p * (n * s) < p * e + s /\ n > t => e > t * s
           /\ p * e < p * ((n + 1) * s) + s /\ n < t => e < (t + 1) * s
<1>1. ASSUME p * (n * s) < p * e + s, n > t, ~(e > t * s) PROVE FALSE
  <2>1. n * s \in Int /\ t * s \in Int /\ (t + 1) * s \in Int /\ (t + 1) * s = t * s + s
        /\ p * (n * s) \in Int /\ p * e \in Int /\ p * (t * s) \in Int /\ p * s \in Int
    OBVIOUS
  <2>2. s * n >= s * (t + 1)  BY <1>1, ProductGrows
  <2>3. n * s = s * n /\ s * (t + 1) = (t + 1) * s  OBVIOUS
  <2>4. n * s >= t * s + s  BY <2>1, <2>2, <2>3
  <2>5. p * (n * s) >= p * (t * s + s)  BY <2>1, <2>4, ProductGrows
  <2>6. p * (t * s) >= p * e  BY <1>1, <2>1, ProductGrows
  <2>7. p * (t * s + s) = p * (t * s) + p * s  BY <2>1
  <2>8. s * p >= s * 1  BY ProductGrows
  <2>9. s * p = p * s /\ s * 1 = s  OBVIOUS
  <2> QED  BY <1>1, <2>1, <2>5, <2>6, <2>7, <2>8, <2>9
<1>2. ASSUME p * e < p * ((n + 1) * s) + s, n < t, ~(e < (t + 1) * s) PROVE FALSE
  <2>1. t * s \in Int /\ (n + 1) * s \in Int /\ (t + 1) * s \in Int /\ (t + 1) * s = t * s + s
        /\ p * ((n + 1) * s) \in Int /\ p * e \in Int /\ p * (t * s) \in Int /\ p * s \in Int
    OBVIOUS
  <2>2. s * t >= s * (n + 1)  BY <1>2, ProductGrows
  <2>3. t * s = s * t /\ s * (n + 1) = (n + 1) * s  OBVIOUS
  <2>4. t * s >= (n + 1) * s  BY <2>1, <2>2, <2>3
  <2>5. p * (t * s) >= p * ((n + 1) * s)  BY <2>1, <2>4, ProductGrows
  <2>6. p * e >= p * (t * s + s)  BY <1>2, <2>1, ProductGrows
  <2>7. p * (t * s + s) = p * (t * s) + p * s  BY <2>1
  <2>8. s * p >= s * 1  BY ProductGrows
  <2>9. s * p = p * s /\ s * 1 = s  OBVIOUS
  <2> QED  BY <1>2, <2>1, <2>5, <2>6, <2>7, <2>8, <2>9
<1>3. n * s \in Int /\ t * s \in Int /\ (t + 1) * s \in Int  OBVIOUS
<1> QED  BY <1>1, <1>2, <1>3

\* The average of a sample and an average on the same side of a threshold.
LEMMA MixStaysAbove ==
    ASSUME NEW d \in Nat \ {0}, NEW a \in 1..d, NEW s \in Nat \ {0},
           NEW raw \in Nat, NEW e \in Nat, NEW t \in Nat, raw >= t, e >= t * s
    PROVE  a * raw * s + (d - a) * e >= t * (d * s)
<1>1. a * s \in Nat /\ t * s \in Nat /\ d - a \in Nat  OBVIOUS
<1>2. (a * s) * raw >= (a * s) * t  BY <1>1, ProductGrows
<1>3. (d - a) * e >= (d - a) * (t * s)  BY <1>1, ProductGrows
<1>4. (a * s) * raw = a * raw * s /\ (a * s) * t + (d - a) * (t * s) = t * (d * s)
  OBVIOUS
<1>5. (a * s) * raw \in Int /\ (a * s) * t \in Int /\ (d - a) * e \in Int /\ (d - a) * (t * s) \in Int
  BY <1>1
<1> QED  BY <1>2, <1>3, <1>4, <1>5

LEMMA MixStaysBelow ==
    ASSUME NEW d \in Nat \ {0}, NEW a \in 1..d, NEW s \in Nat \ {0},
           NEW raw \in Nat, NEW e \in Nat, NEW t \in Nat, raw <= t, e <= t * s
    PROVE  a * raw * s + (d - a) * e <= t * (d * s)
<1>1. a * s \in Nat /\ t * s \in Nat /\ d - a \in Nat  OBVIOUS
<1>2. (a * s) * t >= (a * s) * raw  BY <1>1, ProductGrows
<1>3. (d - a) * (t * s) >= (d - a) * e  BY <1>1, ProductGrows
<1>4. (a * s) * raw = a * raw * s /\ (a * s) * t + (d - a) * (t * s) = t * (d * s)
  OBVIOUS
<1>5. (a * s) * raw \in Int /\ (a * s) * t \in Int /\ (d - a) * e \in Int /\ (d - a) * (t * s) \in Int
  BY <1>1
<1> QED  BY <1>2, <1>3, <1>4, <1>5

\* What the average remembers: since the last scale-up no sample was low, so it is
\* not low either, and the same for high samples since the last scale-down.
Remembers ==
    /\ ewma \in Nat /\ scale \in Nat \ {0} /\ ticks \in Nat
    /\ step = "tick" \/ ticks > 0
    /\ ticks > 0 /\ ~below => ewma >= (ScaleDownLag + 1) * scale
    /\ ticks > 0 /\ ~above => ewma <= ScaleUpLag * scale

LEMMA SampleRemembers ==
    ASSUME Remembers, NEW raw \in Nat, Sample(raw)
    PROVE  Remembers'
<1>0. /\ AlphaDen \in Nat \ {0} /\ AlphaNum \in 1..AlphaDen
      /\ ScaleUpLag \in Nat /\ ScaleDownLag \in Nat /\ ScaleDownLag + 1 \in Nat
  BY ScalerConstants
<1>1. ticks' = ticks + 1 /\ ticks' \in Nat /\ ticks' > 0
  BY DEF Sample, Remembers
<1>2. /\ ~below' => raw >= ScaleDownLag + 1 /\ ~below
      /\ ~above' => raw <= ScaleUpLag /\ ~above
  <2>1. (above' = (above \/ raw > ScaleUpLag)) /\ (below' = (below \/ raw <= ScaleDownLag))
    BY DEF Sample
  <2>2. ScaleDownLag \in Int /\ ScaleUpLag \in Int  BY <1>0
  <2>3. ~below' => ~(raw <= ScaleDownLag) /\ ~below  BY <2>1
  <2>4. ~above' => ~(raw > ScaleUpLag) /\ ~above  BY <2>1
  <2>5. (~(raw <= ScaleDownLag) => raw >= ScaleDownLag + 1) /\ (~(raw > ScaleUpLag) => raw <= ScaleUpLag)
    BY <2>2
  <2> QED  BY <2>3, <2>4, <2>5
<1>3. CASE ticks = 0
  <2>1. ewma' = raw /\ scale' = 1  BY <1>3 DEF Sample
  <2> QED  BY <1>0, <1>1, <1>2, <2>1 DEF Remembers
<1>4. CASE ticks # 0
  <2>1. ewma' = AlphaNum * raw * scale + (AlphaDen - AlphaNum) * ewma /\ scale' = AlphaDen * scale
    BY <1>4 DEF Sample, Smooth
  <2>2. ticks > 0 /\ ewma \in Nat /\ scale \in Nat \ {0}  BY <1>4 DEF Remembers
  <2>3. scale' \in Nat \ {0}  BY <1>0, <2>1, <2>2
  <2>4. ewma' \in Nat
    <3>1. AlphaNum * raw \in Nat /\ AlphaDen - AlphaNum \in Nat  BY <1>0
    <3>2. AlphaNum * raw * scale \in Nat /\ (AlphaDen - AlphaNum) * ewma \in Nat
      BY <2>2, <3>1
    <3> QED  BY <2>1, <3>2
  <2>5. ASSUME ~below' PROVE ewma' >= (ScaleDownLag + 1) * scale'
    <3>1. ewma >= (ScaleDownLag + 1) * scale /\ raw >= ScaleDownLag + 1
      BY <1>2, <2>2, <2>5 DEF Remembers
    <3> DEFINE t == ScaleDownLag + 1
    <3>2. t \in Nat /\ ewma >= t * scale /\ raw >= t  BY <1>0, <3>1
    <3> HIDE DEF t
    <3>3. ewma' >= t * scale'  BY <1>0, <2>1, <2>2, <3>2, MixStaysAbove
    <3> QED  BY <3>3 DEF t
  <2>6. ASSUME ~above' PROVE ewma' <= ScaleUpLag * scale'
    <3>1. ewma <= ScaleUpLag * scale /\ raw <= ScaleUpLag
      BY <1>2, <2>2, <2>6 DEF Remembers
    <3> QED  BY <1>0, <2>1, <2>2, <3>1, MixStaysBelow
  <2> QED  BY <1>1, <2>3, <2>4, <2>5, <2>6 DEF Remembers
<1> QED  BY <1>3, <1>4

LEMMA DecideRemembers ==
    ASSUME Remembers, NEW smoothed \in Smoothed, Decide(smoothed)
    PROVE  /\ Remembers'
           /\ meant' = "down" => below
           /\ meant' = "up" => above
<1>0. /\ ScaleUpLag \in Nat /\ ScaleDownLag \in Nat /\ ScaleDownLag < ScaleUpLag
      /\ Precision \in Nat \ {0}
  BY ScalerConstants
<1>1. /\ ewma \in Nat /\ scale \in Nat \ {0} /\ ticks > 0
      /\ UNCHANGED <<ewma, scale, ticks>> /\ step' = "scaling"
  BY DEF Decide, Remembers
<1>2. smoothed \in Int /\ IsSmoothed(smoothed)
  <2>1. ewma \div scale \in Int  BY <1>1
  <2> QED  BY <2>1 DEF Smoothed
<1> DEFINE up == ScaleUpLag * scale  down == (ScaleDownLag + 1) * scale
<1>3. up \in Int /\ down \in Int /\ down <= up
  <2>1. scale * ScaleUpLag >= scale * (ScaleDownLag + 1)  BY <1>0, <1>1, ProductGrows
  <2> QED  BY <1>0, <1>1, <2>1
<1>4. GoUp(smoothed) => ewma > up
  BY <1>0, <1>1, <1>2, Thresholds DEF GoUp, IsSmoothed
<1>5. GoDown(smoothed) => ewma < down
  BY <1>0, <1>1, <1>2, Thresholds DEF GoDown, IsSmoothed
<1>6. (~below => ewma >= down) /\ (~above => ewma <= up)
  BY <1>1 DEF Remembers
<1>7. ASSUME ~below' => ewma >= down, ~above' => ewma <= up PROVE Remembers'
  <2>1. UNCHANGED <<up, down>>  BY <1>1
  <2> HIDE DEF up, down
  <2>2. (~below' => ewma' >= down') /\ (~above' => ewma' <= up')  BY <1>1, <1>7, <2>1
  <2> USE DEF up, down
  <2> QED  BY <1>1, <2>2 DEF Remembers
<1> HIDE DEF up, down
<1>8. CASE GoUp(smoothed) /\ meant' = "up" /\ below' = FALSE /\ above' = above
  <2>1. above /\ ewma >= down  BY <1>1, <1>3, <1>4, <1>6, <1>8
  <2> QED  BY <1>6, <1>7, <1>8, <2>1
<1>9. CASE GoDown(smoothed) /\ meant' = "down" /\ above' = FALSE /\ below' = below
  <2>1. below /\ ewma <= up  BY <1>1, <1>3, <1>5, <1>6, <1>9
  <2> QED  BY <1>6, <1>7, <1>9, <2>1
<1>10. CASE meant' = "none" /\ UNCHANGED <<above, below>>
  BY <1>6, <1>7, <1>10
<1> QED  BY <1>8, <1>9, <1>10 DEF Decide

Hysteretic == step = "decide" /\ step' = "scaling" =>
                  (meant' = "down" => below) /\ (meant' = "up" => above)

LEMMA RemembersStep ==
    ASSUME Remembers, [Next]_vars
    PROVE  Remembers' /\ (Hysteretic \/ UNCHANGED vars)
<1>1. ASSUME NEW n \in Smoothed, Decide(n) PROVE Remembers' /\ Hysteretic
  BY <1>1, DecideRemembers DEF Hysteretic
<1>2. ASSUME NEW raw \in Nat, Sample(raw) PROVE Remembers' /\ Hysteretic
  <2>1. step = "tick"  BY <1>2 DEF Sample
  <2> QED  BY <1>2, <2>1, SampleRemembers DEF Hysteretic
<1>3. CASE ReadCount \/ ScaleGateways
  <2>1. UNCHANGED <<ewma, scale, ticks, above, below>> /\ step # "decide"
        /\ step # "tick"
    BY <1>3 DEF ReadCount, ScaleGateways
  <2> QED  BY <2>1 DEF Remembers, Hysteretic
<1>4. ASSUME UNCHANGED <<ewma, scale, ticks, above, below, step>> PROVE Remembers' /\ Hysteretic
  BY <1>4 DEF Remembers, Hysteretic
<1>5. CASE \E c \in Callers : Calling(c) \/ \E n \in Overrides : handleScale(c, n)
  BY <1>4, <1>5 DEF Calling, Pool, evalVars, handleScale
<1>6. CASE \E i \in Spawned : Running(i)  BY <1>4, <1>6 DEF Running, Pool, evalVars
<1>7. CASE UNCHANGED vars  BY <1>4, <1>7 DEF vars, evalVars
<1>8. \A l \in Lags : \A raw \in Reported(l) : raw \in Nat
  BY ScalerConstants DEF Reported
<1> QED  BY <1>1, <1>2, <1>3, <1>5, <1>6, <1>7, <1>8 DEF Next, evaluate

LEMMA InitRemembers == Init => Remembers
BY DEF Init, Remembers

(* For all thresholds, smoothing factors, lags and rounding errors, and calls  *)
(* that overlap in any way: between a scale-up and a later scale-down some     *)
(* sample was not above the lower threshold, between a scale-down and a later  *)
(* scale-up some was above the upper one.                                      *)
THEOREM DecisionsAreHysteretic == Spec => HysteresisHolds
<1>1. Remembers /\ [Next]_vars => Remembers' /\ [Hysteretic]_vars  BY RemembersStep
<1> QED  BY InitRemembers, <1>1, PTL DEF Spec, HysteresisHolds, Hysteretic
=============================================================================
