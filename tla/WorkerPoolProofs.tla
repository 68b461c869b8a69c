----------------------------- MODULE WorkerPoolProofs -----------------------------
(***************************************************************************)
(* For any number of workers and events and any sizes of channel, buffer    *)
(* and batch: the buffer is bounded, every event is accounted for in both   *)
(* streams, none has two owners, and none is duplicated but by a write that *)
(* is in doubt.                                                             *)
(***************************************************************************)
EXTENDS WorkerPoolProps, SequenceTheorems, FiniteSetTheorems, TLAPS

Steps == {"idle", "filtered", "write", "written", "drain", "requeue", "ended"}

Types ==
    /\ arrived \in 0..MaxEvents
    /\ input \in Seq(Events)
    /\ normal \in Seq(Events) /\ critical \in Seq(Events)
    /\ at \in [Procs -> Steps] /\ ev \in [Procs -> Events \cup {Nothing}]
    /\ err \in [Procs -> BOOLEAN]
    /\ todo \in Seq(Events) /\ requeue \in Seq(Events)
    /\ realtime \in [Events -> Nat] /\ batch \subseteq Events /\ missed \subseteq Events
    /\ dropped \in [Events -> Causes]

\* Only a goroutine in the middle of a write has an event in hand ...
Busy == {"filtered", "write", "written"}
Hands == /\ \A p \in Procs : at[p] \in Busy <=> ev[p] # Nothing
         /\ at[Flusher] \notin Busy => todo = <<>>

\* ... and a write without an error saw to both streams.
Copies == \A p \in Procs : at[p] = "written" /\ ~err[p] => Done(ev[p])

\* An event that needs no owner any more.
Gone(e) == Done(e) \/ dropped[e] # "no"
Owned(e) ==
    \/ \E p \in Procs : ev[p] = e
    \/ e \in Elements(input) \/ e \in Elements(normal) \/ e \in Elements(critical)
    \/ e \in Elements(todo) \/ e \in Elements(requeue)
Kept == \A e \in Events : e <= arrived => Owned(e) \/ Gone(e)

IInv == Types /\ Hands /\ Copies /\ BufferBounded /\ Kept

-----------------------------------------------------------------------------
(* Elements of sequences of events *)

LEMMA EventsAreNat == Events \subseteq Nat \ {0} /\ Nothing \notin Events
BY PoolConstants DEF Events, Nothing

LEMMA ElementsAppend ==
    ASSUME NEW s \in Seq(Events), NEW e \in Events
    PROVE  Append(s, e) \in Seq(Events) /\ Elements(Append(s, e)) = Elements(s) \cup {e}
BY DEF Elements

LEMMA ElementsEmpty == Elements(<<>>) = {}
BY DEF Elements

LEMMA ElementsHeadTail ==
    ASSUME NEW s \in Seq(Events), s # <<>>
    PROVE  /\ Head(s) \in Events /\ Tail(s) \in Seq(Events)
           /\ Len(s) \in Nat \ {0} /\ Len(Tail(s)) = Len(s) - 1
           /\ Elements(s) = {Head(s)} \cup Elements(Tail(s))
<1>1. /\ Head(s) \in Events /\ Tail(s) \in Seq(Events) /\ Len(Tail(s)) = Len(s) - 1
      /\ \A i \in 1..Len(Tail(s)) : Tail(s)[i] = s[i + 1]
  BY HeadTailProperties
<1>2. Len(s) \in Nat /\ Len(s) # 0  BY EmptySeq
<1>3. Head(s) = s[1]  BY <1>2
<1>4. ASSUME NEW e \in Elements(s) PROVE e = Head(s) \/ e \in Elements(Tail(s))
  <2>1. PICK i \in 1..Len(s) : e = s[i]  BY DEF Elements
  <2>2. CASE i = 1  BY <1>3, <2>1, <2>2
  <2>3. CASE i # 1
    <3>1. i - 1 \in 1..Len(Tail(s)) /\ (i - 1) + 1 = i  BY <1>1, <1>2, <2>3
    <3>2. Tail(s)[i - 1] = s[i]  BY <1>1, <3>1
    <3> QED  BY <2>1, <3>1, <3>2 DEF Elements
  <2> QED  BY <2>2, <2>3
<1>5. ASSUME NEW e \in Elements(Tail(s)) PROVE e \in Elements(s)
  <2>1. PICK i \in 1..Len(Tail(s)) : e = Tail(s)[i]  BY DEF Elements
  <2>2. i + 1 \in 1..Len(s) /\ e = s[i + 1]  BY <1>1, <1>2, <2>1
  <2> QED  BY <2>2 DEF Elements
<1>6. Head(s) \in Elements(s)  BY <1>2, <1>3 DEF Elements
<1> QED  BY <1>1, <1>2, <1>4, <1>5, <1>6

LEMMA ElementsSplit ==
    ASSUME NEW s \in Seq(Events), NEW k \in 0..Len(s)
    PROVE  /\ SubSeq(s, 1, k) \in Seq(Events) /\ SubSeq(s, k + 1, Len(s)) \in Seq(Events)
           /\ Len(SubSeq(s, 1, k)) = k /\ Len(SubSeq(s, k + 1, Len(s))) = Len(s) - k
           /\ Elements(s) = Elements(SubSeq(s, 1, k)) \cup Elements(SubSeq(s, k + 1, Len(s)))
<1> DEFINE a == SubSeq(s, 1, k)
           b == SubSeq(s, k + 1, Len(s))
<1>0. Len(s) \in Nat /\ k \in Nat /\ k <= Len(s)  OBVIOUS
<1>1. a \in Seq(Events) /\ Len(a) = k /\ \A i \in 1..k : a[i] = s[i]
  BY <1>0
<1>2. b \in Seq(Events) /\ Len(b) = Len(s) - k /\ \A i \in 1..(Len(s) - k) : b[i] = s[k + i]
  BY <1>0
<1> HIDE DEF a, b
<1>3. ASSUME NEW e \in Elements(s) PROVE e \in Elements(a) \cup Elements(b)
  <2>1. PICK i \in 1..Len(s) : e = s[i]  BY DEF Elements
  <2>2. CASE i <= k  BY <1>0, <1>1, <2>1, <2>2 DEF Elements
  <2>3. CASE i > k
    <3>1. i - k \in 1..(Len(s) - k) /\ k + (i - k) = i  BY <1>0, <2>3
    <3>2. e = b[i - k]  BY <1>2, <2>1, <3>1
    <3> QED  BY <1>2, <3>1, <3>2 DEF Elements
  <2> QED  BY <1>0, <2>2, <2>3
<1>4. ASSUME NEW e \in Elements(a) \cup Elements(b) PROVE e \in Elements(s)
  <2>1. CASE e \in Elements(a)
    BY <1>0, <1>1, <2>1 DEF Elements
  <2>2. CASE e \in Elements(b)
    <3>1. PICK i \in 1..Len(b) : e = b[i]  BY <2>2 DEF Elements
    <3>2. k + i \in 1..Len(s) /\ e = s[k + i]  BY <1>0, <1>2, <3>1
    <3> QED  BY <3>2 DEF Elements
  <2> QED  BY <1>4, <2>1, <2>2
<1>5. Elements(s) = Elements(a) \cup Elements(b)  BY <1>3, <1>4
<1> QED  BY <1>1, <1>2, <1>5 DEF a, b

LEMMA ElementsConcat ==
    ASSUME NEW s \in Seq(Events), NEW t \in Seq(Events)
    PROVE  /\ s \o t \in Seq(Events) /\ Len(s \o t) = Len(s) + Len(t)
           /\ Elements(s) \cup Elements(t) \subseteq Elements(s \o t)
<1>1. /\ s \o t \in Seq(Events) /\ Len(s \o t) = Len(s) + Len(t)
      /\ Len(s) \in Nat /\ Len(t) \in Nat
      /\ \A i \in 1..(Len(s) + Len(t)) :
            (s \o t)[i] = IF i <= Len(s) THEN s[i] ELSE t[i - Len(s)]
  BY ConcatProperties
<1>2. ASSUME NEW i \in 1..Len(s) PROVE s[i] \in Elements(s \o t)
  <2>1. i \in 1..Len(s \o t) /\ (s \o t)[i] = s[i]  BY <1>1
  <2> QED  BY <2>1 DEF Elements
<1>3. ASSUME NEW i \in 1..Len(t) PROVE t[i] \in Elements(s \o t)
  <2>1. Len(s) + i \in 1..Len(s \o t) /\ (Len(s) + i) - Len(s) = i /\ ~(Len(s) + i <= Len(s))
    BY <1>1
  <2>2. (s \o t)[Len(s) + i] = t[i]  BY <1>1, <2>1
  <2> QED  BY <2>1, <2>2 DEF Elements
<1> QED  BY <1>1, <1>2, <1>3 DEF Elements

-----------------------------------------------------------------------------

LEMMA InitIInv == Init => IInv
<1> SUFFICES ASSUME Init PROVE IInv  OBVIOUS
<1> USE PoolConstants DEF Init
<1>1. Types  BY DEF Types, Steps, Causes, Counted, Silent
<1>2. Hands /\ Copies  BY DEF Hands, Copies, Done, Busy
<1>3. BufferBounded  BY DEF BufferBounded
<1>4. Kept  BY EventsAreNat DEF Kept, Events
<1> QED  BY <1>1, <1>2, <1>3, <1>4 DEF IInv

\* A step that keeps owners and takes nothing back keeps everything.
LEMMA KeptBy ==
    ASSUME Kept, arrived' = arrived,
           \A e \in Events : Gone(e) => Gone(e)',
           \A e \in Events : Owned(e) => Owned(e)' \/ Gone(e)'
    PROVE  Kept'
BY DEF Kept

\* Push never exceeds the bounds, and counts what it lets go.
LEMMA PushKeeps ==
    ASSUME Types, BufferBounded, NEW e \in Events, Push(e)
    PROVE  /\ normal' \in Seq(Events) /\ critical' \in Seq(Events)
           /\ dropped' \in [Events -> Causes]
           /\ BufferBounded'
           /\ \A x \in Events : dropped[x] # "no" => dropped'[x] # "no"
           /\ \A x \in Events :
                 x = e \/ x \in Elements(normal) \cup Elements(critical) =>
                     x \in Elements(normal') \cup Elements(critical') \/ dropped'[x] # "no"
<1> USE DEF Types, BufferBounded
<1>0. Len(normal) \in Nat /\ Len(critical) \in Nat /\ Capacity \in Nat \ {0}
  BY PoolConstants
<1>1. CASE e \in Critical /\ SlotFull
  <2>1. dropped' = [dropped EXCEPT ![e] = "slot"] /\ UNCHANGED buffer
    BY <1>1 DEF Push, Drop, buffer
  <2>2. \A x \in Events : dropped'[x] = IF x = e THEN "slot" ELSE dropped[x]  BY <2>1
  <2> QED  BY <2>1, <2>2 DEF buffer, Causes, Counted, Silent
<1>2. CASE e \in Critical /\ ~SlotFull
  <2>1. critical' = Append(critical, e) /\ UNCHANGED <<normal, dropped>>
    BY <1>2 DEF Push
  <2>2. Len(critical') = Len(critical) + 1 /\ Len(critical) < Capacity \div 2
    BY <1>0, <1>2, <2>1 DEF SlotFull
  <2>3. BufferBounded'  BY <1>0, <2>1, <2>2
  <2> QED  BY <2>1, <2>3, ElementsAppend
<1>3. CASE e \notin Critical /\ Full
  <2>1. normal' = Append(Tail(normal), e) /\ critical' = critical
        /\ dropped' = [dropped EXCEPT ![Head(normal)] = "evicted"] /\ normal # <<>>
    BY <1>3 DEF Push, Full, Drop
  <2>2. /\ Head(normal) \in Events /\ Tail(normal) \in Seq(Events)
        /\ Len(Tail(normal)) = Len(normal) - 1
        /\ Elements(normal) = {Head(normal)} \cup Elements(Tail(normal))
    BY <2>1, ElementsHeadTail
  <2>3. normal' \in Seq(Events) /\ Elements(normal') = Elements(Tail(normal)) \cup {e}
    BY <2>1, <2>2, ElementsAppend
  <2>4. Len(normal') = Len(normal)  BY <1>0, <2>1, <2>2
  <2>5. \A x \in Events : dropped'[x] = IF x = Head(normal) THEN "evicted" ELSE dropped[x]
    BY <2>1
  <2>6. dropped' \in [Events -> Causes]  BY <2>1 DEF Causes, Counted, Silent
  <2>7. BufferBounded'  BY <2>1, <2>4
  <2> QED  BY <2>1, <2>2, <2>3, <2>5, <2>6, <2>7
<1>4. CASE e \notin Critical /\ ~Full
  <2>1. normal' = Append(normal, e) /\ critical' = critical /\ dropped' = dropped
    BY <1>4 DEF Push
  <2>2. Len(normal') = Len(normal) + 1  BY <2>1
  <2>3. Len(normal) < Capacity
    <3>1. CASE normal = <<>>  BY <1>0, <3>1
    <3>2. CASE normal # <<>>  BY <1>0, <1>4, <3>2 DEF Full
    <3> QED  BY <3>1, <3>2
  <2>4. BufferBounded'  BY <1>0, <2>1, <2>2, <2>3
  <2> QED  BY <2>1, <2>4, ElementsAppend
<1> QED  BY <1>1, <1>2, <1>3, <1>4

\* Drain takes out what it hands on, and at least one event.
LEMMA DrainedKeeps ==
    ASSUME Types, normal \o critical # <<>>
    PROVE  /\ Drained \in Seq(Events) /\ Drained # <<>>
           /\ FromCritical \in 0..Len(critical) /\ FromNormal \in 0..Len(normal)
           /\ Elements(SubSeq(critical, 1, FromCritical)) \cup
                  Elements(SubSeq(normal, 1, FromNormal)) \subseteq Elements(Drained)
<1> USE DEF Types
<1>0. Len(normal) \in Nat /\ Len(critical) \in Nat /\ DrainBatch \in Nat \ {0}
  BY PoolConstants
<1>1. FromCritical \in 0..Len(critical) /\ FromCritical <= DrainBatch
      /\ (FromCritical = DrainBatch \/ FromCritical = Len(critical))
  BY <1>0 DEF FromCritical, Smaller
<1>2. FromNormal \in 0..Len(normal)
      /\ (FromNormal = DrainBatch - FromCritical \/ FromNormal = Len(normal))
  BY <1>0, <1>1 DEF FromNormal, Smaller
<1>3. FromCritical + FromNormal # 0
  <2>1. Len(normal) + Len(critical) # 0
    <3>1. Len(normal \o critical) = Len(normal) + Len(critical)
          /\ normal \o critical \in Seq(Events)
      BY ElementsConcat
    <3> QED  BY <3>1, EmptySeq
  <2> QED  BY <1>0, <1>1, <1>2, <2>1
<1> DEFINE c == SubSeq(critical, 1, FromCritical)
           n == SubSeq(normal, 1, FromNormal)
<1>4. c \in Seq(Events) /\ Len(c) = FromCritical  BY <1>1, ElementsSplit
<1>5. n \in Seq(Events) /\ Len(n) = FromNormal  BY <1>2, ElementsSplit
<1> HIDE DEF c, n
<1>6. /\ c \o n \in Seq(Events) /\ Len(c \o n) = Len(c) + Len(n)
      /\ Elements(c) \cup Elements(n) \subseteq Elements(c \o n)
  BY <1>4, <1>5, ElementsConcat
<1>7. c \o n # <<>>  BY <1>3, <1>4, <1>5, <1>6
<1> QED  BY <1>1, <1>2, <1>6, <1>7 DEF Drained, c, n

-----------------------------------------------------------------------------
(* The receive loop and the workers *)

LEMMA ReceiveKeeps == IInv /\ Receive => IInv'
<1> SUFFICES ASSUME IInv, Receive PROVE IInv'  OBVIOUS
<1> USE DEF IInv, Types
<1> DEFINE e == arrived + 1
<1>1. e \in Events /\ arrived' = e /\ arrived' \in 0..MaxEvents
  BY PoolConstants DEF Receive, Events
<1>2. /\ UNCHANGED <<normal, critical, at, ev, err, todo, requeue, realtime, batch, missed>>
      /\ \/ input' = Append(input, e) /\ dropped' = dropped
         \/ input' = input /\ dropped' = [dropped EXCEPT ![e] = "input"]
  BY DEF Receive, Drop, buffer, local, flush, redis
<1>3. /\ input' \in Seq(Events) /\ dropped' \in [Events -> Causes]
      /\ Elements(input) \subseteq Elements(input')
      /\ \A x \in Events : dropped[x] # "no" => dropped'[x] # "no"
      /\ e \in Elements(input') \/ dropped'[e] # "no"
  <2>1. CASE input' = Append(input, e) /\ dropped' = dropped
    <3>1. input' \in Seq(Events) /\ Elements(input') = Elements(input) \cup {e}
      BY <1>1, <2>1, ElementsAppend
    <3> QED  BY <2>1, <3>1
  <2>2. CASE input' = input /\ dropped' = [dropped EXCEPT ![e] = "input"]
    BY <1>1, <2>2 DEF Causes, Counted, Silent
  <2> QED  BY <1>2, <2>1, <2>2
<1>4. Types' /\ Hands' /\ Copies' /\ BufferBounded'
  BY <1>1, <1>2, <1>3 DEF Hands, Copies, Done, BufferBounded
<1>5. Kept'
  <2> SUFFICES ASSUME NEW x \in Events, x <= e PROVE (Owned(x) \/ Gone(x))'
    BY <1>1 DEF Kept
  <2>1. CASE x = e  BY <1>3, <2>1 DEF Owned, Gone, Done
  <2>2. CASE x # e
    <3>1. x <= arrived  BY <1>1, <2>2 DEF Events
    <3>2. Owned(x) \/ Gone(x)  BY <3>1 DEF Kept
    <3> QED  BY <1>2, <1>3, <3>2 DEF Owned, Gone, Done
  <2> QED  BY <2>1, <2>2
<1> QED  BY <1>4, <1>5

LEMMA TakeKeeps == ASSUME NEW w \in Workers PROVE IInv /\ Take(w) => IInv'
<1> SUFFICES ASSUME IInv, Take(w) PROVE IInv'  OBVIOUS
<1> USE DEF IInv, Types
<1> DEFINE e == Head(input)
<1>1. /\ w \in Procs /\ w # Flusher /\ at[w] = "idle" /\ ev[w] = Nothing
  BY PoolConstants DEF Take, At, Hands, Busy, Procs
<1>2. e \in Events /\ input' \in Seq(Events) /\ Elements(input) = {e} \cup Elements(input')
  BY ElementsHeadTail DEF Take
<1>3. UNCHANGED <<arrived, normal, critical, err, todo, requeue, realtime, batch, missed>>
  BY DEF Take, buffer, flush, redis
<1>4. CASE dropped' = [dropped EXCEPT ![e] = "parse"] /\ UNCHANGED <<at, ev>>
  <2>1. Types' /\ Hands' /\ Copies' /\ BufferBounded'
    BY <1>2, <1>3, <1>4 DEF Hands, Copies, Done, BufferBounded, Causes, Counted, Silent
  <2>2. dropped'[e] # "no" /\ \A x \in Events : dropped[x] # "no" => dropped'[x] # "no"
    BY <1>2, <1>4
  <2>3. \A x \in Events : Gone(x) => Gone(x)'  BY <1>3, <2>2 DEF Gone, Done
  <2>4. \A x \in Events : Owned(x) => Owned(x)' \/ Gone(x)'
    BY <1>2, <1>3, <1>4, <2>2 DEF Owned, Gone, Done
  <2> QED  BY <1>3, <2>1, <2>3, <2>4, KeptBy
<1>5. CASE /\ ev' = [ev EXCEPT ![w] = e] /\ dropped' = dropped
           /\ \E place \in {"filtered", "write"} : at' = [at EXCEPT ![w] = place]
  <2>1. PICK place \in {"filtered", "write"} : at' = [at EXCEPT ![w] = place]  BY <1>5
  <2>2. Types'  BY <1>1, <1>2, <1>3, <1>5, <2>1 DEF Steps
  <2>3. Hands' /\ Copies' /\ BufferBounded'
    BY <1>1, <1>2, <1>3, <1>5, <2>1, EventsAreNat DEF Hands, Copies, Done, BufferBounded, Busy
  <2>4. \A x \in Events : Gone(x) => Gone(x)'  BY <1>3, <1>5 DEF Gone, Done
  <2>5. \A x \in Events : Owned(x) => Owned(x)'
    <3>1. \A p \in Procs : ev[p] \in Events => ev'[p] = ev[p]
      BY <1>1, <1>5, EventsAreNat
    <3>2. ev'[w] = e  BY <1>1, <1>5
    <3> QED  BY <1>1, <1>2, <1>3, <3>1, <3>2 DEF Owned
  <2> QED  BY <1>3, <2>2, <2>3, <2>4, <2>5, KeptBy
<1> QED  BY <1>4, <1>5 DEF Take, Drop, Hold, Goto

LEMMA XAddFilteredKeeps == ASSUME NEW w \in Workers PROVE IInv /\ XAddFiltered(w) => IInv'
<1> SUFFICES ASSUME IInv, XAddFiltered(w) PROVE IInv'  OBVIOUS
<1> USE DEF IInv, Types
<1>1. /\ w \in Procs /\ w # Flusher /\ ev[w] \in Events
      /\ at' = [at EXCEPT ![w] = "idle"] /\ ev' = [ev EXCEPT ![w] = Nothing]
      /\ UNCHANGED <<arrived, input, normal, critical, err, todo, requeue, realtime, missed>>
  BY PoolConstants DEF XAddFiltered, At, Goto, Hold, Hands, Busy, Procs, buffer, flush
<1>2. \/ batch' = batch \cup {ev[w]} /\ dropped' = dropped
      \/ /\ batch' \in {batch, batch \cup {ev[w]}}
         /\ dropped' = [dropped EXCEPT ![ev[w]] = "batch"]
  BY DEF XAddFiltered, AddBatch, BatchFails, Drop
<1>3. Types' /\ Hands' /\ BufferBounded'
  <2>1. batch' \in SUBSET Events /\ dropped' \in [Events -> Causes]
    BY <1>1, <1>2 DEF Causes, Counted, Silent
  <2> QED  BY <1>1, <2>1 DEF Hands, BufferBounded, Busy, Steps
<1>4. Copies'
  <2> SUFFICES ASSUME NEW p \in Procs, at'[p] = "written", ~err'[p]
               PROVE  ev'[p] \in batch' \cup missed'
    BY DEF Copies, Done
  <2>1. p # w /\ at[p] = "written" /\ ~err[p] /\ ev'[p] = ev[p]  BY <1>1
  <2>2. ev[p] \in batch \cup missed  BY <2>1 DEF Copies, Done
  <2> QED  BY <1>1, <1>2, <2>1, <2>2
<1>5. \A x \in Events : Gone(x) \/ x = ev[w] => Gone(x)'
  BY <1>1, <1>2 DEF Gone, Done
<1>6. \A x \in Events : Owned(x) => Owned(x)' \/ x = ev[w]
  BY <1>1 DEF Owned
<1> QED  BY <1>1, <1>3, <1>4, <1>5, <1>6, KeptBy

\* What a write, whole or not, adds to the realtime stream.
LEMMA CopyAdded ==
    ASSUME realtime \in [Events -> Nat], NEW e \in Events, AddRealtime(e)
    PROVE  /\ realtime' \in [Events -> Nat] /\ realtime'[e] > 0
           /\ \A x \in Events : realtime[x] > 0 => realtime'[x] > 0
<1>1. \A x \in Events : realtime'[x] = IF x # e THEN realtime[x]
                                       ELSE IF realtime[x] = 2 THEN 2 ELSE realtime[x] + 1
  BY DEF AddRealtime
<1>2. realtime' \in [Events -> Nat]  BY DEF AddRealtime
<1>3. ASSUME NEW x \in Events, realtime[x] > 0 \/ x = e PROVE realtime'[x] > 0
  <2>1. realtime[x] \in Nat  OBVIOUS
  <2>2. CASE x # e
    <3>1. realtime'[x] = realtime[x]  BY <1>1, <2>2
    <3> QED  BY <1>3, <2>2, <3>1
  <2>3. CASE x = e
    <3>1. realtime'[x] = IF realtime[x] = 2 THEN 2 ELSE realtime[x] + 1  BY <1>1, <2>3
    <3> QED  BY <2>1, <3>1
  <2> QED  BY <2>2, <2>3
<1> QED  BY <1>2, <1>3

LEMMA WriteCopies ==
    ASSUME Types, NEW p \in Procs, ev[p] \in Events, Write(p)
    PROVE  /\ realtime' \in [Events -> Nat]
           /\ \A x \in Events : realtime[x] > 0 => realtime'[x] > 0
           /\ ~err'[p] => realtime'[ev[p]] > 0
<1> USE DEF Types
<1>1. CASE realtime' = realtime /\ err'[p]  BY <1>1
<1>2. CASE AddRealtime(ev[p])  BY <1>2, CopyAdded
<1>3. \/ AddRealtime(ev[p])
      \/ realtime' = realtime /\ err' = [err EXCEPT ![p] = TRUE]
  BY DEF Write, Added, AddFails
<1> QED  BY <1>1, <1>2, <1>3

LEMMA ExitCopies ==
    ASSUME Types, Exit
    PROVE  /\ realtime' \in [Events -> Nat]
           /\ \A x \in Events : realtime[x] > 0 => realtime'[x] > 0
<1> USE DEF Types
<1>1. PICK S \in SUBSET Halfway :
          realtime' = [e \in Events |-> IF e \in S /\ realtime[e] < 2 THEN realtime[e] + 1
                                                                    ELSE realtime[e]]
  BY DEF Exit
<1>2. ASSUME NEW x \in Events
      PROVE  realtime'[x] \in Nat /\ (realtime[x] > 0 => realtime'[x] > 0)
  <2>1. realtime[x] \in Nat  OBVIOUS
  <2>2. realtime'[x] = IF x \in S /\ realtime[x] < 2 THEN realtime[x] + 1 ELSE realtime[x]
    BY <1>1
  <2>3. realtime'[x] = realtime[x] + 1 \/ realtime'[x] = realtime[x]  BY <2>2
  <2> QED  BY <2>1, <2>3
<1>3. realtime' \in [Events -> Nat]
  <2>1. DOMAIN realtime' = Events /\ realtime' = [x \in Events |-> realtime'[x]]  BY <1>1
  <2> QED  BY <1>2, <2>1
<1> QED  BY <1>2, <1>3

LEMMA WriteKeeps == ASSUME NEW p \in Procs PROVE IInv /\ Write(p) => IInv'
<1> SUFFICES ASSUME IInv, Write(p) PROVE IInv'  OBVIOUS
<1> USE DEF IInv, Types
<1>1. /\ ev[p] \in Events /\ at[p] = "write" /\ at' = [at EXCEPT ![p] = "written"]
      /\ UNCHANGED <<arrived, input, normal, critical, ev, todo, requeue, dropped>>
      /\ batch' \in SUBSET Events /\ batch \subseteq batch'
      /\ missed' \in SUBSET Events /\ missed \subseteq missed'
      /\ \E b \in BOOLEAN : err' = [err EXCEPT ![p] = b]
      /\ ~err'[p] => ev[p] \in batch' \cup missed'
  BY DEF Write, At, Goto, Hands, Busy, buffer, flush, Added, AddFails, AddBatch, BatchFails
<1>2. realtime' \in [Events -> Nat]  BY <1>1, WriteCopies
<1>3. Types' /\ Hands' /\ BufferBounded'
  BY <1>1, <1>2 DEF Hands, BufferBounded, Busy, Steps
<1>4. Copies'
  <2> SUFFICES ASSUME NEW q \in Procs, at'[q] = "written", ~err'[q]
               PROVE  ev[q] \in batch' \cup missed'
    BY <1>1 DEF Copies, Done
  <2>1. CASE q = p  BY <1>1, <1>2, <2>1
  <2>2. CASE q # p
    <3>1. at[q] = "written" /\ ~err[q]  BY <1>1, <2>2
    <3>2. ev[q] \in batch \cup missed
      BY <3>1 DEF Copies, Done, Hands, Busy
    <3> QED  BY <1>1, <1>2, <3>2
  <2> QED  BY <2>1, <2>2
<1>5. \A x \in Events : Gone(x) => Gone(x)'  BY <1>1, <1>2 DEF Gone, Done
<1>6. \A x \in Events : Owned(x) => Owned(x)'  BY <1>1 DEF Owned
<1> QED  BY <1>1, <1>3, <1>4, <1>5, <1>6, KeptBy

LEMMA HandleBackpressureKeeps ==
    ASSUME NEW w \in Workers PROVE IInv /\ HandleBackpressure(w) => IInv'
<1> SUFFICES ASSUME IInv, HandleBackpressure(w) PROVE IInv'  OBVIOUS
<1> USE DEF IInv, Types
<1>1. /\ w \in Procs /\ w # Flusher /\ ev[w] \in Events /\ at[w] = "written"
      /\ at' = [at EXCEPT ![w] = "idle"] /\ ev' = [ev EXCEPT ![w] = Nothing]
      /\ err' = [err EXCEPT ![w] = FALSE]
      /\ UNCHANGED <<arrived, input, todo, requeue, realtime, batch, missed>>
  BY PoolConstants DEF HandleBackpressure, At, Goto, Hold, Forget, Hands, Busy, Procs, flush, redis
<1>2. /\ normal' \in Seq(Events) /\ critical' \in Seq(Events)
      /\ dropped' \in [Events -> Causes] /\ BufferBounded'
      /\ \A x \in Events : dropped[x] # "no" => dropped'[x] # "no"
      /\ \A x \in Events : x \in Elements(normal) \cup Elements(critical) =>
            x \in Elements(normal') \cup Elements(critical') \/ dropped'[x] # "no"
      /\ err[w] => ev[w] \in Elements(normal') \cup Elements(critical') \/ dropped'[ev[w]] # "no"
  <2>1. CASE err[w]
    <3>1. Push(ev[w])  BY <2>1 DEF HandleBackpressure
    <3> QED  BY <1>1, <3>1, PushKeeps
  <2>2. CASE ~err[w]
    <3>1. UNCHANGED <<normal, critical, dropped>>  BY <2>2 DEF HandleBackpressure, buffer
    <3> QED  BY <2>2, <3>1 DEF BufferBounded
  <2> QED  BY <2>1, <2>2
<1>3. Types' /\ Hands' /\ Copies'
  BY <1>1, <1>2 DEF Hands, Copies, Done, Busy, Steps
<1>4. \A x \in Events : Gone(x) => Gone(x)'  BY <1>1, <1>2 DEF Gone, Done
<1>5. \A x \in Events : Owned(x) => Owned(x)' \/ Gone(x)'
  <2> SUFFICES ASSUME NEW x \in Events, Owned(x) PROVE Owned(x)' \/ Gone(x)'
    OBVIOUS
  <2>1. CASE x = ev[w]
    <3>1. CASE err[w]  BY <1>2, <2>1, <3>1 DEF Owned, Gone, Done
    <3>2. CASE ~err[w]  BY <1>1, <2>1, <3>2 DEF Copies, Gone, Done
    <3> QED  BY <3>1, <3>2
  <2>2. CASE x # ev[w] /\ \E p \in Procs : ev[p] = x  BY <1>1, <2>2 DEF Owned
  <2>3. CASE ~\E p \in Procs : ev[p] = x  BY <1>1, <1>2, <2>3 DEF Owned, Gone, Done
  <2> QED  BY <2>1, <2>2, <2>3
<1> QED  BY <1>1, <1>2, <1>3, <1>4, <1>5, KeptBy

\* A worker that stops, the flusher that starts a round: only a position changes.
LEMMA MoveKeeps ==
    ASSUME IInv, NEW p \in Procs, at[p] = "idle",
           NEW place \in Steps \ Busy, at' = [at EXCEPT ![p] = place],
           UNCHANGED <<arrived, input, buffer, ev, err, todo, requeue, redis, dropped>>
    PROVE  IInv'
<1> USE DEF IInv, Types
<1>1. UNCHANGED <<arrived, input, normal, critical, ev, err, todo, requeue, realtime, batch, missed, dropped>>
  BY DEF buffer, redis
<1>2. Types' /\ BufferBounded'  BY <1>1 DEF BufferBounded
<1>3. Hands'  BY <1>1 DEF Hands, Busy
<1>4. Copies'  BY <1>1 DEF Copies, Done, Busy
<1>5. Kept'
  <2>1. \A x \in Events : Gone(x) => Gone(x)'  BY <1>1 DEF Gone, Done
  <2>2. \A x \in Events : Owned(x) => Owned(x)'  BY <1>1 DEF Owned
  <2> QED  BY <1>1, <2>1, <2>2, KeptBy
<1> QED  BY <1>2, <1>3, <1>4, <1>5

LEMMA WorkerStopKeeps == ASSUME NEW w \in Workers PROVE IInv /\ WorkerStop(w) => IInv'
<1> SUFFICES ASSUME IInv, WorkerStop(w) PROVE IInv'  OBVIOUS
<1>1. w \in Procs /\ at[w] = "idle" /\ at' = [at EXCEPT ![w] = "ended"]
      /\ UNCHANGED <<arrived, input, buffer, ev, err, todo, requeue, redis, dropped>>
  BY DEF WorkerStop, At, Goto, Procs, flush
<1>2. "ended" \in Steps \ Busy  BY DEF Steps, Busy
<1> QED  BY <1>1, <1>2, MoveKeeps

-----------------------------------------------------------------------------
(* The flusher *)

LEMMA FlusherIsProc == Flusher \in Procs /\ \A w \in Workers : w \in Procs /\ w # Flusher
BY PoolConstants DEF Procs

LEMMA StartFlushKeeps == IInv /\ (FlushTick \/ FlushStop) => IInv'
<1> SUFFICES ASSUME IInv, FlushTick \/ FlushStop PROVE IInv'  OBVIOUS
<1>1. at[Flusher] = "idle" /\ at' = [at EXCEPT ![Flusher] = "drain"]
      /\ UNCHANGED <<arrived, input, buffer, ev, err, todo, requeue, redis, dropped>>
  BY DEF FlushTick, FlushStop, At, Goto, flush
<1>2. "drain" \in Steps \ Busy  BY DEF Steps, Busy
<1> QED  BY <1>1, <1>2, FlusherIsProc, MoveKeeps

\* Whatever place a round ends at, the flusher has nothing in hand.
LEMMA ReturnPlace ==
    Return => /\ \E place \in {"ended", "idle"} : at' = [at EXCEPT ![Flusher] = place]
              /\ ev' = [ev EXCEPT ![Flusher] = Nothing]
BY DEF Return, Goto, Hold

LEMMA DrainKeeps == IInv /\ Drain => IInv'
<1> SUFFICES ASSUME IInv, Drain PROVE IInv'  OBVIOUS
<1> USE DEF IInv, Types
<1>1. /\ at[Flusher] = "drain" /\ ev[Flusher] = Nothing /\ todo = <<>>
      /\ UNCHANGED <<arrived, input, err, requeue, realtime, batch, missed, dropped>>
  BY FlusherIsProc DEF Drain, At, Hands, Busy, redis
<1>2. CASE Return /\ UNCHANGED <<normal, critical, todo>>
  <2>1. PICK place \in {"ended", "idle"} : at' = [at EXCEPT ![Flusher] = place]
    BY <1>2, ReturnPlace
  <2>2. ev' = ev  BY <1>1, <1>2, ReturnPlace
  <2>3. Types' /\ Hands' /\ BufferBounded'
    BY <1>1, <1>2, <2>1, <2>2, FlusherIsProc DEF Hands, BufferBounded, Busy, Steps
  <2>4. Copies'  BY <1>1, <2>1, <2>2 DEF Copies, Done
  <2>5. \A x \in Events : Gone(x) => Gone(x)'  BY <1>1 DEF Gone, Done
  <2>6. \A x \in Events : Owned(x) => Owned(x)'  BY <1>1, <1>2, <2>2 DEF Owned
  <2> QED  BY <1>1, <2>3, <2>4, <2>5, <2>6, KeptBy
<1>3. CASE /\ normal \o critical # <<>>
           /\ critical' = SubSeq(critical, FromCritical + 1, Len(critical))
           /\ normal' = SubSeq(normal, FromNormal + 1, Len(normal))
           /\ Hold(Flusher, Head(Drained)) /\ todo' = Tail(Drained)
           /\ Goto(Flusher, "write")
  <2>1. /\ Drained \in Seq(Events) /\ Drained # <<>>
        /\ FromCritical \in 0..Len(critical) /\ FromNormal \in 0..Len(normal)
        /\ Elements(SubSeq(critical, 1, FromCritical)) \cup
              Elements(SubSeq(normal, 1, FromNormal)) \subseteq Elements(Drained)
    BY <1>3, DrainedKeeps
  <2>2. /\ Head(Drained) \in Events /\ todo' \in Seq(Events)
        /\ Elements(Drained) = {Head(Drained)} \cup Elements(todo')
    BY <1>3, <2>1, ElementsHeadTail
  <2>3. /\ critical' \in Seq(Events) /\ Len(critical') = Len(critical) - FromCritical
        /\ Elements(critical) = Elements(SubSeq(critical, 1, FromCritical)) \cup Elements(critical')
    BY <1>3, <2>1, ElementsSplit
  <2>4. /\ normal' \in Seq(Events) /\ Len(normal') = Len(normal) - FromNormal
        /\ Elements(normal) = Elements(SubSeq(normal, 1, FromNormal)) \cup Elements(normal')
    BY <1>3, <2>1, ElementsSplit
  <2>5. /\ at' = [at EXCEPT ![Flusher] = "write"]
        /\ ev' = [ev EXCEPT ![Flusher] = Head(Drained)]
    BY <1>3 DEF Hold, Goto
  <2> HIDE DEF Drained, FromCritical, FromNormal
  <2>6. Types' /\ Hands'
    BY <1>1, <2>2, <2>3, <2>4, <2>5, FlusherIsProc, EventsAreNat DEF Hands, Busy, Steps
  <2>7. BufferBounded'
    <3>1. /\ Len(critical) \in Nat /\ Len(normal) \in Nat /\ Capacity \div 2 \in Nat
          /\ Capacity \in Nat /\ FromCritical \in Nat /\ FromNormal \in Nat
      BY <2>1, PoolConstants
    <3> QED  BY <2>3, <2>4, <3>1 DEF BufferBounded
  <2>8. Copies'  BY <1>1, <2>5 DEF Copies, Done
  <2>9. \A x \in Events : Gone(x) => Gone(x)'  BY <1>1 DEF Gone, Done
  <2>10. \A x \in Events : Owned(x) => Owned(x)'
    <3> SUFFICES ASSUME NEW x \in Events, Owned(x) PROVE Owned(x)'  OBVIOUS
    <3>1. \A p \in Procs : ev[p] = x => ev'[p] = x  BY <1>1, <2>5, EventsAreNat
    <3>2. ev'[Flusher] = Head(Drained)  BY <2>5, FlusherIsProc
    <3>3. CASE x \in Elements(Drained)  BY <2>2, <3>2, <3>3, FlusherIsProc DEF Owned
    <3>4. CASE x \notin Elements(Drained)
      BY <1>1, <2>1, <2>3, <2>4, <3>1, <3>4, ElementsEmpty DEF Owned
    <3> QED  BY <3>3, <3>4
  <2> QED  BY <1>1, <2>6, <2>7, <2>8, <2>9, <2>10, KeptBy
<1> QED  BY <1>2, <1>3 DEF Drain, buffer

LEMMA NextDrainedKeeps == IInv /\ NextDrained => IInv'
<1> SUFFICES ASSUME IInv, NextDrained PROVE IInv'  OBVIOUS
<1> USE DEF IInv, Types
<1>1. /\ at[Flusher] = "written" /\ ev[Flusher] \in Events
      /\ err' = [err EXCEPT ![Flusher] = FALSE]
      /\ UNCHANGED <<arrived, input, normal, critical, realtime, batch, missed, dropped>>
  BY FlusherIsProc DEF NextDrained, At, Forget, Hands, Busy, buffer, redis
<1>2. /\ requeue' \in Seq(Events) /\ Elements(requeue) \subseteq Elements(requeue')
      /\ err[Flusher] => ev[Flusher] \in Elements(requeue')
  <2>1. CASE err[Flusher]
    <3>1. requeue' = Append(requeue, ev[Flusher])  BY <2>1 DEF NextDrained
    <3>2. requeue' \in Seq(Events) /\ Elements(requeue') = Elements(requeue) \cup {ev[Flusher]}
      BY <1>1, <3>1, ElementsAppend
    <3> QED  BY <3>2
  <2>2. CASE ~err[Flusher]  BY <2>2 DEF NextDrained
  <2> QED  BY <2>1, <2>2
<1>3. /\ todo' \in Seq(Events)
      /\ \E place \in {"requeue", "write"} : at' = [at EXCEPT ![Flusher] = place]
      /\ \E e \in Events \cup {Nothing} :
            /\ ev' = [ev EXCEPT ![Flusher] = e]
            /\ \A x \in Elements(todo) : x = e \/ x \in Elements(todo')
      /\ ev'[Flusher] # Nothing <=> at'[Flusher] = "write"
      /\ at'[Flusher] = "requeue" => todo' = <<>>
  <2>1. CASE todo = <<>>
    <3>1. /\ at' = [at EXCEPT ![Flusher] = "requeue"] /\ ev' = [ev EXCEPT ![Flusher] = Nothing]
          /\ todo' = todo
      BY <2>1 DEF NextDrained, Goto, Hold
    <3> QED  BY <2>1, <3>1, ElementsEmpty, FlusherIsProc
  <2>2. CASE todo # <<>>
    <3>1. /\ at' = [at EXCEPT ![Flusher] = "write"] /\ ev' = [ev EXCEPT ![Flusher] = Head(todo)]
          /\ todo' = Tail(todo)
      BY <2>2 DEF NextDrained, Goto, Hold
    <3>2. /\ Head(todo) \in Events /\ todo' \in Seq(Events)
          /\ Elements(todo) = {Head(todo)} \cup Elements(todo')
      BY <2>2, <3>1, ElementsHeadTail
    <3>3. ev'[Flusher] # Nothing /\ at'[Flusher] = "write"
      BY <3>1, <3>2, FlusherIsProc, EventsAreNat
    <3> QED  BY <3>1, <3>2, <3>3
  <2> QED  BY <2>1, <2>2
<1>4. PICK e \in Events \cup {Nothing} :
        /\ ev' = [ev EXCEPT ![Flusher] = e]
        /\ \A x \in Elements(todo) : x = e \/ x \in Elements(todo')
  BY <1>3
<1>5. PICK place \in {"requeue", "write"} : at' = [at EXCEPT ![Flusher] = place]  BY <1>3
<1>6. Types'  BY <1>1, <1>2, <1>3, <1>4, <1>5 DEF Steps
<1>7. Hands'  BY <1>1, <1>3, <1>4, <1>5, FlusherIsProc DEF Hands, Busy
<1>8. BufferBounded' /\ Copies'
  BY <1>1, <1>4, <1>5, FlusherIsProc DEF BufferBounded, Copies, Done
<1>9. \A x \in Events : Gone(x) => Gone(x)'  BY <1>1 DEF Gone, Done
<1>10. \A x \in Events : Owned(x) => Owned(x)' \/ Gone(x)'
  <2> SUFFICES ASSUME NEW x \in Events, Owned(x) PROVE Owned(x)' \/ Gone(x)'  OBVIOUS
  <2>1. CASE x = ev[Flusher]
    <3>1. CASE err[Flusher]  BY <1>2, <2>1, <3>1 DEF Owned
    <3>2. CASE ~err[Flusher]
      BY <1>1, <2>1, <3>2, FlusherIsProc DEF Copies, Gone, Done
    <3> QED  BY <3>1, <3>2
  <2>2. CASE x # ev[Flusher] /\ \E p \in Procs : ev[p] = x  BY <1>4, <2>2 DEF Owned
  <2>3. CASE x \in Elements(todo)
    <3>1. ev'[Flusher] = e  BY <1>4, FlusherIsProc
    <3> QED  BY <1>4, <2>3, <3>1, FlusherIsProc DEF Owned
  <2>4. CASE x \in Elements(input) \/ x \in Elements(normal) \/ x \in Elements(critical)
             \/ x \in Elements(requeue)
    BY <1>1, <1>2, <2>4 DEF Owned
  <2> QED  BY <2>1, <2>2, <2>3, <2>4 DEF Owned
<1> QED  BY <1>1, <1>6, <1>7, <1>8, <1>9, <1>10, KeptBy

LEMMA RequeueKeeps == IInv /\ Requeue => IInv'
<1> SUFFICES ASSUME IInv, Requeue PROVE IInv'  OBVIOUS
<1> USE DEF IInv, Types
<1>1. /\ at[Flusher] = "requeue" /\ ev[Flusher] = Nothing /\ todo = <<>>
      /\ UNCHANGED <<arrived, input, err, todo, realtime, batch, missed>>
  BY FlusherIsProc DEF Requeue, At, Hands, Busy, redis
<1>2. CASE requeue # <<>> /\ Push(Head(requeue)) /\ requeue' = Tail(requeue)
           /\ UNCHANGED <<at, ev>>
  <2>1. PICK e \in Events : e = Head(requeue) /\ requeue' \in Seq(Events)
                            /\ Elements(requeue) = {e} \cup Elements(requeue')
    BY <1>2, ElementsHeadTail
  <2>2. /\ normal' \in Seq(Events) /\ critical' \in Seq(Events)
        /\ dropped' \in [Events -> Causes]
        /\ BufferBounded'
        /\ \A x \in Events : dropped[x] # "no" => dropped'[x] # "no"
        /\ \A x \in Events :
              x = e \/ x \in Elements(normal) \cup Elements(critical) =>
                  x \in Elements(normal') \cup Elements(critical') \/ dropped'[x] # "no"
    BY <1>2, <2>1, PushKeeps
  <2>3. Types' /\ Hands' /\ Copies'
    BY <1>1, <1>2, <2>1, <2>2 DEF Hands, Copies, Done
  <2>4. \A x \in Events : Gone(x) => Gone(x)'  BY <1>1, <2>2 DEF Gone, Done
  <2>5. \A x \in Events : Owned(x) => Owned(x)' \/ Gone(x)'
    BY <1>1, <1>2, <2>1, <2>2 DEF Owned, Gone, Done
  <2> QED  BY <1>1, <2>2, <2>3, <2>4, <2>5, KeptBy
<1>3. CASE /\ UNCHANGED <<normal, critical, dropped, requeue>> /\ ev' = ev
           /\ \E place \in {"ended", "idle", "drain"} : at' = [at EXCEPT ![Flusher] = place]
  <2>1. PICK place \in {"ended", "idle", "drain"} : at' = [at EXCEPT ![Flusher] = place]
    BY <1>3
  <2>2. Types' /\ Hands' /\ BufferBounded'
    BY <1>1, <1>3, <2>1, FlusherIsProc DEF Hands, BufferBounded, Busy, Steps
  <2>3. Copies'  BY <1>1, <1>3, <2>1 DEF Copies, Done
  <2>4. \A x \in Events : Gone(x) => Gone(x)'  BY <1>1, <1>3 DEF Gone, Done
  <2>5. \A x \in Events : Owned(x) => Owned(x)'  BY <1>1, <1>3 DEF Owned
  <2> QED  BY <1>1, <2>2, <2>3, <2>4, <2>5, KeptBy
<1>4. CASE /\ requeue = <<>> /\ UNCHANGED <<buffer, dropped, requeue>>
           /\ IF degraded THEN Return ELSE Goto(Flusher, "drain") /\ ev' = ev
  <2>1. CASE degraded
    <3>1. Return  BY <1>4, <2>1
    <3>2. /\ \E place \in {"ended", "idle"} : at' = [at EXCEPT ![Flusher] = place]
          /\ ev' = ev
      BY <1>1, <3>1, ReturnPlace
    <3> QED  BY <1>3, <1>4, <3>2 DEF buffer
  <2>2. CASE ~degraded
    <3>1. ev' = ev /\ at' = [at EXCEPT ![Flusher] = "drain"]  BY <1>4, <2>2 DEF Goto
    <3> QED  BY <1>3, <1>4, <3>1 DEF buffer
  <2> QED  BY <2>1, <2>2
<1> QED  BY <1>2, <1>4 DEF Requeue

-----------------------------------------------------------------------------
(* The end of the process *)

LEMMA StopKeeps == IInv /\ (Stop \/ UNCHANGED vars) => IInv'
<1> SUFFICES ASSUME IInv, Stop \/ UNCHANGED vars PROVE IInv'  OBVIOUS
<1>1. UNCHANGED <<arrived, input, normal, critical, at, ev, err, todo, requeue, realtime, batch,
                  missed, dropped>>
  BY DEF Stop, vars, buffer, local, flush, redis
<1> QED  BY <1>1 DEF IInv, Types, Hands, Copies, Done, BufferBounded, Kept, Owned, Gone, Done

\* What some part of the process owns is what the last step declares lost.
LEMMA OwnedIsHeld == ASSUME NEW e \in Events PROVE Owned(e) <=> e \in Held
<1>1. e \in InHand <=> \E p \in Procs : ev[p] = e  BY EventsAreNat DEF InHand
<1>2. ASSUME NEW S PROVE e \in UNION {Elements(s) : s \in S} <=> \E s \in S : e \in Elements(s)
  OBVIOUS
<1>3. e \in Held <=> e \in InHand
                     \/ (\E s \in {input, normal, critical, todo, requeue} : e \in Elements(s))
  BY <1>2 DEF Held
<1> QED  BY <1>1, <1>3 DEF Owned

LEMMA ExitKeeps == IInv /\ Exit => IInv'
<1> SUFFICES ASSUME IInv, Exit PROVE IInv'  OBVIOUS
<1> USE DEF IInv, Types
<1>1. /\ UNCHANGED <<arrived, batch, missed>>
      /\ input' = <<>> /\ normal' = <<>> /\ critical' = <<>> /\ todo' = <<>> /\ requeue' = <<>>
      /\ at' = [p \in Procs |-> "idle"] /\ ev' = [p \in Procs |-> Nothing]
      /\ err' = [p \in Procs |-> FALSE]
      /\ dropped' = [e \in Events |-> IF e \in Held /\ ~Done(e) THEN "exit" ELSE dropped[e]]
  BY DEF Exit
<1>0. realtime' \in [Events -> Nat]  BY ExitCopies
<1>2. dropped' \in [Events -> Causes]
  <2> HIDE DEF Held
  <2> QED  BY <1>1 DEF Causes, Counted, Silent
<1>3. Types'  BY <1>0, <1>1, <1>2 DEF Steps
<1>4. Hands' /\ Copies' /\ BufferBounded'
  BY <1>1, PoolConstants DEF Hands, Copies, Done, BufferBounded, Busy
<1>5. Kept'
  <2> HIDE DEF Held
  <2>1. \A x \in Events : Gone(x) => Gone(x)'  BY <1>1 DEF Gone, Done
  <2>2. \A x \in Events : Owned(x) => Gone(x)'
    <3> SUFFICES ASSUME NEW x \in Events, Owned(x) PROVE Gone(x)'  OBVIOUS
    <3>1. x \in Held  BY OwnedIsHeld
    <3>2. CASE ~Done(x)  BY <1>1, <3>1, <3>2 DEF Gone, Done
    <3>3. CASE Done(x)  BY <1>1, <3>3 DEF Gone, Done
    <3> QED  BY <3>2, <3>3
  <2> QED  BY <1>1, <2>1, <2>2, KeptBy
<1> QED  BY <1>3, <1>4, <1>5

-----------------------------------------------------------------------------
(* The theorems *)

LEMMA SpecIInv == Spec => []IInv
<1>1. ASSUME IInv, [Next]_vars PROVE IInv'
  <2>1. CASE Receive  BY <1>1, <2>1, ReceiveKeeps
  <2>2. ASSUME NEW w \in Workers, Work(w) \/ WorkerStop(w) PROVE IInv'
    <3>1. w \in Procs  BY FlusherIsProc
    <3> QED  BY <1>1, <2>2, <3>1, TakeKeeps, XAddFilteredKeeps, WriteKeeps,
                HandleBackpressureKeeps, WorkerStopKeeps DEF Work
  <2>3. CASE Flush
    BY <1>1, <2>3, FlusherIsProc, StartFlushKeeps, DrainKeeps, WriteKeeps, NextDrainedKeeps,
       RequeueKeeps DEF Flush
  <2>4. CASE Stop \/ UNCHANGED vars  BY <1>1, <2>4, StopKeeps
  <2>5. CASE Exit  BY <1>1, <2>5, ExitKeeps
  <2> QED  BY <1>1, <2>1, <2>2, <2>3, <2>4, <2>5 DEF Next
<1> QED  BY <1>1, InitIInv, PTL DEF Spec

(* The memory of a degraded process is bounded whatever the workers and the   *)
(* flusher do to the BackpressureBuffer at once.                              *)
THEOREM BufferIsBounded == Spec => []BufferBounded
<1>1. IInv => BufferBounded  BY DEF IInv
<1> QED  BY <1>1, SpecIInv, PTL

-----------------------------------------------------------------------------
(* Critical events, and the copy in the realtime stream                       *)

\* Critical events pass the filter and stay out of the half that evicts.
Sorted ==
    /\ \A p \in Procs : at[p] = "filtered" => ev[p] \notin Critical
    /\ \A e \in Elements(normal) : e \notin Critical

\* The second XADD of a write comes after a successful first one.
RealtimeFirst == \A e \in missed : realtime[e] > 0

CritInv == Sorted /\ RealtimeFirst /\ CriticalFirst

\* A step that lets go of no critical event and writes none to the batch stream.
LEMMA CritBy ==
    ASSUME IInv, CritInv, UNCHANGED <<realtime, missed>>,
           \A p \in Procs : at'[p] = "filtered" =>
               ev'[p] \notin Critical \/ (at[p] = "filtered" /\ ev'[p] = ev[p]),
           \A e \in Elements(normal') : e \in Elements(normal) \/ e \notin Critical,
           \A e \in Critical : e \in batch' => e \in batch,
           \A e \in Critical : dropped'[e] = dropped[e] \/ dropped'[e] \in CriticalCauses
    PROVE  CritInv'
BY DEF CritInv, Sorted, RealtimeFirst, CriticalFirst, CriticalCauses

LEMMA PushCrit ==
    ASSUME IInv, CritInv, NEW e \in Events, Push(e)
    PROVE  /\ \A x \in Elements(normal') : x \in Elements(normal) \/ x \notin Critical
           /\ \A x \in Critical : dropped'[x] = dropped[x] \/ dropped'[x] \in CriticalCauses
<1> USE DEF IInv, Types
<1>0. Critical \subseteq Events  BY PoolConstants
<1>1. CASE e \in Critical
  <2>1. normal' = normal /\ (dropped' = [dropped EXCEPT ![e] = "slot"] \/ dropped' = dropped)
    BY <1>1 DEF Push, Drop
  <2> QED  BY <1>0, <2>1 DEF CriticalCauses
<1>2. CASE e \notin Critical /\ Full
  <2>1. /\ normal' = Append(Tail(normal), e) /\ normal # <<>>
        /\ dropped' = [dropped EXCEPT ![Head(normal)] = "evicted"]
    BY <1>2 DEF Push, Full, Drop
  <2>2. /\ Head(normal) \in Elements(normal) /\ Tail(normal) \in Seq(Events)
        /\ Elements(Tail(normal)) \subseteq Elements(normal)
    BY <2>1, ElementsHeadTail
  <2>3. Elements(normal') = Elements(Tail(normal)) \cup {e}  BY <2>1, <2>2, ElementsAppend
  <2>4. Head(normal) \notin Critical  BY <2>2 DEF CritInv, Sorted
  <2> QED  BY <1>0, <1>2, <2>1, <2>2, <2>3, <2>4
<1>3. CASE e \notin Critical /\ ~Full
  <2>1. normal' = Append(normal, e) /\ dropped' = dropped  BY <1>3 DEF Push
  <2> QED  BY <1>3, <2>1, ElementsAppend
<1> QED  BY <1>1, <1>2, <1>3

LEMMA InitCrit == Init => CritInv
BY PoolConstants, ElementsEmpty
DEF Init, CritInv, Sorted, RealtimeFirst, CriticalFirst, CriticalCauses

LEMMA WorkerCrit ==
    ASSUME IInv, CritInv, NEW w \in Workers,
           Take(w) \/ XAddFiltered(w) \/ HandleBackpressure(w) \/ WorkerStop(w)
    PROVE  CritInv'
<1> USE DEF IInv, Types
<1>0. Critical \subseteq Events /\ w \in Procs  BY PoolConstants DEF Procs
<1>1. CASE Take(w)
  <2> DEFINE e == Head(input)
  <2>1. e \in Events  BY <1>1, ElementsHeadTail DEF Take
  <2>2. UNCHANGED <<normal, realtime, missed, batch>>  BY <1>1 DEF Take, buffer, redis
  <2>3. CASE Drop(e, "parse") /\ UNCHANGED <<at, ev>>
    BY <1>0, <2>1, <2>2, <2>3, CritBy DEF Drop, CriticalCauses
  <2>4. CASE /\ ev' = [ev EXCEPT ![w] = e] /\ dropped' = dropped
             /\ \E place \in {"filtered", "write"} :
                   at' = [at EXCEPT ![w] = place] /\ (place = "filtered" => e \notin Critical)
    <3>1. PICK place \in {"filtered", "write"} :
              at' = [at EXCEPT ![w] = place] /\ (place = "filtered" => e \notin Critical)
      BY <2>4
    <3>2. ASSUME NEW p \in Procs, at'[p] = "filtered"
          PROVE  ev'[p] \notin Critical \/ (at[p] = "filtered" /\ ev'[p] = ev[p])
      <4>1. CASE p = w  BY <1>0, <2>4, <3>1, <3>2, <4>1
      <4>2. CASE p # w  BY <1>0, <2>4, <3>1, <3>2, <4>2
      <4> QED  BY <4>1, <4>2
    <3> QED  BY <2>2, <2>4, <3>2, CritBy
  <2> QED  BY <1>1, <2>3, <2>4 DEF Take, Hold, Goto
<1>2. CASE XAddFiltered(w)
  <2>1. /\ at[w] = "filtered" /\ ev[w] \in Events
        /\ at' = [at EXCEPT ![w] = "idle"] /\ ev' = [ev EXCEPT ![w] = Nothing]
        /\ UNCHANGED <<normal, realtime, missed>>
        /\ batch' \in {batch, batch \cup {ev[w]}}
        /\ dropped' = dropped \/ dropped' = [dropped EXCEPT ![ev[w]] = "batch"]
    BY <1>0, <1>2
    DEF XAddFiltered, At, Goto, Hold, Drop, AddBatch, BatchFails, Hands, Busy, buffer, flush
  <2>2. ev[w] \notin Critical  BY <1>0, <2>1 DEF CritInv, Sorted
  <2>3. \A p \in Procs : at'[p] = "filtered" => at[p] = "filtered" /\ ev'[p] = ev[p]
    BY <1>0, <2>1
  <2>4. \A e \in Critical : (e \in batch' => e \in batch) /\ dropped'[e] = dropped[e]
    BY <1>0, <2>1, <2>2
  <2> QED  BY <2>1, <2>3, <2>4, CritBy
<1>3. CASE HandleBackpressure(w)
  <2>1. /\ ev[w] \in Events
        /\ at' = [at EXCEPT ![w] = "idle"] /\ ev' = [ev EXCEPT ![w] = Nothing]
        /\ UNCHANGED <<realtime, missed, batch>>
        /\ Push(ev[w]) \/ UNCHANGED <<normal, dropped>>
    BY <1>0, <1>3 DEF HandleBackpressure, At, Goto, Hold, Hands, Busy, buffer, redis
  <2>2. \A p \in Procs : at'[p] = "filtered" => at[p] = "filtered" /\ ev'[p] = ev[p]
    BY <1>0, <2>1
  <2>3. /\ \A x \in Elements(normal') : x \in Elements(normal) \/ x \notin Critical
        /\ \A x \in Critical : dropped'[x] = dropped[x] \/ dropped'[x] \in CriticalCauses
    BY <2>1, PushCrit
  <2> QED  BY <2>1, <2>2, <2>3, CritBy
<1>4. CASE WorkerStop(w)
  <2>1. /\ at' = [at EXCEPT ![w] = "ended"]
        /\ UNCHANGED <<ev, normal, realtime, missed, batch, dropped>>
    BY <1>4 DEF WorkerStop, Goto, buffer, redis
  <2> QED  BY <1>0, <2>1, CritBy
<1> QED  BY <1>1, <1>2, <1>3, <1>4

LEMMA WriteCrit ==
    ASSUME IInv, CritInv, NEW p \in Procs, Write(p)
    PROVE  CritInv'
<1> USE DEF IInv, Types
<1>1. /\ ev[p] \in Events /\ at' = [at EXCEPT ![p] = "written"]
      /\ UNCHANGED <<normal, ev, dropped>>
  BY DEF Write, At, Goto, Hands, Busy, buffer
<1>2. /\ \A x \in Events : realtime[x] > 0 => realtime'[x] > 0
      /\ ~err'[p] => realtime'[ev[p]] > 0
  BY <1>1, WriteCopies
<1>3. \/ UNCHANGED <<batch, missed>>
      \/ /\ ~err'[p]
         /\ batch' \subseteq batch \cup {ev[p]} /\ missed' \subseteq missed \cup {ev[p]}
  BY DEF Write, Added, AddFails, AddBatch, BatchFails
<1>4. Sorted'
  BY <1>1 DEF CritInv, Sorted
<1>5. RealtimeFirst'
  BY <1>1, <1>2, <1>3 DEF CritInv, RealtimeFirst
<1>6. CriticalFirst'
  BY <1>1, <1>2, <1>3, PoolConstants DEF CritInv, CriticalFirst, CriticalCauses
<1> QED  BY <1>4, <1>5, <1>6 DEF CritInv

LEMMA FlusherCrit ==
    ASSUME IInv, CritInv, FlushTick \/ FlushStop \/ Drain \/ NextDrained \/ Requeue
    PROVE  CritInv'
<1> USE DEF IInv, Types
<1>0. Flusher \in Procs  BY FlusherIsProc
<1>1. /\ UNCHANGED <<realtime, missed, batch>>
      /\ \A q \in Procs : at'[q] = at[q] \/ at'[q] # "filtered"
      /\ \A q \in Procs : q # Flusher => ev'[q] = ev[q]
      /\ at'[Flusher] # "filtered" \/ ev' = ev
  <2>1. CASE FlushTick \/ FlushStop
    BY <1>0, <2>1 DEF FlushTick, FlushStop, Goto, redis
  <2>2. CASE Drain
    BY <1>0, <2>2, ReturnPlace DEF Drain, Goto, Hold, redis
  <2>3. CASE NextDrained
    BY <1>0, <2>3 DEF NextDrained, Goto, Hold, redis
  <2>4. CASE Requeue
    BY <1>0, <2>4, ReturnPlace DEF Requeue, Goto, Hold, redis
  <2> QED  BY <2>1, <2>2, <2>3, <2>4
<1>2. /\ \A x \in Elements(normal') : x \in Elements(normal) \/ x \notin Critical
      /\ \A x \in Critical : dropped'[x] = dropped[x] \/ dropped'[x] \in CriticalCauses
  <2>1. CASE FlushTick \/ FlushStop \/ NextDrained
    BY <2>1 DEF FlushTick, FlushStop, NextDrained, buffer
  <2>2. CASE Drain
    <3>1. CASE UNCHANGED <<normal, dropped>>  BY <3>1
    <3>2. CASE /\ normal \o critical # <<>> /\ dropped' = dropped
               /\ normal' = SubSeq(normal, FromNormal + 1, Len(normal))
      <4>1. FromNormal \in 0..Len(normal)  BY <3>2, DrainedKeeps
      <4>2. Elements(normal') \subseteq Elements(normal)  BY <3>2, <4>1, ElementsSplit
      <4> QED  BY <3>2, <4>2
    <3> QED  BY <2>2, <3>1, <3>2 DEF Drain, buffer
  <2>3. CASE Requeue
    <3>1. CASE UNCHANGED <<normal, dropped>>  BY <3>1
    <3>2. CASE requeue # <<>> /\ Push(Head(requeue))
      <4>1. Head(requeue) \in Events  BY <3>2, ElementsHeadTail
      <4> QED  BY <3>2, <4>1, PushCrit
    <3> QED  BY <2>3, <3>1, <3>2 DEF Requeue, buffer
  <2> QED  BY <2>1, <2>2, <2>3
<1>3. \A q \in Procs : at'[q] = "filtered" => at[q] = "filtered" /\ ev'[q] = ev[q]
  BY <1>1
<1> QED  BY <1>1, <1>2, <1>3, CritBy

LEMMA ProcessCrit ==
    ASSUME IInv, CritInv, Receive \/ Stop \/ UNCHANGED vars \/ Exit
    PROVE  CritInv'
<1> USE DEF IInv, Types
<1>0. Critical \subseteq Events  BY PoolConstants
<1>1. CASE Receive
  <2>1. /\ UNCHANGED <<normal, at, ev, realtime, missed, batch>>
        /\ dropped' = dropped \/ dropped' = [dropped EXCEPT ![arrived + 1] = "input"]
    BY <1>1 DEF Receive, Drop, buffer, local, redis
  <2>2. \A e \in Critical : dropped'[e] = dropped[e] \/ dropped'[e] \in CriticalCauses
    BY <1>0, <2>1 DEF CriticalCauses
  <2> QED  BY <2>1, <2>2, CritBy
<1>2. CASE Stop \/ UNCHANGED vars
  <2>1. UNCHANGED <<normal, at, ev, realtime, missed, batch, dropped>>
    BY <1>2 DEF Stop, vars, buffer, local, redis
  <2> QED  BY <2>1, CritBy
<1>3. CASE Exit
  <2>1. /\ UNCHANGED <<batch, missed>> /\ normal' = <<>> /\ at' = [p \in Procs |-> "idle"]
        /\ dropped' = [e \in Events |-> IF e \in Held /\ ~Done(e) THEN "exit" ELSE dropped[e]]
    BY <1>3 DEF Exit
  <2>2. \A x \in Events : realtime[x] > 0 => realtime'[x] > 0  BY <1>3, ExitCopies
  <2>3. \A x \in Critical : dropped'[x] = dropped[x] \/ dropped'[x] = "exit"
    <3> HIDE DEF Held
    <3> QED  BY <1>0, <2>1
  <2>4. Sorted'  BY <2>1, ElementsEmpty DEF Sorted
  <2>5. RealtimeFirst'  BY <2>1, <2>2 DEF CritInv, RealtimeFirst
  <2>6. CriticalFirst'  BY <1>0, <2>1, <2>2, <2>3 DEF CritInv, CriticalFirst, CriticalCauses
  <2> QED  BY <2>4, <2>5, <2>6 DEF CritInv
<1> QED  BY <1>1, <1>2, <1>3

LEMMA SpecCrit == Spec => []CritInv
<1>1. ASSUME IInv, CritInv, [Next]_vars PROVE CritInv'
  <2>1. ASSUME NEW w \in Workers, Work(w) \/ WorkerStop(w) PROVE CritInv'
    <3>1. w \in Procs  BY FlusherIsProc
    <3> QED  BY <1>1, <2>1, <3>1, WorkerCrit, WriteCrit DEF Work
  <2>2. CASE Flush
    BY <1>1, <2>2, FlusherIsProc, FlusherCrit, WriteCrit DEF Flush
  <2>3. CASE Receive \/ Stop \/ UNCHANGED vars \/ Exit  BY <1>1, <2>3, ProcessCrit
  <2> QED  BY <1>1, <2>1, <2>2, <2>3 DEF Next
<1> QED  BY <1>1, InitCrit, SpecIInv, PTL DEF Spec

(* Every event received is in the process, in the batch stream, in the         *)
(* realtime stream alone with the failed XADD of its other copy logged, or was *)
(* let go at a known place; a critical event is never the one Push evicts, and *)
(* never reaches the batch stream without the realtime stream.                 *)
THEOREM NothingIsLost == Spec => []NothingVanishes
<1>1. ASSUME IInv, CritInv PROVE NothingVanishes
  <2>1. ASSUME NEW e \in 1..arrived PROVE Accounted(e)
    <3>1. e \in Events /\ e <= arrived  BY <1>1, PoolConstants DEF IInv, Types, Events
    <3>2. Owned(e) \/ Gone(e)  BY <1>1, <3>1 DEF IInv, Kept
    <3>3. e \in missed => realtime[e] > 0  BY <1>1 DEF CritInv, RealtimeFirst
    <3> QED  BY <3>1, <3>2, <3>3, OwnedIsHeld DEF Accounted, Gone, Done
  <2> QED  BY <1>1, <2>1 DEF NothingVanishes, CritInv
<1> QED  BY <1>1, SpecIInv, SpecCrit, PTL

-----------------------------------------------------------------------------
(* Ownership: how often an event is found in a queue and in the goroutines     *)

Count(s, e) == Cardinality({i \in 1..Len(s) : s[i] = e})
Holding(e) == {p \in Procs : ev[p] = e}

\* A goroutine that wrote an event to the realtime stream and has not let go of it.
JustWritten(e) == \E p \in Procs : ev[p] = e /\ at[p] = "written" /\ ~err[p]

\* Nothing is known of an event that has not arrived, ...
Unseen == \A e \in Events : e > arrived => Places(e) = 0 /\ realtime[e] = 0

\* ... and one that is in the realtime stream without a doubtful write has no owner
\* but the goroutine that just wrote it.
Written == \A e \in Events :
               Places(e) > 0 /\ realtime[e] > 0 /\ e \notin doubt => JustWritten(e)

FewHolders == \A e \in Events : IsFiniteSet(Holding(e))

OwnInv == FewHolders /\ OneOwner /\ Unseen /\ Written /\ DuplicateOnlyInDoubt

LEMMA CountIsNat ==
    ASSUME NEW s \in Seq(Events), NEW e
    PROVE  /\ IsFiniteSet({i \in 1..Len(s) : s[i] = e}) /\ Count(s, e) \in Nat
           /\ Count(s, e) > 0 <=> e \in Elements(s)
<1> DEFINE S == {i \in 1..Len(s) : s[i] = e}
<1>1. IsFiniteSet(1..Len(s))  BY FS_Interval
<1>2. IsFiniteSet(S)  BY <1>1, FS_Subset
<1>3. Cardinality(S) \in Nat  BY <1>2, FS_CardinalityType
<1>4. Cardinality(S) = 0 <=> S = {}  BY <1>2, FS_EmptySet
<1>5. S = {} <=> e \notin Elements(s)  BY DEF Elements
<1> HIDE DEF S
<1>6. Cardinality(S) > 0 <=> e \in Elements(s)  BY <1>3, <1>4, <1>5
<1> QED  BY <1>2, <1>3, <1>6 DEF S, Count

LEMMA CountEmpty == \A e : Count(<<>>, e) = 0
<1> SUFFICES ASSUME NEW e PROVE Count(<<>>, e) = 0  OBVIOUS
<1>1. {i \in 1..Len(<<>>) : <<>>[i] = e} = {}  OBVIOUS
<1> QED  BY <1>1, FS_EmptySet DEF Count

\* The occurrences in two sequences one after the other add up.
LEMMA CountConcat ==
    ASSUME NEW s \in Seq(Events), NEW t \in Seq(Events), NEW e
    PROVE  Count(s \o t, e) = Count(s, e) + Count(t, e)
<1> DEFINE S == {i \in 1..Len(s) : s[i] = e}
           T == {i \in 1..Len(t) : t[i] = e}
           U == {i \in 1..Len(s \o t) : (s \o t)[i] = e}
           V == {i \in U : i > Len(s)}
           f == [i \in T |-> Len(s) + i]
<1>1. /\ s \o t \in Seq(Events) /\ Len(s \o t) = Len(s) + Len(t)
      /\ Len(s) \in Nat /\ Len(t) \in Nat
      /\ \A i \in 1..(Len(s) + Len(t)) :
            (s \o t)[i] = IF i <= Len(s) THEN s[i] ELSE t[i - Len(s)]
  BY ConcatProperties
<1>2. IsFiniteSet(S) /\ IsFiniteSet(T) /\ IsFiniteSet(U)  BY <1>1, CountIsNat
<1>3. \A i \in T : Len(s) + i \in V
  <2> SUFFICES ASSUME NEW i \in T PROVE Len(s) + i \in V  OBVIOUS
  <2>1. i \in 1..Len(t) /\ t[i] = e  OBVIOUS
  <2>2. Len(s) + i \in 1..Len(s \o t) /\ ~(Len(s) + i <= Len(s)) /\ (Len(s) + i) - Len(s) = i
        /\ Len(s) + i > Len(s)
    BY <1>1, <2>1
  <2>3. (s \o t)[Len(s) + i] = t[i]  BY <1>1, <2>2
  <2> QED  BY <2>1, <2>2, <2>3
<1>4. \A j \in V : j - Len(s) \in T /\ Len(s) + (j - Len(s)) = j
  <2> SUFFICES ASSUME NEW j \in V PROVE j - Len(s) \in T /\ Len(s) + (j - Len(s)) = j  OBVIOUS
  <2>1. j \in 1..(Len(s) + Len(t)) /\ (s \o t)[j] = e /\ j > Len(s)  BY <1>1
  <2>2. (s \o t)[j] = t[j - Len(s)] /\ j - Len(s) \in 1..Len(t) /\ Len(s) + (j - Len(s)) = j
    BY <1>1, <2>1
  <2> QED  BY <2>1, <2>2
<1>5. f \in Bijection(T, V)
  <2>1. f \in [T -> V]  BY <1>3
  <2>2. \A a, b \in T : f[a] = f[b] => a = b  BY <1>1
  <2>3. \A j \in V : \E i \in T : f[i] = j  BY <1>4
  <2> QED  BY <2>1, <2>2, <2>3 DEF Bijection, Injection, Surjection, IsInjective
<1>6. IsFiniteSet(V) /\ Cardinality(V) = Cardinality(T)
  BY <1>2, <1>5, FS_Bijection DEF ExistsBijection
<1>7. S \cup V = U
  <2>1. ASSUME NEW i \in S PROVE i \in U
    <3>1. i \in 1..(Len(s) + Len(t)) /\ i <= Len(s) /\ s[i] = e  BY <1>1
    <3> QED  BY <1>1, <3>1
  <2>2. ASSUME NEW i \in U, i \notin V PROVE i \in S
    <3>1. i \in 1..(Len(s) + Len(t)) /\ i <= Len(s) /\ (s \o t)[i] = e  BY <1>1, <2>2
    <3> QED  BY <1>1, <3>1
  <2> QED  BY <2>1, <2>2
<1>8. S \cap V = {}  BY <1>1
<1> HIDE DEF S, T, U, V, f
<1>9. Cardinality(U) = Cardinality(S) + Cardinality(V)
  <2>1. Cardinality(U) = Cardinality(S) + Cardinality(V) - Cardinality(S \cap V)
    BY <1>2, <1>6, <1>7, FS_Union
  <2>2. Cardinality(S \cap V) = 0  BY <1>8, FS_EmptySet
  <2>3. Cardinality(S) \in Nat /\ Cardinality(V) \in Nat  BY <1>2, <1>6, FS_CardinalityType
  <2> QED  BY <2>1, <2>2, <2>3
<1> QED  BY <1>6, <1>9 DEF Count, S, T, U

LEMMA CountSingle ==
    ASSUME NEW x \in Events
    PROVE  <<x>> \in Seq(Events) /\ \A e : Count(<<x>>, e) = IF e = x THEN 1 ELSE 0
<1> SUFFICES ASSUME NEW e PROVE Count(<<x>>, e) = IF e = x THEN 1 ELSE 0  OBVIOUS
<1>1. CASE e = x
  <2>1. {i \in 1..Len(<<x>>) : <<x>>[i] = e} = {1}  BY <1>1
  <2> QED  BY <1>1, <2>1, FS_Singleton DEF Count
<1>2. CASE e # x
  <2>1. {i \in 1..Len(<<x>>) : <<x>>[i] = e} = {}  BY <1>2
  <2> QED  BY <1>2, <2>1, FS_EmptySet DEF Count
<1> QED  BY <1>1, <1>2

LEMMA CountAppend ==
    ASSUME NEW s \in Seq(Events), NEW x \in Events, NEW e
    PROVE  Count(Append(s, x), e) = Count(s, e) + IF e = x THEN 1 ELSE 0
<1>1. Append(s, x) = s \o <<x>>  BY AppendIsConcat
<1>2. Count(s \o <<x>>, e) = Count(s, e) + Count(<<x>>, e)  BY CountSingle, CountConcat
<1> QED  BY <1>1, <1>2, CountSingle

LEMMA CountHeadTail ==
    ASSUME NEW s \in Seq(Events), s # <<>>, NEW e
    PROVE  Count(s, e) = Count(Tail(s), e) + IF e = Head(s) THEN 1 ELSE 0
<1>1. Head(s) \in Events /\ Tail(s) \in Seq(Events)  BY ElementsHeadTail
<1>2. s = <<Head(s)>> \o Tail(s)  BY HeadTailProperties, ElementsHeadTail
<1> DEFINE h == Head(s)
           r == Tail(s)
<1> HIDE DEF h, r
<1>3. Count(<<h>> \o r, e) = Count(<<h>>, e) + Count(r, e)
  BY <1>1, CountSingle, CountConcat DEF h, r
<1>4. Count(<<h>>, e) = IF e = h THEN 1 ELSE 0  BY <1>1, CountSingle DEF h
<1>5. Count(r, e) \in Nat  BY <1>1, CountIsNat DEF r
<1>6. s = <<h>> \o r  BY <1>2 DEF h, r
<1>7. Count(s, e) = Count(r, e) + IF e = h THEN 1 ELSE 0  BY <1>3, <1>4, <1>5, <1>6
<1> QED  BY <1>7 DEF h, r

LEMMA CountSplit ==
    ASSUME NEW s \in Seq(Events), NEW k \in 0..Len(s), NEW e
    PROVE  Count(s, e) = Count(SubSeq(s, 1, k), e) + Count(SubSeq(s, k + 1, Len(s)), e)
<1> DEFINE a == SubSeq(s, 1, k)
           b == SubSeq(s, k + 1, Len(s))
<1>1. a \in Seq(Events) /\ b \in Seq(Events)  BY ElementsSplit
<1>2. a \o b = s
  <2>1. /\ 1 \in 1..Len(s) + 1 /\ k \in 1 - 1..Len(s) /\ Len(s) \in k..Len(s)  OBVIOUS
  <2>2. a \o b = SubSeq(s, 1, Len(s))  BY <2>1, ConcatAdjacentSubSeq
  <2> QED  BY <2>2, SubSeqFull
<1> HIDE DEF a, b
<1>3. Count(a \o b, e) = Count(a, e) + Count(b, e)  BY <1>1, CountConcat
<1> QED  BY <1>2, <1>3 DEF a, b

\* A goroutine that takes an event in hand, or lets go of the one it has.
InHands(e) == Cardinality(Holding(e))

LEMMA HandChanges ==
    ASSUME Types, NEW p \in Procs, NEW v \in Events \cup {Nothing}, NEW e \in Events,
           ev' = [ev EXCEPT ![p] = v], IsFiniteSet(Holding(e))
    PROVE  /\ IsFiniteSet(Holding(e)')
           /\ InHands(e)' + (IF ev[p] = e THEN 1 ELSE 0) = InHands(e) + IF v = e THEN 1 ELSE 0
<1> DEFINE H == Holding(e)
           G == Holding(e)'
<1>1. \A q \in Procs : ev'[q] = IF q = p THEN v ELSE ev[q]  BY DEF Types
<1>2. p \in H <=> ev[p] = e  BY DEF Holding
<1>3. G = IF v = e THEN H \cup {p} ELSE H \ {p}
  <2>1. G = {q \in Procs : ev'[q] = e}  BY DEF Holding
  <2>2. CASE v = e
    <3>1. \A q : q \in G <=> q \in H \cup {p}  BY <1>1, <2>1, <2>2 DEF Holding
    <3> QED  BY <2>2, <3>1
  <2>3. CASE v # e
    <3>1. \A q : q \in G <=> q \in H \ {p}  BY <1>1, <2>1, <2>3 DEF Holding
    <3> QED  BY <2>3, <3>1
  <2> QED  BY <2>2, <2>3
<1>4. InHands(e) = Cardinality(H) /\ InHands(e)' = Cardinality(G)  BY DEF InHands
<1> HIDE DEF H, G
<1>5. IsFiniteSet(H)  BY DEF H
<1>6. Cardinality(H) \in Nat  BY <1>5, FS_CardinalityType
<1>7. CASE v = e
  <2>1. G = H \cup {p}  BY <1>3, <1>7
  <2>2. IsFiniteSet(G)
        /\ Cardinality(G) = IF p \in H THEN Cardinality(H) ELSE Cardinality(H) + 1
    BY <1>5, <2>1, FS_AddElement
  <2> QED  BY <1>2, <1>4, <1>6, <1>7, <2>2 DEF G
<1>8. CASE v # e
  <2>1. G = H \ {p}  BY <1>3, <1>8
  <2>2. IsFiniteSet(G)
        /\ Cardinality(G) = IF p \in H THEN Cardinality(H) - 1 ELSE Cardinality(H)
    BY <1>5, <2>1, FS_RemoveElement
  <2>3. p \in H => Cardinality(H) # 0  BY <1>5, FS_EmptySet
  <2> QED  BY <1>2, <1>4, <1>6, <1>8, <2>2 DEF G
<1> QED  BY <1>7, <1>8

\* The places of an event, before and after a step.
LEMMA PlacesAddUp ==
    ASSUME Types, FewHolders, Types', FewHolders', NEW e \in Events
    PROVE  /\ Places(e) = InHands(e) + Count(input, e) + Count(normal, e) + Count(critical, e)
                          + Count(todo, e) + Count(requeue, e)
           /\ Places(e)' = InHands(e)' + Count(input', e) + Count(normal', e)
                           + Count(critical', e) + Count(todo', e) + Count(requeue', e)
           /\ InHands(e) \in Nat /\ InHands(e)' \in Nat
           /\ \A s \in {input, normal, critical, todo, requeue} : Count(s, e) \in Nat
           /\ \A s \in {input', normal', critical', todo', requeue'} : Count(s, e) \in Nat
           /\ Places(e) \in Nat /\ Places(e)' \in Nat
<1>1. Places(e) = InHands(e) + Count(input, e) + Count(normal, e) + Count(critical, e)
                  + Count(todo, e) + Count(requeue, e)
  BY DEF Places, InHands, Holding, Count
<1>2. Places(e)' = InHands(e)' + Count(input', e) + Count(normal', e)
                   + Count(critical', e) + Count(todo', e) + Count(requeue', e)
  BY DEF Places, InHands, Holding, Count
<1>3. InHands(e) \in Nat
  <2>1. IsFiniteSet(Holding(e))  BY DEF FewHolders
  <2> QED  BY <2>1, FS_CardinalityType DEF InHands
<1>4. InHands(e)' \in Nat
  <2>1. IsFiniteSet(Holding(e)')  BY DEF FewHolders
  <2> QED  BY <2>1, FS_CardinalityType DEF InHands
<1>5. /\ Count(input, e) \in Nat /\ Count(normal, e) \in Nat /\ Count(critical, e) \in Nat
      /\ Count(todo, e) \in Nat /\ Count(requeue, e) \in Nat
  BY CountIsNat DEF Types
<1>6. /\ Count(input', e) \in Nat /\ Count(normal', e) \in Nat /\ Count(critical', e) \in Nat
      /\ Count(todo', e) \in Nat /\ Count(requeue', e) \in Nat
  BY CountIsNat DEF Types
<1>7. Places(e) \in Nat /\ Places(e)' \in Nat  BY <1>1, <1>2, <1>3, <1>4, <1>5, <1>6
<1> QED  BY <1>1, <1>2, <1>3, <1>4, <1>5, <1>6, <1>7

\* A step that adds no place keeps ownership, if no goroutine that just wrote an
\* event the process still owns leaves it.
Loses == \A e \in Events : Places(e)' <= Places(e)
Stays == \A e \in Events : Places(e)' > 0 /\ JustWritten(e) => JustWritten(e)'

LEMMA OwnKeeps ==
    ASSUME Types, Types', OwnInv, FewHolders', arrived' = arrived, UNCHANGED <<realtime, doubt>>,
           Loses, Stays
    PROVE  OwnInv'
<1>1. \A e \in Events : Places(e) \in Nat /\ Places(e)' \in Nat  BY PlacesAddUp DEF OwnInv
<1>2. OneOwner'  BY <1>1 DEF OwnInv, OneOwner, Loses
<1>3. Unseen'
  <2> SUFFICES ASSUME NEW e \in Events, e > arrived PROVE Places(e)' = 0 /\ realtime'[e] = 0
    BY DEF Unseen
  <2> QED  BY <1>1 DEF OwnInv, Unseen, Loses
<1>4. Written'
  <2> SUFFICES ASSUME NEW e \in Events, Places(e)' > 0, realtime[e] > 0, e \notin doubt
               PROVE  JustWritten(e)'
    BY DEF Written
  <2>1. Places(e) > 0  BY <1>1 DEF Loses
  <2> QED  BY <2>1 DEF OwnInv, Written, Stays
<1>5. DuplicateOnlyInDoubt'  BY DEF OwnInv, DuplicateOnlyInDoubt
<1> QED  BY <1>2, <1>3, <1>4, <1>5 DEF OwnInv

\* Whoever wrote an event and does not move keeps it.
Others(p) == \A q \in Procs : q # p => at'[q] = at[q] /\ ev'[q] = ev[q] /\ err'[q] = err[q]

LEMMA WriterStays ==
    ASSUME NEW p \in Procs, Others(p), NEW e \in Events, JustWritten(e),
           ~(ev[p] = e /\ at[p] = "written" /\ ~err[p])
    PROVE  JustWritten(e)'
<1>1. PICK q \in Procs : ev[q] = e /\ at[q] = "written" /\ ~err[q]  BY DEF JustWritten
<1>2. q # p  BY <1>1
<1>3. ev'[q] = e /\ at'[q] = "written" /\ ~err'[q]  BY <1>1, <1>2 DEF Others
<1> QED  BY <1>3 DEF JustWritten

\* Two goroutines never have the same event.
LEMMA OneHolder ==
    ASSUME Types, OwnInv, NEW p \in Procs, NEW q \in Procs, ev[p] \in Events, ev[q] = ev[p]
    PROVE  p = q
<1> DEFINE e == ev[p]
           H == Holding(e)
<1>1. {p, q} \subseteq H  BY DEF Holding
<1>2. IsFiniteSet(H)  BY DEF OwnInv, FewHolders
<1>3. Cardinality(H) <= 1
  <2>1. /\ Count(input, e) \in Nat /\ Count(normal, e) \in Nat /\ Count(critical, e) \in Nat
        /\ Count(todo, e) \in Nat /\ Count(requeue, e) \in Nat
    BY CountIsNat DEF Types
  <2>2. Places(e) = Cardinality(H) + Count(input, e) + Count(normal, e) + Count(critical, e)
                    + Count(todo, e) + Count(requeue, e)
    BY DEF Places, Holding, Count
  <2>3. Cardinality(H) \in Nat  BY <1>2, FS_CardinalityType
  <2>4. Places(e) <= 1  BY DEF OwnInv, OneOwner
  <2> HIDE DEF H, e
  <2> QED  BY <2>1, <2>2, <2>3, <2>4
<1> HIDE DEF H
<1>4. SUFFICES ASSUME p # q PROVE FALSE  OBVIOUS
<1>5. IsFiniteSet({p}) /\ Cardinality({p}) = 1  BY FS_Singleton
<1>6. Cardinality({p} \cup {q}) = 2  BY <1>4, <1>5, FS_AddElement
<1>7. {p} \cup {q} \in SUBSET H  BY <1>1
<1>8. Cardinality({p} \cup {q}) <= Cardinality(H)  BY <1>2, <1>7, FS_Subset
<1>9. Cardinality(H) \in Nat  BY <1>2, FS_CardinalityType
<1> QED  BY <1>3, <1>6, <1>8, <1>9

\* The same of all events, for a step in which one goroutine does this.
LEMMA HandMoves ==
    ASSUME Types, OwnInv, NEW p \in Procs, NEW v \in Events \cup {Nothing},
           ev' = [ev EXCEPT ![p] = v]
    PROVE  /\ FewHolders'
           /\ \A e \in Events :
                 /\ InHands(e) \in Nat /\ InHands(e)' \in Nat
                 /\ InHands(e)' = InHands(e) + (IF v = e THEN 1 ELSE 0)
                                             - (IF ev[p] = e THEN 1 ELSE 0)
<1>1. ASSUME NEW e \in Events
      PROVE  /\ IsFiniteSet(Holding(e)')
             /\ InHands(e) \in Nat /\ InHands(e)' \in Nat
             /\ InHands(e)' = InHands(e) + (IF v = e THEN 1 ELSE 0)
                                         - (IF ev[p] = e THEN 1 ELSE 0)
  <2>1. IsFiniteSet(Holding(e))  BY DEF OwnInv, FewHolders
  <2>2. /\ IsFiniteSet(Holding(e)')
        /\ InHands(e)' + (IF ev[p] = e THEN 1 ELSE 0) = InHands(e) + IF v = e THEN 1 ELSE 0
    BY <2>1, HandChanges
  <2>3. InHands(e) \in Nat  BY <2>1, FS_CardinalityType DEF InHands
  <2>4. InHands(e)' \in Nat  BY <2>2, FS_CardinalityType DEF InHands
  <2> QED  BY <2>2, <2>3, <2>4
<1> QED  BY <1>1 DEF FewHolders

LEMMA InitOwnInv == Init => OwnInv
<1> SUFFICES ASSUME Init PROVE OwnInv  OBVIOUS
<1>1. \A e \in Events : Holding(e) = {}  BY EventsAreNat DEF Init, Holding
<1>2. \A e \in Events : IsFiniteSet(Holding(e)) /\ InHands(e) = 0
  BY <1>1, FS_EmptySet DEF InHands
<1>3. \A e \in Events : Places(e) = 0
  <2> SUFFICES ASSUME NEW e \in Events PROVE Places(e) = 0  OBVIOUS
  <2>1. Places(e) = InHands(e) + Count(input, e) + Count(normal, e) + Count(critical, e)
                    + Count(todo, e) + Count(requeue, e)
    BY DEF Places, InHands, Holding, Count
  <2>2. /\ Count(input, e) = 0 /\ Count(normal, e) = 0 /\ Count(critical, e) = 0
        /\ Count(todo, e) = 0 /\ Count(requeue, e) = 0
    BY CountEmpty DEF Init
  <2> QED  BY <1>2, <2>1, <2>2
<1>4. \A e \in Events : realtime[e] = 0  BY DEF Init
<1> QED
  BY <1>2, <1>3, <1>4 DEF OwnInv, FewHolders, OneOwner, Unseen, Written, DuplicateOnlyInDoubt

\* Push finds a place for its event or drops one.
LEMMA PushCounts ==
    ASSUME Types, NEW x \in Events, Push(x), NEW e \in Events
    PROVE  Count(normal', e) + Count(critical', e)
               <= Count(normal, e) + Count(critical, e) + IF e = x THEN 1 ELSE 0
<1> USE DEF Types
<1>1. Count(normal, e) \in Nat /\ Count(critical, e) \in Nat  BY CountIsNat
<1>2. CASE x \in Critical /\ SlotFull
  <2>1. UNCHANGED <<normal, critical>>  BY <1>2 DEF Push
  <2> QED  BY <1>1, <2>1
<1>3. CASE x \in Critical /\ ~SlotFull
  <2>1. normal' = normal /\ critical' = Append(critical, x)  BY <1>3 DEF Push
  <2>2. Count(critical', e) = Count(critical, e) + IF e = x THEN 1 ELSE 0
    BY <2>1, CountAppend
  <2> QED  BY <1>1, <2>1, <2>2
<1>4. CASE x \notin Critical /\ Full
  <2>1. normal' = Append(Tail(normal), x) /\ critical' = critical /\ normal # <<>>
    BY <1>4 DEF Push, Full
  <2>2. Tail(normal) \in Seq(Events)  BY <2>1, ElementsHeadTail
  <2>3. Count(normal', e) = Count(Tail(normal), e) + IF e = x THEN 1 ELSE 0
    BY <2>1, <2>2, CountAppend
  <2>4. Count(normal, e) = Count(Tail(normal), e) + IF e = Head(normal) THEN 1 ELSE 0
    BY <2>1, CountHeadTail
  <2>5. Count(Tail(normal), e) \in Nat  BY <2>2, CountIsNat
  <2>6. Count(normal', e) <= Count(normal, e) + IF e = x THEN 1 ELSE 0
    BY <2>3, <2>4, <2>5
  <2> QED  BY <1>1, <2>1, <2>3, <2>5, <2>6
<1>5. CASE x \notin Critical /\ ~Full
  <2>1. critical' = critical /\ normal' = Append(normal, x)  BY <1>5 DEF Push
  <2>2. Count(normal', e) = Count(normal, e) + IF e = x THEN 1 ELSE 0
    BY <2>1, CountAppend
  <2> QED  BY <1>1, <2>1, <2>2
<1> QED  BY <1>2, <1>3, <1>4, <1>5

\* Drain takes events out of the buffer, each once.
LEMMA DrainedCounts ==
    ASSUME Types, normal \o critical # <<>>, NEW e \in Events
    PROVE  Count(normal, e) + Count(critical, e)
               = Count(Drained, e)
                 + Count(SubSeq(critical, FromCritical + 1, Len(critical)), e)
                 + Count(SubSeq(normal, FromNormal + 1, Len(normal)), e)
<1> DEFINE c == SubSeq(critical, 1, FromCritical)
           n == SubSeq(normal, 1, FromNormal)
           d == SubSeq(critical, FromCritical + 1, Len(critical))
           m == SubSeq(normal, FromNormal + 1, Len(normal))
<1>1. FromCritical \in 0..Len(critical) /\ FromNormal \in 0..Len(normal)  BY DrainedKeeps
<1>2. c \in Seq(Events) /\ n \in Seq(Events) /\ d \in Seq(Events) /\ m \in Seq(Events)
  BY <1>1, ElementsSplit DEF Types
<1>3. Count(critical, e) = Count(c, e) + Count(d, e)  BY <1>1, CountSplit DEF Types
<1>4. Count(normal, e) = Count(n, e) + Count(m, e)  BY <1>1, CountSplit DEF Types
<1>5. Drained = c \o n  BY DEF Drained
<1> HIDE DEF c, n, d, m
<1>6. Count(c \o n, e) = Count(c, e) + Count(n, e)  BY <1>2, CountConcat
<1>7. /\ Count(c, e) \in Nat /\ Count(n, e) \in Nat /\ Count(d, e) \in Nat /\ Count(m, e) \in Nat
  BY <1>2, CountIsNat
<1>8. Count(normal, e) + Count(critical, e) = Count(Drained, e) + Count(d, e) + Count(m, e)
  BY <1>3, <1>4, <1>5, <1>6, <1>7
<1> QED  BY <1>8 DEF d, m

-----------------------------------------------------------------------------
(* No step adds an owner                                                      *)

LEMMA ReceiveOwn == IInv /\ IInv' /\ OwnInv /\ Receive => OwnInv'
<1> SUFFICES ASSUME IInv, IInv', OwnInv, Receive PROVE OwnInv'  OBVIOUS
<1> USE DEF IInv
<1> DEFINE n == arrived + 1
<1>1. /\ n \in Events /\ arrived' = n /\ n > arrived
      /\ UNCHANGED <<normal, critical, at, ev, err, todo, requeue, realtime, doubt>>
      /\ input' = Append(input, n) \/ input' = input
  BY PoolConstants DEF Receive, Types, Events, buffer, local, flush, redis
<1> HIDE DEF n
<1>2. FewHolders' /\ \A e \in Events : InHands(e)' = InHands(e)
  BY <1>1 DEF OwnInv, FewHolders, Holding, InHands
<1>3. \A e \in Events : Count(input', e) <= Count(input, e) + IF e = n THEN 1 ELSE 0
  <2> SUFFICES ASSUME NEW e \in Events
               PROVE  Count(input', e) <= Count(input, e) + IF e = n THEN 1 ELSE 0
    OBVIOUS
  <2>1. Count(input, e) \in Nat  BY CountIsNat DEF Types
  <2>2. CASE input' = input  BY <2>1, <2>2
  <2>3. CASE input' = Append(input, n)
    <3>1. Count(input', e) = Count(input, e) + IF e = n THEN 1 ELSE 0
      BY <1>1, <2>3, CountAppend DEF Types
    <3> QED  BY <2>1, <3>1
  <2> QED  BY <1>1, <2>2, <2>3
<1>4. \A e \in Events : /\ Places(e) \in Nat /\ Places(e)' \in Nat
                        /\ Places(e)' <= Places(e) + IF e = n THEN 1 ELSE 0
  <2> SUFFICES ASSUME NEW e \in Events
               PROVE  /\ Places(e) \in Nat /\ Places(e)' \in Nat
                      /\ Places(e)' <= Places(e) + IF e = n THEN 1 ELSE 0
    OBVIOUS
  <2>1. /\ Places(e) = InHands(e) + Count(input, e) + Count(normal, e) + Count(critical, e)
                       + Count(todo, e) + Count(requeue, e)
        /\ Places(e)' = InHands(e) + Count(input', e) + Count(normal, e) + Count(critical, e)
                        + Count(todo, e) + Count(requeue, e)
        /\ InHands(e) \in Nat /\ Count(input, e) \in Nat /\ Count(input', e) \in Nat
        /\ Count(normal, e) \in Nat /\ Count(critical, e) \in Nat
        /\ Count(todo, e) \in Nat /\ Count(requeue, e) \in Nat
        /\ Places(e) \in Nat /\ Places(e)' \in Nat
    BY <1>1, <1>2, PlacesAddUp DEF OwnInv
  <2>2. Count(input', e) <= Count(input, e) + IF e = n THEN 1 ELSE 0  BY <1>3
  <2> QED  BY <2>1, <2>2
<1>5. Places(n) = 0 /\ realtime[n] = 0  BY <1>1 DEF OwnInv, Unseen
<1>6. OneOwner'  BY <1>4, <1>5 DEF OwnInv, OneOwner
<1>7. Unseen'
  <2> SUFFICES ASSUME NEW e \in Events, e > n PROVE Places(e)' = 0 /\ realtime[e] = 0
    BY <1>1 DEF Unseen
  <2>1. e > arrived /\ e # n  BY <1>1 DEF Types, Events
  <2> QED  BY <1>4, <2>1 DEF OwnInv, Unseen
<1>8. Written'
  <2> SUFFICES ASSUME NEW e \in Events, Places(e)' > 0, realtime[e] > 0, e \notin doubt
               PROVE  JustWritten(e)'
    BY <1>1 DEF Written
  <2>1. e # n /\ Places(e) > 0  BY <1>4, <1>5
  <2>2. JustWritten(e)  BY <2>1 DEF OwnInv, Written
  <2> QED  BY <1>1, <2>2 DEF JustWritten
<1>9. DuplicateOnlyInDoubt'  BY <1>1 DEF OwnInv, DuplicateOnlyInDoubt
<1> QED  BY <1>2, <1>6, <1>7, <1>8, <1>9 DEF OwnInv

LEMMA TakeOwn ==
    ASSUME NEW w \in Workers PROVE IInv /\ IInv' /\ OwnInv /\ Take(w) => OwnInv'
<1> SUFFICES ASSUME IInv, IInv', OwnInv, Take(w) PROVE OwnInv'  OBVIOUS
<1> USE DEF IInv
<1>1. /\ w \in Procs /\ at[w] = "idle" /\ ev[w] = Nothing /\ ev[w] \notin Events
      /\ input # <<>> /\ input' = Tail(input) /\ Head(input) \in Events
      /\ UNCHANGED <<arrived, normal, critical, err, todo, requeue, realtime, doubt>>
  BY EventsAreNat, ElementsHeadTail
  DEF Take, At, Hands, Busy, Procs, Types, buffer, flush, redis
<1>2. /\ \A q \in Procs : q # w => at'[q] = at[q]
      /\ \E v \in {Head(input), Nothing} : ev' = [ev EXCEPT ![w] = v]
  <2>1. CASE UNCHANGED <<at, ev>>
    <3>1. ev' = [ev EXCEPT ![w] = Nothing]  BY <1>1, <2>1 DEF Types
    <3> QED  BY <2>1, <3>1
  <2>2. CASE Hold(w, Head(input)) /\ \E place \in Steps : Goto(w, place)
    BY <2>2 DEF Hold, Goto, Types
  <2> QED  BY <2>1, <2>2 DEF Take, Steps
<1>3. PICK v \in {Head(input), Nothing} : ev' = [ev EXCEPT ![w] = v]  BY <1>2
<1>4. FewHolders' /\ \A e \in Events : InHands(e)' = InHands(e) + IF v = e THEN 1 ELSE 0
  <2>1. v \in Events \cup {Nothing}  BY <1>1
  <2>2. FewHolders' /\ \A e \in Events :
                          /\ InHands(e) \in Nat
                          /\ InHands(e)' = InHands(e) + (IF v = e THEN 1 ELSE 0)
                                                      - (IF ev[w] = e THEN 1 ELSE 0)
    BY <1>1, <1>3, <2>1, HandMoves
  <2> QED  BY <1>1, <2>2
<1>5. Loses
  <2> SUFFICES ASSUME NEW e \in Events PROVE Places(e)' <= Places(e)  BY DEF Loses
  <2>1. Count(input, e) = Count(input', e) + IF e = Head(input) THEN 1 ELSE 0
    BY <1>1, CountHeadTail DEF Types
  <2>2. v = e => e = Head(input)  BY <1>1, EventsAreNat
  <2>3. InHands(e)' = InHands(e) + IF v = e THEN 1 ELSE 0  BY <1>4
  <2>4. /\ Places(e) = InHands(e) + Count(input, e) + Count(normal, e) + Count(critical, e)
                       + Count(todo, e) + Count(requeue, e)
        /\ Places(e)' = InHands(e)' + Count(input', e) + Count(normal, e) + Count(critical, e)
                        + Count(todo, e) + Count(requeue, e)
        /\ InHands(e) \in Nat /\ Count(input', e) \in Nat /\ Count(normal, e) \in Nat
        /\ Count(critical, e) \in Nat /\ Count(todo, e) \in Nat /\ Count(requeue, e) \in Nat
    BY <1>1, <1>4, PlacesAddUp DEF OwnInv
  <2> QED  BY <2>1, <2>2, <2>3, <2>4
<1>6. Stays
  <2>1. Others(w)  BY <1>1, <1>2, <1>3 DEF Others, Types
  <2> QED  BY <1>1, <2>1, WriterStays DEF Stays
<1> QED  BY <1>1, <1>4, <1>5, <1>6, OwnKeeps

LEMMA HandEmpties ==
    ASSUME Types, OwnInv, NEW p \in Procs, ev' = [ev EXCEPT ![p] = Nothing]
    PROVE  /\ FewHolders'
           /\ \A e \in Events :
                 /\ InHands(e)' <= InHands(e)
                 /\ InHands(e)' = InHands(e) - IF ev[p] = e THEN 1 ELSE 0
<1>1. Nothing \in Events \cup {Nothing}  OBVIOUS
<1>2. FewHolders' /\ \A e \in Events :
                        /\ InHands(e) \in Nat /\ InHands(e)' \in Nat
                        /\ InHands(e)' = InHands(e) + (IF Nothing = e THEN 1 ELSE 0)
                                                    - (IF ev[p] = e THEN 1 ELSE 0)
  BY <1>1, HandMoves
<1>3. \A e \in Events : Nothing # e  BY EventsAreNat
<1> QED  BY <1>2, <1>3

LEMMA XAddFilteredOwn ==
    ASSUME NEW w \in Workers PROVE IInv /\ IInv' /\ OwnInv /\ XAddFiltered(w) => OwnInv'
<1> SUFFICES ASSUME IInv, IInv', OwnInv, XAddFiltered(w) PROVE OwnInv'  OBVIOUS
<1> USE DEF IInv
<1>1. /\ w \in Procs /\ at[w] = "filtered" /\ ev' = [ev EXCEPT ![w] = Nothing]
      /\ at' = [at EXCEPT ![w] = "idle"]
      /\ UNCHANGED <<arrived, input, normal, critical, err, todo, requeue, realtime, doubt>>
  BY DEF XAddFiltered, At, Goto, Hold, Procs, buffer, flush
<1>2. FewHolders' /\ \A e \in Events : InHands(e)' <= InHands(e)
  BY <1>1, HandEmpties
<1>3. Loses
  <2> SUFFICES ASSUME NEW e \in Events PROVE Places(e)' <= Places(e)  BY DEF Loses
  <2> QED  BY <1>1, <1>2, PlacesAddUp DEF OwnInv
<1>4. Stays
  <2>1. Others(w)  BY <1>1 DEF Others, Types
  <2> QED  BY <1>1, <2>1, WriterStays DEF Stays
<1> QED  BY <1>1, <1>2, <1>3, <1>4, OwnKeeps

\* A write adds the first copy of an event that is certainly not in the stream, or
\* leaves the event in doubt.
\* An event about to be written has an owner, and no copy yet but a doubtful one.
LEMMA WriterOwns ==
    ASSUME IInv, OwnInv, NEW p \in Procs, at[p] = "write"
    PROVE  /\ ev[p] \in Events /\ Places(ev[p]) > 0
           /\ realtime[ev[p]] = 0 \/ ev[p] \in doubt
<1> USE DEF IInv
<1> DEFINE e == ev[p]
<1>1. e \in Events  BY DEF Hands, Busy, Types
<1>2. Places(e) > 0
  <2>1. IsFiniteSet(Holding(e)) /\ p \in Holding(e)  BY <1>1 DEF OwnInv, FewHolders, Holding
  <2>2. InHands(e) # 0  BY <2>1, FS_EmptySet DEF InHands
  <2>3. /\ Places(e) = InHands(e) + Count(input, e) + Count(normal, e) + Count(critical, e)
                       + Count(todo, e) + Count(requeue, e)
    BY DEF Places, InHands, Holding, Count
  <2>5. InHands(e) \in Nat  BY <2>1, FS_CardinalityType DEF InHands
  <2>4. /\ Count(input, e) \in Nat /\ Count(normal, e) \in Nat
        /\ Count(critical, e) \in Nat /\ Count(todo, e) \in Nat /\ Count(requeue, e) \in Nat
    BY CountIsNat DEF Types
  <2> HIDE DEF e
  <2> QED  BY <2>2, <2>3, <2>4, <2>5
<1>3. realtime[e] = 0 \/ e \in doubt
  <2> SUFFICES ASSUME realtime[e] # 0, e \notin doubt PROVE FALSE  OBVIOUS
  <2>1. realtime[e] > 0
    <3>1. realtime[e] \in Nat  BY <1>1 DEF Types
    <3> QED  BY <3>1
  <2>2. PICK q \in Procs : ev[q] = e /\ at[q] = "written"
    BY <1>1, <1>2, <2>1 DEF OwnInv, Written, JustWritten
  <2>3. p = q  BY <1>1, <2>2, OneHolder
  <2> QED  BY <2>2, <2>3
<1> QED  BY <1>1, <1>2, <1>3

LEMMA WriteOwn ==
    ASSUME NEW p \in Procs PROVE IInv /\ IInv' /\ OwnInv /\ Write(p) => OwnInv'
<1> SUFFICES ASSUME IInv, IInv', OwnInv, Write(p) PROVE OwnInv'  OBVIOUS
<1> USE DEF IInv
<1> DEFINE e == ev[p]
<1>1. /\ e \in Events /\ at[p] = "write" /\ at' = [at EXCEPT ![p] = "written"]
      /\ UNCHANGED <<arrived, input, normal, critical, ev, todo, requeue>>
  BY DEF Write, At, Goto, Hands, Busy, Types, buffer, flush
<1>2. /\ \A q \in Procs : q # p => err'[q] = err[q]
      /\ doubt \subseteq doubt'
      /\ \A x \in Events : x # e => realtime'[x] = realtime[x]
      /\ \/ e \in doubt'
         \/ realtime'[e] = realtime[e]
         \/ /\ ~err'[p]
            /\ realtime'[e] = IF realtime[e] = 2 THEN 2 ELSE realtime[e] + 1
  <2>1. AddRealtime(e) =>
          /\ \A x \in Events : x # e => realtime'[x] = realtime[x]
          /\ realtime'[e] = IF realtime[e] = 2 THEN 2 ELSE realtime[e] + 1
    BY <1>1 DEF AddRealtime, Types
  <2>2. CASE Added(p)
    <3>1. AddRealtime(e) /\ doubt' = doubt /\ err' = [err EXCEPT ![p] = FALSE]
      BY <2>2 DEF Added
    <3> QED  BY <2>1, <3>1 DEF Types
  <2>3. CASE AddFails(p)
    <3>1. \A q \in Procs : q # p => err'[q] = err[q]  BY <2>3 DEF AddFails, Types
    <3>2. CASE UNCHANGED <<realtime, doubt>>  BY <3>1, <3>2
    <3>3. CASE AddRealtime(e) /\ doubt' = doubt \cup {e}  BY <2>1, <3>1, <3>3
    <3> QED  BY <2>3, <3>2, <3>3 DEF AddFails
  <2> QED  BY <2>2, <2>3 DEF Write
<1>3. FewHolders' /\ \A x \in Events : Places(x)' = Places(x)
  <2>1. FewHolders'  BY <1>1 DEF OwnInv, FewHolders, Holding
  <2>2. \A x \in Events : InHands(x)' = InHands(x)  BY <1>1 DEF InHands, Holding
  <2> QED  BY <1>1, <2>1, <2>2 DEF Places
<1>4. Places(e) > 0  BY <1>1, WriterOwns
<1>5. realtime[e] = 0 \/ e \in doubt  BY <1>1, WriterOwns
<1> HIDE DEF e
<1>6. Unseen'
  <2> SUFFICES ASSUME NEW x \in Events, x > arrived PROVE Places(x)' = 0 /\ realtime'[x] = 0
    BY <1>1 DEF Unseen
  <2>1. Places(x) = 0 /\ realtime[x] = 0  BY DEF OwnInv, Unseen
  <2>2. x # e  BY <1>4, <2>1
  <2> QED  BY <1>2, <1>3, <2>1, <2>2
<1>7. Written'
  <2> SUFFICES ASSUME NEW x \in Events, Places(x)' > 0, realtime'[x] > 0, x \notin doubt'
               PROVE  JustWritten(x)'
    BY DEF Written
  <2>1. CASE x # e
    <3>1. JustWritten(x)  BY <1>2, <1>3, <2>1 DEF OwnInv, Written
    <3>2. Others(p)  BY <1>1, <1>2 DEF Others, Types
    <3> QED  BY <1>1, <3>1, <3>2, WriterStays
  <2>2. CASE x = e
    <3>1. realtime[e] = 0 /\ e \notin doubt'  BY <1>2, <1>5, <2>2
    <3>2. ~err'[p]  BY <1>2, <2>2, <3>1
    <3>3. ev'[p] = e /\ at'[p] = "written"  BY <1>1 DEF Types, e
    <3> QED  BY <2>2, <3>2, <3>3 DEF JustWritten
  <2> QED  BY <2>1, <2>2
<1>8. DuplicateOnlyInDoubt'
  <2> SUFFICES ASSUME NEW x \in Events, realtime'[x] > 1, x \notin doubt' PROVE FALSE
    BY DEF DuplicateOnlyInDoubt
  <2>1. x \notin doubt /\ realtime[x] \in Nat  BY <1>2 DEF Types
  <2>2. CASE x # e  BY <1>2, <2>1, <2>2 DEF OwnInv, DuplicateOnlyInDoubt
  <2>3. CASE x = e
    <3>1. realtime[x] = 0  BY <1>5, <2>1, <2>3
    <3>2. realtime'[x] = 0 \/ realtime'[x] = 0 + 1  BY <1>2, <2>3, <3>1
    <3> QED  BY <3>2
  <2> QED  BY <2>2, <2>3
<1>9. OneOwner'  BY <1>3 DEF OwnInv, OneOwner
<1> QED  BY <1>3, <1>6, <1>7, <1>8, <1>9 DEF OwnInv

\* Steps that move no event.
LEMMA MoveOwn ==
    ASSUME IInv, OwnInv, NEW p \in Procs, at[p] # "written",
           \A q \in Procs : q # p => at'[q] = at[q],
           UNCHANGED <<arrived, input, normal, critical, ev, err, todo, requeue, realtime, doubt>>
    PROVE  OwnInv'
<1>1. FewHolders'  BY DEF OwnInv, FewHolders, Holding
<1>2. \A e \in Events : Places(e)' = Places(e)  BY DEF Places
<1>3. Others(p)  BY DEF Others
<1>4. \A e \in Events : JustWritten(e) => JustWritten(e)'  BY <1>3, WriterStays
<1> QED
  BY <1>1, <1>2, <1>4
  DEF OwnInv, OneOwner, Unseen, Written, DuplicateOnlyInDoubt

LEMMA HandleBackpressureOwn ==
    ASSUME NEW w \in Workers PROVE IInv /\ IInv' /\ OwnInv /\ HandleBackpressure(w) => OwnInv'
<1> SUFFICES ASSUME IInv, IInv', OwnInv, HandleBackpressure(w) PROVE OwnInv'  OBVIOUS
<1> USE DEF IInv
<1>1. /\ w \in Procs /\ ev[w] \in Events /\ at[w] = "written"
      /\ at' = [at EXCEPT ![w] = "idle"] /\ ev' = [ev EXCEPT ![w] = Nothing]
      /\ err' = [err EXCEPT ![w] = FALSE]
      /\ UNCHANGED <<arrived, input, todo, requeue, realtime, doubt>>
  BY DEF HandleBackpressure, At, Goto, Hold, Forget, Hands, Busy, Procs, Types, flush, redis
<1>2. FewHolders' /\ \A e \in Events : InHands(e)' = InHands(e) - IF ev[w] = e THEN 1 ELSE 0
  BY <1>1, HandEmpties
<1>3. ASSUME NEW e \in Events
      PROVE  Count(normal', e) + Count(critical', e)
                 <= Count(normal, e) + Count(critical, e) + IF err[w] /\ e = ev[w] THEN 1 ELSE 0
  <2>1. CASE err[w]
    <3>1. Push(ev[w])  BY <2>1 DEF HandleBackpressure
    <3> QED  BY <1>1, <2>1, <3>1, PushCounts
  <2>2. CASE ~err[w]
    <3>1. UNCHANGED <<normal, critical>>  BY <2>2 DEF HandleBackpressure, buffer
    <3>2. Count(normal, e) \in Nat /\ Count(critical, e) \in Nat  BY CountIsNat DEF Types
    <3> QED  BY <2>2, <3>1, <3>2
  <2> QED  BY <2>1, <2>2
<1>4. ASSUME NEW e \in Events
      PROVE  /\ Places(e)' <= Places(e)
             /\ e = ev[w] /\ ~err[w] => Places(e)' = 0
  <2>1. Places(e)' <= Places(e) - (IF ev[w] = e THEN 1 ELSE 0)
                                + IF err[w] /\ e = ev[w] THEN 1 ELSE 0
    BY <1>1, <1>2, <1>3, PlacesAddUp DEF OwnInv
  <2>2. Places(e) \in Nat /\ Places(e)' \in Nat /\ Places(e) <= 1
    BY <1>2, PlacesAddUp DEF OwnInv, OneOwner
  <2> QED  BY <2>1, <2>2
<1>5. Loses  BY <1>4 DEF Loses
<1>6. Stays
  <2> SUFFICES ASSUME NEW e \in Events, Places(e)' > 0, JustWritten(e) PROVE JustWritten(e)'
    BY DEF Stays
  <2>1. ~(e = ev[w] /\ ~err[w])  BY <1>4
  <2>2. Others(w)  BY <1>1 DEF Others, Types
  <2> QED  BY <1>1, <2>1, <2>2, WriterStays
<1> QED  BY <1>1, <1>2, <1>5, <1>6, OwnKeeps

LEMMA DrainOwn == IInv /\ IInv' /\ OwnInv /\ Drain => OwnInv'
<1> SUFFICES ASSUME IInv, IInv', OwnInv, Drain PROVE OwnInv'  OBVIOUS
<1> USE DEF IInv
<1>1. /\ at[Flusher] = "drain" /\ ev[Flusher] = Nothing /\ todo = <<>>
      /\ UNCHANGED <<arrived, input, err, requeue, realtime, doubt>>
  BY FlusherIsProc DEF Drain, At, Hands, Busy, redis
<1>2. CASE Return /\ UNCHANGED <<buffer, todo>>
  <2>1. PICK place \in {"ended", "idle"} : at' = [at EXCEPT ![Flusher] = place]
    BY <1>2, ReturnPlace
  <2>2. ev' = ev  BY <1>1, <1>2, ReturnPlace DEF Types
  <2>3. \A q \in Procs : q # Flusher => at'[q] = at[q]  BY <2>1 DEF Types
  <2> QED  BY <1>1, <1>2, <2>2, <2>3, FlusherIsProc, MoveOwn DEF buffer
<1>3. CASE /\ normal \o critical # <<>>
           /\ critical' = SubSeq(critical, FromCritical + 1, Len(critical))
           /\ normal' = SubSeq(normal, FromNormal + 1, Len(normal))
           /\ Hold(Flusher, Head(Drained)) /\ todo' = Tail(Drained)
           /\ Goto(Flusher, "write")
  <2> DEFINE d == Drained
  <2>1. d \in Seq(Events) /\ d # <<>>  BY <1>3, DrainedKeeps
  <2>2. ASSUME NEW e \in Events
        PROVE  Count(normal, e) + Count(critical, e)
                   = Count(d, e) + Count(critical', e) + Count(normal', e)
    BY <1>3, <2>2, DrainedCounts
  <2>3. /\ todo' = Tail(d) /\ ev' = [ev EXCEPT ![Flusher] = Head(d)]
        /\ at' = [at EXCEPT ![Flusher] = "write"]
    BY <1>3 DEF Hold, Goto
  <2> HIDE DEF d
  <2>4. Head(d) \in Events  BY <2>1, ElementsHeadTail
  <2>5. \A e \in Events : Count(d, e) = Count(todo', e) + IF e = Head(d) THEN 1 ELSE 0
    BY <2>1, <2>3, CountHeadTail
  <2>6. FewHolders' /\ \A e \in Events :
                          /\ InHands(e) \in Nat
                          /\ InHands(e)' = InHands(e) + (IF Head(d) = e THEN 1 ELSE 0)
                                                      - (IF ev[Flusher] = e THEN 1 ELSE 0)
    <3>1. Head(d) \in Events \cup {Nothing}  BY <2>4
    <3> QED  BY <2>3, <3>1, FlusherIsProc, HandMoves
  <2>7. Loses
    <3> SUFFICES ASSUME NEW e \in Events PROVE Places(e)' <= Places(e)  BY DEF Loses
    <3>1. InHands(e)' = InHands(e) + IF e = Head(d) THEN 1 ELSE 0
      BY <1>1, <2>6, EventsAreNat
    <3>2. Count(normal, e) + Count(critical, e)
              = Count(todo', e) + (IF e = Head(d) THEN 1 ELSE 0)
                + Count(critical', e) + Count(normal', e)
      BY <2>2, <2>5
    <3>3. Count(todo, e) = 0  BY <1>1, CountEmpty
    <3>4. /\ Places(e) = InHands(e) + Count(input, e) + Count(normal, e) + Count(critical, e)
                         + Count(todo, e) + Count(requeue, e)
          /\ Places(e)' = InHands(e)' + Count(input, e) + Count(normal', e)
                          + Count(critical', e) + Count(todo', e) + Count(requeue, e)
          /\ InHands(e) \in Nat /\ InHands(e)' \in Nat
          /\ \A s \in {input, normal, critical, todo, requeue} : Count(s, e) \in Nat
          /\ Count(normal', e) \in Nat /\ Count(critical', e) \in Nat /\ Count(todo', e) \in Nat
      BY <1>1, <2>6, PlacesAddUp DEF OwnInv
    <3> QED  BY <3>1, <3>2, <3>3, <3>4
  <2>8. Stays
    <3>1. Others(Flusher)  BY <1>1, <2>3 DEF Others, Types
    <3> QED  BY <1>1, <3>1, FlusherIsProc, WriterStays DEF Stays
  <2> QED  BY <1>1, <2>6, <2>7, <2>8, OwnKeeps
<1> QED  BY <1>2, <1>3 DEF Drain

LEMMA NextDrainedOwn == IInv /\ IInv' /\ OwnInv /\ NextDrained => OwnInv'
<1> SUFFICES ASSUME IInv, IInv', OwnInv, NextDrained PROVE OwnInv'  OBVIOUS
<1> USE DEF IInv
<1>1. /\ at[Flusher] = "written" /\ ev[Flusher] \in Events
      /\ err' = [err EXCEPT ![Flusher] = FALSE]
      /\ UNCHANGED <<arrived, input, normal, critical, realtime, doubt>>
  BY FlusherIsProc DEF NextDrained, At, Forget, Hands, Busy, Types, buffer, redis
<1>2. ASSUME NEW e \in Events
      PROVE  Count(requeue', e)
                 = Count(requeue, e) + IF err[Flusher] /\ e = ev[Flusher] THEN 1 ELSE 0
  <2>1. CASE err[Flusher]
    <3>1. requeue' = Append(requeue, ev[Flusher])  BY <2>1 DEF NextDrained
    <3> QED  BY <1>1, <2>1, <3>1, CountAppend DEF Types
  <2>2. CASE ~err[Flusher]
    <3>1. requeue' = requeue  BY <2>2 DEF NextDrained
    <3>2. Count(requeue, e) \in Nat  BY CountIsNat DEF Types
    <3> QED  BY <2>2, <3>1, <3>2
  <2> QED  BY <2>1, <2>2
<1>3. \E v \in Events \cup {Nothing} :
        /\ ev' = [ev EXCEPT ![Flusher] = v]
        /\ \A e \in Events : Count(todo, e) = Count(todo', e) + IF v = e THEN 1 ELSE 0
  <2>1. CASE todo = <<>>
    <3>1. ev' = [ev EXCEPT ![Flusher] = Nothing] /\ todo' = todo
      BY <2>1 DEF NextDrained, Hold
    <3>2. \A e \in Events : Nothing # e /\ Count(todo, e) = 0  BY <2>1, CountEmpty, EventsAreNat
    <3>3. \A e \in Events : Count(todo, e) = Count(todo', e) + IF Nothing = e THEN 1 ELSE 0
      BY <3>1, <3>2
    <3> QED  BY <3>1, <3>3
  <2>2. CASE todo # <<>>
    <3>1. ev' = [ev EXCEPT ![Flusher] = Head(todo)] /\ todo' = Tail(todo)
      BY <2>2 DEF NextDrained, Hold
    <3>2. Head(todo) \in Events  BY <2>2, ElementsHeadTail DEF Types
    <3>3. \A e \in Events : Count(todo, e) = Count(todo', e) + IF Head(todo) = e THEN 1 ELSE 0
      BY <2>2, <3>1, CountHeadTail DEF Types
    <3> QED  BY <3>1, <3>2, <3>3
  <2> QED  BY <2>1, <2>2
<1>4. PICK v \in Events \cup {Nothing} :
        /\ ev' = [ev EXCEPT ![Flusher] = v]
        /\ \A e \in Events : Count(todo, e) = Count(todo', e) + IF v = e THEN 1 ELSE 0
  BY <1>3
<1>5. FewHolders' /\ \A e \in Events :
                        InHands(e)' = InHands(e) + (IF v = e THEN 1 ELSE 0)
                                                 - (IF ev[Flusher] = e THEN 1 ELSE 0)
  BY <1>4, FlusherIsProc, HandMoves
<1>6. ASSUME NEW e \in Events
      PROVE  /\ Places(e)' <= Places(e)
             /\ e = ev[Flusher] /\ ~err[Flusher] => Places(e)' = 0
  <2>1. /\ Places(e) = InHands(e) + Count(input, e) + Count(normal, e) + Count(critical, e)
                       + Count(todo, e) + Count(requeue, e)
        /\ Places(e)' = InHands(e)' + Count(input, e) + Count(normal, e)
                        + Count(critical, e) + Count(todo', e) + Count(requeue', e)
        /\ InHands(e) \in Nat /\ InHands(e)' \in Nat
        /\ \A s \in {input, normal, critical, todo, requeue} : Count(s, e) \in Nat
        /\ Count(todo', e) \in Nat
        /\ Places(e) \in Nat /\ Places(e)' \in Nat
    BY <1>1, <1>5, PlacesAddUp DEF OwnInv
  <2>2. /\ InHands(e)' = InHands(e) + (IF v = e THEN 1 ELSE 0)
                                    - (IF ev[Flusher] = e THEN 1 ELSE 0)
        /\ Count(todo, e) = Count(todo', e) + IF v = e THEN 1 ELSE 0
        /\ Count(requeue', e)
               = Count(requeue, e) + IF err[Flusher] /\ e = ev[Flusher] THEN 1 ELSE 0
    BY <1>2, <1>4, <1>5
  <2>3. Places(e)' = Places(e) - (IF ev[Flusher] = e THEN 1 ELSE 0)
                               + IF err[Flusher] /\ e = ev[Flusher] THEN 1 ELSE 0
    BY <2>1, <2>2
  <2>4. Places(e) <= 1  BY DEF OwnInv, OneOwner
  <2> QED  BY <2>1, <2>3, <2>4
<1>7. Loses  BY <1>6 DEF Loses
<1>8. Stays
  <2> SUFFICES ASSUME NEW e \in Events, Places(e)' > 0, JustWritten(e) PROVE JustWritten(e)'
    BY DEF Stays
  <2>1. ~(e = ev[Flusher] /\ ~err[Flusher])  BY <1>6
  <2>2. Others(Flusher)
    <3>1. \E place \in Steps : at' = [at EXCEPT ![Flusher] = place]
      BY DEF NextDrained, Goto, Steps
    <3> QED  BY <1>1, <1>4, <3>1 DEF Others, Types
  <2> QED  BY <2>1, <2>2, FlusherIsProc, WriterStays
<1> QED  BY <1>1, <1>5, <1>7, <1>8, OwnKeeps

LEMMA RequeueOwn == IInv /\ IInv' /\ OwnInv /\ Requeue => OwnInv'
<1> SUFFICES ASSUME IInv, IInv', OwnInv, Requeue PROVE OwnInv'  OBVIOUS
<1> USE DEF IInv
<1>1. /\ at[Flusher] = "requeue" /\ ev[Flusher] = Nothing
      /\ UNCHANGED <<arrived, input, err, todo, realtime, doubt>>
  BY FlusherIsProc DEF Requeue, At, Hands, Busy, redis
<1>2. CASE requeue # <<>> /\ Push(Head(requeue)) /\ requeue' = Tail(requeue)
           /\ UNCHANGED <<at, ev>>
  <2>1. Head(requeue) \in Events  BY <1>2, ElementsHeadTail DEF Types
  <2>2. FewHolders' /\ \A e \in Events : InHands(e)' = InHands(e)
    BY <1>2 DEF OwnInv, FewHolders, Holding, InHands
  <2>3. Loses
    <3> SUFFICES ASSUME NEW e \in Events PROVE Places(e)' <= Places(e)  BY DEF Loses
    <3>1. Count(requeue, e) = Count(requeue', e) + IF e = Head(requeue) THEN 1 ELSE 0
      BY <1>2, CountHeadTail DEF Types
    <3>2. Count(normal', e) + Count(critical', e)
              <= Count(normal, e) + Count(critical, e) + IF e = Head(requeue) THEN 1 ELSE 0
      BY <1>2, <2>1, PushCounts
    <3>3. /\ Places(e) = InHands(e) + Count(input, e) + Count(normal, e) + Count(critical, e)
                         + Count(todo, e) + Count(requeue, e)
          /\ Places(e)' = InHands(e) + Count(input, e) + Count(normal', e)
                          + Count(critical', e) + Count(todo, e) + Count(requeue', e)
          /\ InHands(e) \in Nat
          /\ \A s \in {input, normal, critical, todo, requeue} : Count(s, e) \in Nat
          /\ \A s \in {normal', critical', requeue'} : Count(s, e) \in Nat
      BY <1>1, <2>2, PlacesAddUp DEF OwnInv
    <3> QED  BY <3>1, <3>2, <3>3
  <2>4. Stays  BY <1>1, <1>2 DEF Stays, JustWritten
  <2> QED  BY <1>1, <2>2, <2>3, <2>4, OwnKeeps
<1>3. CASE requeue = <<>> /\ (IF degraded THEN Return ELSE Goto(Flusher, "drain") /\ ev' = ev)
           /\ UNCHANGED <<buffer, dropped, requeue>>
  <2>1. ev' = ev /\ \E place \in Steps : at' = [at EXCEPT ![Flusher] = place]
    <3>1. CASE degraded
      BY <1>1, <1>3, <3>1, ReturnPlace DEF Steps, Types
    <3>2. CASE ~degraded  BY <1>3, <3>2 DEF Goto, Steps
    <3> QED  BY <3>1, <3>2
  <2>2. \A q \in Procs : q # Flusher => at'[q] = at[q]  BY <2>1 DEF Types
  <2> QED  BY <1>1, <1>3, <2>1, <2>2, FlusherIsProc, MoveOwn DEF buffer
<1> QED  BY <1>2, <1>3 DEF Requeue

LEMMA ExitOwn == IInv /\ IInv' /\ OwnInv /\ Exit => OwnInv'
<1> SUFFICES ASSUME IInv, IInv', OwnInv, Exit PROVE OwnInv'  OBVIOUS
<1> USE DEF IInv
<1>1. /\ UNCHANGED <<arrived, doubt>>
      /\ input' = <<>> /\ normal' = <<>> /\ critical' = <<>> /\ todo' = <<>> /\ requeue' = <<>>
      /\ ev' = [p \in Procs |-> Nothing]
  BY DEF Exit
<1>2. \A e \in Events : Holding(e)' = {}  BY <1>1, EventsAreNat DEF Holding
<1>3. FewHolders' /\ \A e \in Events : InHands(e)' = 0
  BY <1>2, FS_EmptySet DEF FewHolders, InHands
<1>4. ASSUME NEW e \in Events PROVE Places(e)' = 0 /\ Places(e) \in Nat
  <2>1. Count(<<>>, e) = 0  BY CountEmpty
  <2> QED  BY <1>1, <1>3, <2>1, PlacesAddUp DEF OwnInv
<1>5. ASSUME NEW e \in Events, realtime'[e] # realtime[e]
      PROVE  /\ Places(e) > 0 /\ realtime'[e] = realtime[e] + 1
             /\ realtime[e] = 0 \/ e \in doubt
  <2>1. PICK S \in SUBSET Halfway :
            realtime' = [x \in Events |-> IF x \in S /\ realtime[x] < 2 THEN realtime[x] + 1
                                                                      ELSE realtime[x]]
    BY DEF Exit
  <2>2. e \in S /\ realtime'[e] = realtime[e] + 1  BY <1>5, <2>1
  <2>3. PICK p \in Procs : at[p] = "write" /\ ev[p] = e  BY <2>2 DEF Halfway
  <2> QED  BY <2>2, <2>3, WriterOwns
<1>6. Unseen'
  <2> SUFFICES ASSUME NEW e \in Events, e > arrived PROVE Places(e)' = 0 /\ realtime'[e] = 0
    BY <1>1 DEF Unseen
  <2>1. Places(e) = 0 /\ realtime[e] = 0  BY DEF OwnInv, Unseen
  <2> QED  BY <1>4, <1>5, <2>1
<1>7. DuplicateOnlyInDoubt'
  <2> SUFFICES ASSUME NEW e \in Events, realtime'[e] > 1, e \notin doubt PROVE FALSE
    BY <1>1 DEF DuplicateOnlyInDoubt
  <2>1. realtime'[e] # realtime[e]  BY DEF OwnInv, DuplicateOnlyInDoubt
  <2>2. realtime'[e] = 0 + 1  BY <1>5, <2>1
  <2> QED  BY <2>2
<1>8. Written'  BY <1>4 DEF Written
<1>9. OneOwner'  BY <1>4 DEF OneOwner
<1> QED  BY <1>3, <1>6, <1>7, <1>8, <1>9 DEF OwnInv

\* A stop, a tick of the flusher, the end of a worker, and a step of another process.
LEMMA QuietOwn ==
    ASSUME IInv, OwnInv,
           FlushTick \/ FlushStop \/ Stop \/ UNCHANGED vars \/ \E w \in Workers : WorkerStop(w)
    PROVE  OwnInv'
<1> DEFINE Still == UNCHANGED <<arrived, input, normal, critical, ev, err, todo, requeue,
                                realtime, doubt>>
<1>1. CASE FlushTick \/ FlushStop
  <2>1. at[Flusher] = "idle" /\ Still /\ \A q \in Procs : q # Flusher => at'[q] = at[q]
    BY <1>1 DEF FlushTick, FlushStop, At, Goto, buffer, flush, redis, IInv, Types
  <2> QED  BY <2>1, FlusherIsProc, MoveOwn
<1>2. CASE \E w \in Workers : WorkerStop(w)
  <2>1. PICK w \in Workers : WorkerStop(w)  BY <1>2
  <2>2. at[w] = "idle" /\ Still /\ \A q \in Procs : q # w => at'[q] = at[q]
    BY <2>1 DEF WorkerStop, At, Goto, buffer, flush, redis, IInv, Types
  <2> QED  BY <2>2, FlusherIsProc, MoveOwn
<1>3. CASE Stop \/ UNCHANGED vars
  <2>1. Still /\ at' = at  BY <1>3 DEF Stop, vars, buffer, local, flush, redis
  <2>2. \A e \in Events : Places(e)' = Places(e) /\ (JustWritten(e) => JustWritten(e)')
                          /\ Holding(e)' = Holding(e)
    BY <2>1 DEF Places, JustWritten, Holding
  <2> QED
    BY <2>1, <2>2
    DEF OwnInv, FewHolders, OneOwner, Unseen, Written, DuplicateOnlyInDoubt
<1> QED  BY <1>1, <1>2, <1>3

-----------------------------------------------------------------------------

LEMMA SpecOwnInv == Spec => []OwnInv
<1>1. ASSUME IInv, IInv', OwnInv, [Next]_vars PROVE OwnInv'
  <2>1. CASE Receive  BY <1>1, <2>1, ReceiveOwn
  <2>2. ASSUME NEW w \in Workers, Work(w) PROVE OwnInv'
    <3>1. w \in Procs  BY FlusherIsProc
    <3> QED  BY <1>1, <2>2, <3>1, TakeOwn, XAddFilteredOwn, WriteOwn, HandleBackpressureOwn DEF Work
  <2>3. CASE Flush
    BY <1>1, <2>3, FlusherIsProc, QuietOwn, DrainOwn, WriteOwn, NextDrainedOwn, RequeueOwn DEF Flush
  <2>4. CASE Stop \/ UNCHANGED vars \/ \E w \in Workers : WorkerStop(w)  BY <1>1, <2>4, QuietOwn
  <2>5. CASE Exit  BY <1>1, <2>5, ExitOwn
  <2> QED  BY <1>1, <2>1, <2>2, <2>3, <2>4, <2>5 DEF Next
<1> QED  BY <1>1, InitOwnInv, SpecIInv, PTL DEF Spec

(* An event is never in two places of the process at once, whatever workers,  *)
(* receive loop and flusher do to the channel and the BackpressureBuffer:     *)
(* no two goroutines write the same event.                                    *)
THEOREM EventHasOneOwner == Spec => []OneOwner
<1>1. OwnInv => OneOwner  BY DEF OwnInv
<1> QED  BY <1>1, SpecOwnInv, PTL

(* The retries of the flusher do not duplicate by themselves: a second copy   *)
(* in gps:realtime needs an XADD that failed after it had been applied.       *)
THEOREM NoNeedlessCopies == Spec => []DuplicateOnlyInDoubt
<1>1. OwnInv => DuplicateOnlyInDoubt  BY DEF OwnInv
<1> QED  BY <1>1, SpecOwnInv, PTL
=============================================================================
