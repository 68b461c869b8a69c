---------------------------- MODULE BatchWriterProofs ----------------------------
(***************************************************************************)
(* Proofs about the batch-writer: its cold path, for every set of entries,   *)
(* batch size, channel capacity, retry limit and number of crashes, and, at *)
(* the end, the registry of the streams it reads.                           *)
(***************************************************************************)
EXTENDS BatchWriterProps, StreamRegistry, FiniteSetTheorems, TLAPS

USE DEF redisVars, batchVars, ingestVars, retryVars, procVars, tableVars

-----------------------------------------------------------------------------
(* Sequences used as queues *)

(* The empty queue; elements of a queue after Append, Tail and SubSeq. *)
LEMMA EmptyQueue ==
  ASSUME NEW S PROVE <<>> \in Seq(S) /\ Len(<<>>) = 0
  OBVIOUS

LEMMA TailSeq == ASSUME NEW S, NEW q \in Seq(S), q # <<>>
                 PROVE  /\ Head(q) \in S /\ Tail(q) \in Seq(S)
                        /\ Len(Tail(q)) = Len(q) - 1 /\ Len(q) > 0
  OBVIOUS

(* What Taken and Rest return for a queue of elements of S. *)
LEMMA TakenRestType ==
  ASSUME NEW S, NEW q \in Seq(S), NEW n \in Nat
  PROVE  Taken(q, n) \subseteq S /\ Rest(q, n) \in Seq(S)
<1>1. Least(n, Len(q)) \in 0..Len(q)
  BY DEF Least
<1>2. Taken(q, n) \subseteq S
  BY <1>1 DEF Taken
<1>3. Rest(q, n) \in Seq(S)
  BY <1>1 DEF Rest
<1> QED BY <1>2, <1>3

(* Reading splits a queue: what is not taken is in the rest. *)
LEMMA TakenRestCover ==
  ASSUME NEW S, NEW q \in Seq(S), NEW n \in Nat, NEW i \in 1..Len(q)
  PROVE  \/ q[i] \in Taken(q, n)
         \/ \E j \in 1..Len(Rest(q, n)) : Rest(q, n)[j] = q[i]
<1> DEFINE k == Least(n, Len(q))
<1>0. Taken(q, n) = {q[j] : j \in 1..k} /\ Rest(q, n) = SubSeq(q, k + 1, Len(q))
  BY DEF Taken, Rest
<1>1. k \in 0..Len(q)
  BY DEF Least
<1> HIDE DEF k
<1>2. CASE i <= k
  BY <1>0, <1>1, <1>2
<1>3. CASE i > k
  <2>1. Len(Rest(q, n)) = Len(q) - k
    BY <1>0, <1>1
  <2>2. i - k \in 1..Len(Rest(q, n))
    BY <2>1, <1>1, <1>3
  <2>3. Rest(q, n)[i - k] = q[(k + 1) + (i - k) - 1]
    BY <1>0, <1>1, <2>2, <2>1
  <2>4. (k + 1) + (i - k) - 1 = i
    BY <1>1
  <2> QED BY <2>2, <2>3, <2>4
<1> QED BY <1>1, <1>2, <1>3

-----------------------------------------------------------------------------
(* Types *)

LEMMA ConstantTypes ==
  /\ BatchSize \in Nat /\ DLQBatch \in Nat /\ ChanCap \in Nat
  /\ MaxRetries \in Nat /\ MaxDowns \in Nat
  BY ConstantsOK

(* Messages keep their type on the way through the DLQ. *)
LEMMA EntryTypes ==
  /\ \A S \in SUBSET Events : Fresh(S) \subseteq Entry
  /\ \A B \in SUBSET Entry : EventsOf(B) \subseteq Events
  /\ \A e \in Events, n \in Nat : [ev |-> e, att |-> n] \in Entry
  /\ \A m \in Entry : m.ev \in Events /\ m.att \in Nat
  BY DEF Fresh, Entry, EventsOf

(* AddMessages and the history of what was given up. *)
LEMMA GoneType ==
  ASSUME TypeOK, NEW S \in SUBSET Events, NEW c \in Causes, Gone(S, c)
  PROVE  lost' \subseteq Events \X Causes
  BY DEF TypeOK, Gone

LEMMA AddMessagesType ==
  ASSUME TypeOK, NEW B \in SUBSET Entry, AddMessages(B)
  PROVE  /\ chan' \in Seq(SUBSET Entry) /\ Len(chan') <= ChanCap
         /\ lost' \subseteq Events \X Causes
<1>1. EventsOf(B) \subseteq Events /\ "dropped" \in Causes
  BY EntryTypes DEF Causes
<1>2. CASE Len(chan) < ChanCap
  <2>1. chan' = Append(chan, B) /\ lost' = lost
    BY <1>2 DEF AddMessages
  <2>2. chan \in Seq(SUBSET Entry)
    BY DEF TypeOK
  <2>3. chan' \in Seq(SUBSET Entry) /\ Len(chan') = Len(chan) + 1
    BY <2>1, <2>2
  <2> QED BY <1>2, <2>1, <2>2, <2>3, ConstantTypes DEF TypeOK
<1>3. CASE ~(Len(chan) < ChanCap)
  <2>1. chan' = chan /\ Gone(EventsOf(B), "dropped")
    BY <1>3 DEF AddMessages
  <2> QED BY <2>1, <1>1, GoneType DEF TypeOK
<1> QED BY <1>2, <1>3

LEMMA InsertBatchType ==
  ASSUME TypeOK, NEW S \in SUBSET Events, NEW kept, NEW r, InsertBatch(S, kept, r)
  PROVE  /\ tries' \in [Events -> Nat] /\ rows' \in [Events -> Nat]
         /\ ambiguous' \subseteq Events
  BY DEF InsertBatch, TypeOK

LEMMA InMemoryType == TypeOK => InMemory \subseteq Events
<1> SUFFICES ASSUME TypeOK PROVE InMemory \subseteq Events
  OBVIOUS
<1>1. ChanEntries \subseteq Entry
  BY DEF TypeOK, ChanEntries
<1>2. ChanEntries \cup ihand \cup rhand \cup rcur \in SUBSET Entry
  BY <1>1 DEF TypeOK
<1> QED BY <1>2, EntryTypes DEF InMemory, TypeOK

LEMMA GoDownType ==
  ASSUME TypeOK, GoDown, downs' \in 0..MaxDowns
  PROVE  TypeOK'
<1>1. lost' \subseteq Events \X Causes
  BY InMemoryType, GoneType DEF GoDown, Causes
<1>2. chan' \in Seq(SUBSET Entry) /\ Len(chan') <= ChanCap
  BY EmptyQueue, ConstantTypes DEF GoDown
<1>3. /\ phase' = "down" /\ bpc' = "stopped" /\ hand' = {} /\ bad' = {}
      /\ ipc' = "stopped" /\ ihand' = {} /\ rpc' = "stopped"
      /\ rhand' = {} /\ rcur' = {} /\ rok' = FALSE
      /\ UNCHANGED <<redisVars, tableVars, malformed>>
  BY DEF GoDown
<1> QED BY <1>1, <1>2, <1>3 DEF TypeOK

LEMMA TypeInit == Init => TypeOK
<1> SUFFICES ASSUME Init PROVE TypeOK
  OBVIOUS
<1>1. queued \in Seq(Events) /\ dlq \in Seq(Entry) /\ chan \in Seq(SUBSET Entry)
  BY EmptyQueue DEF Init
<1>2. Len(chan) <= ChanCap
  BY EmptyQueue, ConstantTypes DEF Init
<1>3. rows \in [Events -> Nat] /\ tries \in [Events -> Nat] /\ downs \in 0..MaxDowns
  BY ConstantTypes DEF Init
<1>4. /\ written = {} /\ pending = {} /\ dlqKey = FALSE /\ dlqPEL = {} /\ phase = "up"
      /\ bpc = "top" /\ hand = {} /\ bad = {} /\ malformed = {} /\ ipc = "run" /\ ihand = {}
      /\ rpc = "tick" /\ rhand = {} /\ rcur = {} /\ rok = FALSE
      /\ ambiguous = {} /\ lost = {}
  BY DEF Init
<1> QED BY <1>1, <1>2, <1>3, <1>4 DEF TypeOK

LEMMA TypeStep == TypeOK /\ [Next]_vars => TypeOK'
<1> SUFFICES ASSUME TypeOK, [Next]_vars PROVE TypeOK'
  OBVIOUS
<1> USE ConstantTypes
<1>1. ASSUME NEW e \in Events, WriteToBatchStream(e) PROVE TypeOK'
  <2>1. CASE queued' = Append(queued, e) /\ lost' = lost
    BY <1>1, <2>1 DEF TypeOK, WriteToBatchStream
  <2>2. CASE /\ Len(queued) >= StreamMaxLen
             /\ queued' = Append(Tail(queued), e)
             /\ Gone({Head(queued)}, "trimmed")
    <3>1. queued # <<>>
      BY <2>2, ConstantsOK DEF TypeOK
    <3>2. Head(queued) \in Events /\ Tail(queued) \in Seq(Events)
      BY <3>1, TailSeq DEF TypeOK
    <3>3. lost' \subseteq Events \X Causes
      BY <2>2, <3>2, GoneType DEF Causes
    <3>4. queued' \in Seq(Events)
      BY <2>2, <3>2
    <3> QED BY <1>1, <3>3, <3>4 DEF TypeOK, WriteToBatchStream
  <2> QED BY <1>1, <2>1, <2>2 DEF WriteToBatchStream
<1>2. CASE BatchTop
  BY <1>2 DEF BatchTop, TypeOK
<1>3. CASE ReadBatch
  <2>1. Taken(queued, BatchSize) \subseteq Events /\ Rest(queued, BatchSize) \in Seq(Events)
    BY TakenRestType DEF TypeOK
  <2>2. Gone(Taken(queued, BatchSize), "dropped") => lost' \subseteq Events \X Causes
    BY <2>1, GoneType DEF Causes
  <2> QED BY <1>3, <2>1, <2>2 DEF ReadBatch, ProcessBatch, TypeOK
<1>4. CASE ReadNothing
  BY <1>4 DEF ReadNothing, TypeOK
<1>5. CASE WriteToClickhouse
  <2>1. hand \in SUBSET Events /\ Fresh(hand) \in SUBSET Entry
    BY EntryTypes DEF TypeOK
  <2>2. PICK kept \in SUBSET hand :
           \/ InsertSucceeds(hand, kept) /\ UNCHANGED chan
           \/ InsertFails(hand, kept) /\ AddMessages(Fresh(hand))
    BY <1>5 DEF WriteToClickhouse
  <2>3. /\ tries' \in [Events -> Nat] /\ rows' \in [Events -> Nat]
        /\ ambiguous' \subseteq Events
    BY <2>1, <2>2, InsertBatchType DEF InsertSucceeds, InsertFails
  <2>4. /\ chan' \in Seq(SUBSET Entry) /\ Len(chan') <= ChanCap
        /\ lost' \subseteq Events \X Causes
    <3>1. hand \ kept \in SUBSET Events /\ "append" \in Causes
      BY <2>1 DEF Causes
    <3>2. CASE InsertSucceeds(hand, kept) /\ UNCHANGED chan
      BY <3>1, <3>2, GoneType DEF InsertSucceeds, TypeOK
    <3>3. CASE AddMessages(Fresh(hand))
      BY <2>1, <3>3, AddMessagesType
    <3> QED BY <2>2, <3>2, <3>3
  <2> QED BY <1>5, <2>1, <2>3, <2>4 DEF WriteToClickhouse, AfterRows, TypeOK
<1>6. CASE AckRedisMessages
  BY <1>6 DEF AckRedisMessages, AfterRows, TypeOK
<1>7. CASE RejectMalformed
  <2>1. Fresh(bad) \in SUBSET Entry
    BY EntryTypes DEF TypeOK
  <2>2. /\ chan' \in Seq(SUBSET Entry) /\ Len(chan') <= ChanCap
        /\ lost' \subseteq Events \X Causes
    BY <1>7, <2>1, AddMessagesType DEF RejectMalformed
  <2> QED BY <1>7, <2>2 DEF RejectMalformed, TypeOK
<1>8. CASE IngestTake
  <2>1. /\ Head(chan) \in SUBSET Entry /\ Tail(chan) \in Seq(SUBSET Entry)
        /\ Len(Tail(chan)) <= ChanCap
    BY <1>8, TailSeq DEF IngestTake, TypeOK
  <2> QED BY <1>8, <2>1 DEF IngestTake, TypeOK
<1>9. ASSUME NEW m \in ihand, IngestWrite(m) PROVE TypeOK'
  <2>0. m \in Entry /\ m.ev \in Events
    BY EntryTypes DEF TypeOK
  <2>1. CASE Len(dlq) >= DLQMaxLen /\ dlq' = Append(Tail(dlq), m) /\ dlqKey' = TRUE
             /\ Gone({Head(dlq).ev}, "dropped")
    <3>1. dlq # <<>>
      BY <2>1, ConstantsOK DEF TypeOK
    <3>2. Head(dlq).ev \in Events /\ Tail(dlq) \in Seq(Entry)
      BY <3>1, TailSeq, EntryTypes DEF TypeOK
    <3>3. lost' \subseteq Events \X Causes
      BY <2>1, <3>2, GoneType DEF Causes
    <3> QED BY <1>9, <2>0, <2>1, <3>2, <3>3 DEF IngestWrite, TypeOK
  <2>2. CASE UNCHANGED <<dlq, dlqKey>> /\ Gone({m.ev}, "dropped")
    <3>1. lost' \subseteq Events \X Causes
      BY <2>0, <2>2, GoneType DEF Causes
    <3> QED BY <1>9, <2>2, <3>1 DEF IngestWrite, TypeOK
  <2>3. CASE dlq' = Append(dlq, m) /\ dlqKey' = TRUE /\ lost' = lost
    BY <1>9, <2>0, <2>3 DEF IngestWrite, TypeOK
  <2> QED BY <1>9, <2>1, <2>2, <2>3 DEF IngestWrite
<1>10. CASE IngestStop
  BY <1>10 DEF IngestStop, TypeOK
<1>11. CASE RetryTick
  BY <1>11 DEF RetryTick, TypeOK
<1>12. CASE RetryRead
  <2>1. Taken(dlq, DLQBatch) \subseteq Entry /\ Rest(dlq, DLQBatch) \in Seq(Entry)
    BY TakenRestType DEF TypeOK
  <2>2. Gone(EventsOf(Taken(dlq, DLQBatch)), "dropped") => lost' \subseteq Events \X Causes
    BY <2>1, EntryTypes, GoneType DEF Causes
  <2> QED BY <1>12, <2>1, <2>2 DEF RetryRead, TypeOK
<1>13. CASE RetryReadError
  BY <1>13 DEF RetryReadError, TypeOK
<1>14. ASSUME NEW m \in rhand, RetryInsert(m) PROVE TypeOK'
  <2>1. {m.ev} \in SUBSET Events /\ m \in Entry
    BY EntryTypes DEF TypeOK
  <2>2. PICK kept \in SUBSET {m.ev} :
           \/ InsertSucceeds({m.ev}, kept) /\ rok' = TRUE
           \/ InsertFails({m.ev}, kept) /\ rok' = FALSE /\ lost' = lost
    BY <1>14 DEF RetryInsert
  <2>3. /\ tries' \in [Events -> Nat] /\ rows' \in [Events -> Nat]
        /\ ambiguous' \subseteq Events /\ rok' \in BOOLEAN
    BY <2>1, <2>2, InsertBatchType DEF InsertSucceeds, InsertFails
  <2>4. lost' \subseteq Events \X Causes
    <3>1. {m.ev} \ kept \in SUBSET Events /\ "append" \in Causes
      BY <2>1 DEF Causes
    <3> QED BY <2>2, <3>1, GoneType DEF InsertSucceeds, TypeOK
  <2> QED BY <1>14, <2>1, <2>3, <2>4 DEF RetryInsert, TypeOK
<1>23. ASSUME NEW m \in rhand, RetryDrop(m) PROVE TypeOK'
  <2>1. {m.ev} \in SUBSET Events
    BY EntryTypes DEF TypeOK
  <2>2. lost' \subseteq Events \X Causes
    BY <1>23, <2>1, GoneType DEF RetryDrop, Causes
  <2> QED BY <1>23, <2>2 DEF RetryDrop, TypeOK
<1>15. CASE RetryAck
  <2>1. PICK m \in rcur : Outcome(m)
    BY <1>15 DEF RetryAck
  <2>2. m \in Entry /\ m.ev \in Events /\ {[ev |-> m.ev, att |-> m.att + 1]} \in SUBSET Entry
    BY EntryTypes DEF TypeOK
  <2>3. /\ chan' \in Seq(SUBSET Entry) /\ Len(chan') <= ChanCap
        /\ lost' \subseteq Events \X Causes
    <3>1. CASE rok
      BY <2>1, <3>1 DEF Outcome, TypeOK
    <3>2. CASE ~rok /\ GiveUp(m)
      <4>1. chan' = chan /\ Gone({m.ev}, "dropped")
        BY <2>1, <3>2 DEF Outcome
      <4> QED BY <4>1, <2>2, GoneType DEF TypeOK, Causes
    <3>3. CASE ~rok /\ ~GiveUp(m)
      BY <2>1, <2>2, <3>3, AddMessagesType DEF Outcome
    <3> QED BY <3>1, <3>2, <3>3
  <2> QED BY <1>15, <2>3 DEF RetryAck, TypeOK
<1>16. CASE RetryStop
  BY <1>16 DEF RetryStop, TypeOK
<1>17. CASE SigTerm
  BY <1>17 DEF SigTerm, TypeOK
<1>18. CASE Exit
  BY <1>18, GoDownType DEF Exit, Causes, TypeOK
<1>19. CASE Crash
  <2>1. downs' \in 0..MaxDowns
    BY <1>19 DEF Crash, TypeOK
  <2> QED BY <1>19, <2>1, GoDownType DEF Crash, Causes
<1>20. CASE Kill
  BY <1>20, GoDownType DEF Kill, Causes, TypeOK
<1>21. CASE Restart
  BY <1>21 DEF Restart, TypeOK
<1>22. CASE UNCHANGED vars
  BY <1>22 DEF vars, TypeOK
<1> QED
  BY <1>1, <1>2, <1>3, <1>4, <1>5, <1>6, <1>7, <1>8, <1>9, <1>10, <1>11, <1>12,
     <1>13, <1>14, <1>15, <1>16, <1>17, <1>18, <1>19, <1>20, <1>21, <1>22, <1>23
     DEF Next, BatchNext, IngestNext, RetryNext, ProcessNext

(* Every variable keeps its type, and the channel its capacity. *)
THEOREM TypeCorrect == Spec => []TypeOK
  BY TypeInit, TypeStep, PTL DEF Spec

-----------------------------------------------------------------------------
(* Acknowledged means stored *)

LEMMA AddMessagesGrows ==
  ASSUME NEW B, AddMessages(B) PROVE lost \subseteq lost'
  BY DEF AddMessages, Gone

LEMMA InsertBatchGrows ==
  ASSUME TypeOK, NEW S, NEW kept, NEW r, InsertBatch(S, kept, r)
  PROVE  /\ \A e \in Events : rows'[e] >= rows[e]
         /\ r # "refused" => \A e \in kept \cap Events : rows'[e] > 0
  BY DEF TypeOK, InsertBatch

(* An INSERT that succeeds leaves a row of each entry, or a note that Append *)
(* refused it.                                                               *)
LEMMA InsertSucceedsSends ==
  ASSUME TypeOK, NEW S \in SUBSET Events, NEW kept, InsertSucceeds(S, kept)
  PROVE  \A e \in S : rows'[e] > 0 \/ <<e, "append">> \in lost'
<1> SUFFICES ASSUME NEW e \in S PROVE rows'[e] > 0 \/ <<e, "append">> \in lost'
  OBVIOUS
<1>1. CASE e \in kept
  BY <1>1, InsertBatchGrows DEF InsertSucceeds
<1>2. CASE e \notin kept
  BY <1>2 DEF InsertSucceeds, Gone
<1> QED BY <1>1, <1>2

(* A step that leaves the batch stream alone, deletes no row and takes back *)
(* no given-up entry keeps the invariant; so does one that only adds to the *)
(* PEL.                                                                     *)
LEMMA AckedFrame ==
  ASSUME TypeOK, AckedImpliesInserted,
         written' = written, queued' = queued, pending \subseteq pending',
         lost \subseteq lost', \A e \in Events : rows'[e] >= rows[e],
         TypeOK'
  PROVE  AckedImpliesInserted'
<1> SUFFICES ASSUME NEW e \in Acked' PROVE rows'[e] > 0 \/ <<e, "append">> \in lost'
  BY DEF AckedImpliesInserted
<1>1. e \in Acked /\ e \in Events
  BY DEF Acked, Queued, TypeOK
<1>2. (rows[e] > 0 \/ <<e, "append">> \in lost) /\ rows[e] \in Nat /\ rows'[e] \in Nat
  BY <1>1 DEF AckedImpliesInserted, TypeOK
<1> QED BY <1>1, <1>2

LEMMA AckInit == Init => AckInv
  BY DEF Init, AckInv, AckedImpliesInserted, Acked

LEMMA AckStep == TypeOK /\ TypeOK' /\ AckInv /\ [Next]_vars => AckInv'
<1> SUFFICES ASSUME TypeOK, TypeOK', AckInv, [Next]_vars PROVE AckInv'
  OBVIOUS
<1>f. ASSUME written' = written, queued' = queued, pending' = pending,
             lost \subseteq lost', UNCHANGED <<bpc, hand>>,
             \A e \in Events : rows'[e] >= rows[e]
      PROVE  AckInv'
  <2>1. AckedImpliesInserted'
    BY <1>f, AckedFrame DEF AckInv
  <2>2. ASSUME bpc' = "ack", NEW e \in hand'
        PROVE  rows'[e] > 0 \/ <<e, "append">> \in lost'
    <3>1. e \in Events /\ (rows[e] > 0 \/ <<e, "append">> \in lost)
      BY <1>f, <2>2 DEF AckInv, TypeOK
    <3> QED BY <1>f, <3>1 DEF TypeOK
  <2> QED BY <1>f, <2>1, <2>2 DEF AckInv
<1>r. rows' = rows => \A e \in Events : rows'[e] >= rows[e]
  BY DEF TypeOK
<1>1. ASSUME NEW e \in Events, WriteToBatchStream(e) PROVE AckInv'
  <2>1. \A x \in Acked' : x \in Acked
    <3> SUFFICES ASSUME NEW x \in Acked', x \in Queued \/ x = e PROVE FALSE
      BY <1>1 DEF Acked, WriteToBatchStream, Gone
    <3>1. e \in Queued'
      <4>1. CASE queued' = Append(queued, e)
        <5>1. queued'[Len(queued) + 1] = e /\ Len(queued') = Len(queued) + 1 /\ Len(queued) \in Nat
          BY <4>1 DEF TypeOK
        <5> QED BY <5>1 DEF Queued
      <4>2. CASE queued' = Append(Tail(queued), e) /\ Len(queued) >= StreamMaxLen
        <5>1. queued # <<>>
          BY <4>2, ConstantsOK DEF TypeOK
        <5>2. Tail(queued) \in Seq(Events) /\ Len(Tail(queued)) \in Nat
          BY <5>1, TailSeq DEF TypeOK
        <5>3. queued'[Len(Tail(queued)) + 1] = e /\ Len(queued') = Len(Tail(queued)) + 1
          BY <4>2, <5>2
        <5> QED BY <5>2, <5>3 DEF Queued
      <4> QED BY <1>1, <4>1, <4>2 DEF WriteToBatchStream
    <3>2. CASE x = e
      BY <3>1, <3>2 DEF Acked
    <3>3. CASE x \in Queued
      <4>1. PICK i \in 1..Len(queued) : queued[i] = x
        BY <3>3 DEF Queued
      <4>2. CASE queued' = Append(queued, e)
        <5>1. queued'[i] = x /\ i \in 1..Len(queued')
          BY <4>1, <4>2 DEF TypeOK
        <5> QED BY <5>1 DEF Acked, Queued
      <4>3. CASE queued' = Append(Tail(queued), e) /\ Len(queued) >= StreamMaxLen
                   /\ Gone({Head(queued)}, "trimmed")
        <5>1. queued # <<>>
          BY <4>1 DEF TypeOK
        <5>2. Tail(queued) \in Seq(Events) /\ Len(Tail(queued)) = Len(queued) - 1
          BY <5>1, TailSeq DEF TypeOK
        <5>3. CASE i = 1
          <6>1. x = Head(queued)
            BY <4>1, <5>3
          <6> QED BY <6>1, <4>3 DEF Acked, Gone
        <5>4. CASE i # 1
          <6>1. i - 1 \in 1..Len(Tail(queued)) /\ Tail(queued)[i - 1] = x
            BY <4>1, <5>1, <5>2, <5>4 DEF TypeOK
          <6>2. queued'[i - 1] = x /\ i - 1 \in 1..Len(queued')
            BY <4>3, <5>2, <6>1
          <6> QED BY <6>2 DEF Acked, Queued
        <5> QED BY <5>3, <5>4
      <4> QED BY <1>1, <4>2, <4>3 DEF WriteToBatchStream
    <3> QED BY <3>2, <3>3
  <2>2. UNCHANGED <<rows, bpc, hand>> /\ lost \subseteq lost'
    BY <1>1 DEF WriteToBatchStream, Gone
  <2> QED BY <2>1, <2>2 DEF AckInv, AckedImpliesInserted
<1>2. CASE BatchTop
  <2>1. bpc' # "ack" /\ hand' = hand
    BY <1>2 DEF BatchTop
  <2>2. AckedImpliesInserted'
    BY <1>2, <1>r, AckedFrame DEF BatchTop, AckInv
  <2> QED BY <2>1, <2>2 DEF AckInv
<1>3. CASE ReadBatch
  <2> DEFINE got == Taken(queued, BatchSize)
  <2>1. \A x \in Acked' : x \in Acked
    <3> SUFFICES ASSUME NEW x \in Acked', x \in Queued PROVE FALSE
      BY <1>3 DEF Acked, ReadBatch, Gone
    <3>1. PICK i \in 1..Len(queued) : queued[i] = x
      BY DEF Queued
    <3>0. queued \in Seq(Events) /\ BatchSize \in Nat
      BY ConstantTypes DEF TypeOK
    <3>2. \/ x \in got
          \/ \E j \in 1..Len(Rest(queued, BatchSize)) : Rest(queued, BatchSize)[j] = x
      <4> HIDE DEF got
      <4>1. \/ queued[i] \in Taken(queued, BatchSize)
            \/ \E j \in 1..Len(Rest(queued, BatchSize)) :
                  Rest(queued, BatchSize)[j] = queued[i]
        BY <3>0, TakenRestCover
      <4> QED BY <3>1, <4>1 DEF got
    <3>3. queued' = Rest(queued, BatchSize) /\ pending' = pending \cup got
      BY <1>3 DEF ReadBatch
    <3> HIDE DEF got
    <3>4. x \notin pending' /\ x \notin Queued'  BY DEF Acked
    <3>5. x \notin got  BY <3>3, <3>4
    <3> QED BY <3>2, <3>3, <3>4, <3>5 DEF Queued
  <2>2. bpc' # "ack" /\ rows' = rows /\ lost \subseteq lost'
    BY <1>3 DEF ReadBatch, ProcessBatch, Gone
  <2> QED BY <2>1, <2>2 DEF AckInv, AckedImpliesInserted
<1>4. CASE ReadNothing
  <2>1. bpc' # "ack" /\ hand' = hand
    BY <1>4 DEF ReadNothing
  <2>2. AckedImpliesInserted'
    BY <1>4, <1>r, AckedFrame DEF ReadNothing, AckInv
  <2> QED BY <2>1, <2>2 DEF AckInv
<1>5. CASE WriteToClickhouse
  <2>1. PICK kept \in SUBSET hand :
           \/ InsertSucceeds(hand, kept) /\ bpc' = "ack" /\ hand' = hand
           \/ /\ InsertFails(hand, kept) /\ AddMessages(Fresh(hand))
              /\ hand' = {} /\ bpc' = AfterRows
    BY <1>5 DEF WriteToClickhouse
  <2>2. \A e \in Events : rows'[e] >= rows[e]
    BY <2>1, InsertBatchGrows DEF InsertSucceeds, InsertFails
  <2>3. lost \subseteq lost'
    BY <2>1, AddMessagesGrows DEF InsertSucceeds, Gone
  <2>4. AckedImpliesInserted'
    BY <1>5, <2>2, <2>3, AckedFrame DEF WriteToClickhouse, redisVars, AckInv
  <2>5. bpc' = "ack" => \A e \in hand' : rows'[e] > 0 \/ <<e, "append">> \in lost'
    BY <2>1, InsertSucceedsSends DEF TypeOK, AfterRows
  <2> QED BY <2>4, <2>5 DEF AckInv
<1>6. CASE AckRedisMessages
  <2>1. \A x \in Acked' : x \in Acked \/ x \in hand
    BY <1>6 DEF Acked, Queued, AckRedisMessages
  <2>2. \A x \in hand : rows[x] > 0 \/ <<x, "append">> \in lost
    BY <1>6 DEF AckRedisMessages, AckInv
  <2>3. rows' = rows /\ hand' = {} /\ lost' = lost
    BY <1>6 DEF AckRedisMessages
  <2> QED BY <2>1, <2>2, <2>3 DEF AckInv, AckedImpliesInserted
<1>7. CASE RejectMalformed
  <2>1. lost \subseteq lost' /\ bpc' # "ack" /\ hand' = hand
    BY <1>7, AddMessagesGrows DEF RejectMalformed
  <2>2. AckedImpliesInserted'
    BY <1>7, <1>r, <2>1, AckedFrame DEF RejectMalformed, AckInv
  <2> QED BY <2>1, <2>2 DEF AckInv
<1>8. CASE IngestTake
  BY <1>8, <1>r, <1>f DEF IngestTake
<1>9. ASSUME NEW m \in ihand, IngestWrite(m) PROVE AckInv'
  BY <1>9, <1>r, <1>f DEF IngestWrite, Gone
<1>10. CASE IngestStop
  BY <1>10, <1>r, <1>f DEF IngestStop
<1>11. CASE RetryTick
  BY <1>11, <1>r, <1>f DEF RetryTick
<1>12. CASE RetryRead
  BY <1>12, <1>r, <1>f DEF RetryRead, Gone
<1>13. CASE RetryReadError
  BY <1>13, <1>r, <1>f DEF RetryReadError
<1>14. ASSUME NEW m \in rhand, RetryInsert(m) PROVE AckInv'
  <2>1. PICK kept : \/ InsertSucceeds({m.ev}, kept)
                    \/ InsertFails({m.ev}, kept) /\ lost' = lost
    BY <1>14 DEF RetryInsert
  <2>2. \A e \in Events : rows'[e] >= rows[e]
    BY <2>1, InsertBatchGrows DEF InsertSucceeds, InsertFails
  <2>3. lost \subseteq lost'
    BY <2>1 DEF InsertSucceeds, Gone
  <2> QED BY <1>14, <2>2, <2>3, <1>f DEF RetryInsert
<1>21. ASSUME NEW m \in rhand, RetryDrop(m) PROVE AckInv'
  BY <1>21, <1>r, <1>f DEF RetryDrop, Gone
<1>15. CASE RetryAck
  <2>1. lost \subseteq lost'
    BY <1>15, AddMessagesGrows DEF RetryAck, Outcome, Gone
  <2> QED BY <1>15, <2>1, <1>r, <1>f DEF RetryAck
<1>16. CASE RetryStop
  BY <1>16, <1>r, <1>f DEF RetryStop
<1>17. CASE SigTerm
  BY <1>17, <1>r, <1>f DEF SigTerm
<1>18. CASE GoDown
  <2>1. AckedImpliesInserted'
    BY <1>18, <1>r, AckedFrame DEF GoDown, Gone, AckInv
  <2> QED BY <1>18, <2>1 DEF GoDown, AckInv
<1>19. CASE Restart
  <2>1. bpc' # "ack" /\ hand' = hand
    BY <1>19 DEF Restart
  <2>2. AckedImpliesInserted'
    BY <1>19, <1>r, AckedFrame DEF Restart, AckInv
  <2> QED BY <2>1, <2>2 DEF AckInv
<1>20. CASE UNCHANGED vars
  BY <1>20, <1>r, <1>f DEF vars
<1> QED
  BY <1>1, <1>2, <1>3, <1>4, <1>5, <1>6, <1>7, <1>8, <1>9, <1>10, <1>11, <1>12,
     <1>13, <1>14, <1>15, <1>16, <1>17, <1>18, <1>19, <1>20, <1>21
     DEF Next, BatchNext, IngestNext, RetryNext, ProcessNext, Exit, Crash, Kill

(* Whatever fails or crashes, an entry that left the PEL of the batch stream *)
(* has its row in ClickHouse, or was in a batch that ClickHouse took without *)
(* the row that Append refused.                                              *)
THEOREM AckedIsInserted == Spec => []AckedImpliesInserted
<1>1. Init => TypeOK /\ AckInv
  BY TypeInit, AckInit
<1>2. TypeOK /\ AckInv /\ [Next]_vars => TypeOK' /\ AckInv'
  BY TypeStep, AckStep
<1>3. TypeOK /\ AckInv => AckedImpliesInserted
  BY DEF AckInv
<1> QED BY <1>1, <1>2, <1>3, PTL DEF Spec

-----------------------------------------------------------------------------
(* The elements of a queue *)

ElementsOf(q) == {q[i] : i \in 1..Len(q)}

\* No element is in a queue twice; no two sets of a queue have a common element.
Injective(q) == \A i, j \in 1..Len(q) : q[i] = q[j] => i = j
Spread(q) == \A i, j \in 1..Len(q) : q[i] \cap q[j] # {} => i = j

LEMMA ElementsOfEmpty == ElementsOf(<<>>) = {} /\ Injective(<<>>) /\ Spread(<<>>)
BY DEF ElementsOf, Injective, Spread

LEMMA AppendIndexed ==
  ASSUME NEW S, NEW q \in Seq(S), NEW x \in S
  PROVE  /\ Append(q, x) \in Seq(S) /\ Len(q) \in Nat /\ Len(Append(q, x)) = Len(q) + 1
         /\ \A i \in 1..Len(q) : Append(q, x)[i] = q[i]
         /\ Append(q, x)[Len(q) + 1] = x
         /\ 1..(Len(q) + 1) = 1..Len(q) \cup {Len(q) + 1}
  OBVIOUS

LEMMA AppendElements ==
  ASSUME NEW S, NEW q \in Seq(S), NEW x \in S
  PROVE  /\ ElementsOf(Append(q, x)) = ElementsOf(q) \cup {x}
         /\ Injective(q) /\ x \notin ElementsOf(q) => Injective(Append(q, x))
<1>1. ElementsOf(Append(q, x)) = ElementsOf(q) \cup {x}
  BY AppendIndexed DEF ElementsOf
<1>2. Injective(q) /\ x \notin ElementsOf(q) => Injective(Append(q, x))
  BY AppendIndexed DEF ElementsOf, Injective
<1> QED BY <1>1, <1>2

(* The first element of a queue and the others. *)
LEMMA TailIndexed ==
  ASSUME NEW S, NEW q \in Seq(S), q # <<>>
  PROVE  /\ Tail(q) \in Seq(S) /\ Len(q) \in Nat /\ Len(q) > 0
         /\ Len(Tail(q)) = Len(q) - 1 /\ Head(q) = q[1] /\ Head(q) \in S
         /\ \A i \in 1..Len(Tail(q)) : Tail(q)[i] = q[i + 1] /\ i + 1 \in 1..Len(q)
         /\ \A i \in 1..Len(q) : i # 1 => i - 1 \in 1..Len(Tail(q)) /\ Tail(q)[i - 1] = q[i]
  OBVIOUS

LEMMA TailElements ==
  ASSUME NEW S, NEW q \in Seq(S), q # <<>>
  PROVE  /\ Head(q) \in ElementsOf(q)
         /\ ElementsOf(q) = {Head(q)} \cup ElementsOf(Tail(q))
         /\ Injective(q) => Injective(Tail(q)) /\ ElementsOf(Tail(q)) = ElementsOf(q) \ {Head(q)}
<1>1. ASSUME NEW i \in 1..Len(Tail(q))
      PROVE  i + 1 \in 1..Len(q) /\ Tail(q)[i] = q[i + 1] /\ i + 1 # 1
  BY TailIndexed
<1>2. 1 \in 1..Len(q) /\ q[1] = Head(q)
  BY TailIndexed
<1>3. ElementsOf(Tail(q)) \subseteq ElementsOf(q)
  BY <1>1 DEF ElementsOf
<1>4. ASSUME NEW x \in ElementsOf(q) PROVE x = Head(q) \/ x \in ElementsOf(Tail(q))
  <2>1. PICK i \in 1..Len(q) : x = q[i]
    BY DEF ElementsOf
  <2>2. CASE i = 1
    BY <1>2, <2>1, <2>2
  <2>3. CASE i # 1
    BY <2>1, <2>3, TailIndexed DEF ElementsOf
  <2> QED BY <2>2, <2>3
<1>5. Head(q) \in ElementsOf(q)
  BY <1>2 DEF ElementsOf
<1>6. ASSUME Injective(q) PROVE Injective(Tail(q))
  <2> SUFFICES ASSUME NEW i \in 1..Len(Tail(q)), NEW j \in 1..Len(Tail(q)),
                      Tail(q)[i] = Tail(q)[j]
               PROVE  i = j
    BY DEF Injective
  <2>1. i + 1 = j + 1
    BY <1>1, <1>6 DEF Injective
  <2> QED BY <2>1
<1>7. ASSUME Injective(q) PROVE Head(q) \notin ElementsOf(Tail(q))
  <2> SUFFICES ASSUME NEW i \in 1..Len(Tail(q)), Tail(q)[i] = Head(q) PROVE FALSE
    BY DEF ElementsOf
  <2> QED BY <1>1, <1>2, <1>7 DEF Injective
<1> QED BY <1>3, <1>4, <1>5, <1>6, <1>7

(* A read takes elements out of a queue, and leaves the others. *)
LEMMA RestElements ==
  ASSUME NEW S, NEW q \in Seq(S), NEW n \in Nat, Injective(q)
  PROVE  /\ Taken(q, n) \subseteq ElementsOf(q) /\ Injective(Rest(q, n))
         /\ ElementsOf(Rest(q, n)) = ElementsOf(q) \ Taken(q, n)
<1> DEFINE k == Least(n, Len(q))
<1>0. Taken(q, n) = {q[j] : j \in 1..k} /\ Rest(q, n) = SubSeq(q, k + 1, Len(q))
  BY DEF Taken, Rest
<1>1. k \in 0..Len(q) /\ Len(q) \in Nat
  BY DEF Least
<1> HIDE DEF k
<1>2. /\ Len(Rest(q, n)) = Len(q) - k
      /\ \A i \in 1..(Len(q) - k) : Rest(q, n)[i] = q[k + i] /\ k + i \in 1..Len(q) /\ k + i > k
  BY <1>0, <1>1
<1>3. Taken(q, n) \subseteq ElementsOf(q)
  BY <1>0, <1>1 DEF ElementsOf
<1>4. Injective(Rest(q, n))
  <2> SUFFICES ASSUME NEW i \in 1..(Len(q) - k), NEW j \in 1..(Len(q) - k),
                      Rest(q, n)[i] = Rest(q, n)[j]
               PROVE  i = j
    BY <1>2 DEF Injective
  <2>1. k + i = k + j
    BY <1>2 DEF Injective
  <2> QED BY <1>1, <2>1
<1>5. ASSUME NEW x \in ElementsOf(Rest(q, n)) PROVE x \in ElementsOf(q) /\ x \notin Taken(q, n)
  <2>1. PICK i \in 1..(Len(q) - k) : x = Rest(q, n)[i]
    BY <1>2 DEF ElementsOf
  <2>2. x = q[k + i] /\ k + i \in 1..Len(q) /\ k + i > k
    BY <1>2, <2>1
  <2>3. ASSUME NEW j \in 1..k, x = q[j] PROVE FALSE
    <3>1. j \in 1..Len(q)
      BY <1>1
    <3>2. j = k + i
      BY <2>2, <2>3, <3>1 DEF Injective
    <3> QED BY <1>1, <2>2, <3>2
  <2> QED BY <1>0, <2>2, <2>3 DEF ElementsOf
<1>6. ASSUME NEW x \in ElementsOf(q) PROVE x \in Taken(q, n) \/ x \in ElementsOf(Rest(q, n))
  <2>1. PICK i \in 1..Len(q) : x = q[i]
    BY DEF ElementsOf
  <2>2. \/ q[i] \in Taken(q, n)
        \/ \E j \in 1..Len(Rest(q, n)) : Rest(q, n)[j] = q[i]
    BY TakenRestCover
  <2> QED BY <2>1, <2>2 DEF ElementsOf
<1> QED BY <1>3, <1>4, <1>5, <1>6

LEMMA UnionWith ==
  ASSUME NEW E, NEW B
  PROVE  UNION (E \cup {B}) = (UNION E) \cup B
<1> DEFINE left == UNION (E \cup {B})
           right == (UNION E) \cup B
<1>1. ASSUME NEW x PROVE x \in left <=> x \in right
  BY Zenon
<1> HIDE DEF left, right
<1>2. left = right
  BY <1>1
<1> QED BY <1>2 DEF left, right

LEMMA UnionApart ==
  ASSUME NEW E, NEW B, \A b \in E : b \cap B = {}
  PROVE  (UNION E) \cap B = {}
  BY Zenon

LEMMA WithoutApart ==
  ASSUME NEW P, NEW Q, NEW H, Q = P \cup H, P \cap H = {}
  PROVE  P = Q \ H /\ H \subseteq Q
  OBVIOUS

(* The messages of the batches in the channel. *)
LEMMA AppendBatch ==
  ASSUME NEW S, NEW q \in Seq(SUBSET S), NEW B \in SUBSET S
  PROVE  /\ UNION ElementsOf(Append(q, B)) = (UNION ElementsOf(q)) \cup B
         /\ Spread(q) /\ B \cap UNION ElementsOf(q) = {} => Spread(Append(q, B))
<1>1. ElementsOf(Append(q, B)) = ElementsOf(q) \cup {B}
  BY AppendElements
<1>2. ASSUME Spread(q), B \cap UNION ElementsOf(q) = {} PROVE Spread(Append(q, B))
  <2>1. \A i \in 1..Len(q) : q[i] \cap B = {}
    BY <1>2 DEF ElementsOf
  <2> QED BY <1>2, <2>1, AppendIndexed DEF Spread
<1> QED BY <1>1, <1>2, UnionWith

LEMMA TailBatch ==
  ASSUME NEW S, NEW q \in Seq(SUBSET S), q # <<>>, Spread(q)
  PROVE  /\ Spread(Tail(q)) /\ Head(q) \subseteq UNION ElementsOf(q)
         /\ UNION ElementsOf(Tail(q)) = (UNION ElementsOf(q)) \ Head(q)
<1>1. ASSUME NEW i \in 1..Len(Tail(q))
      PROVE  i + 1 \in 1..Len(q) /\ Tail(q)[i] = q[i + 1] /\ i + 1 # 1
  BY TailIndexed
<1>2. 1 \in 1..Len(q) /\ q[1] = Head(q)
  BY TailIndexed
<1>3. Spread(Tail(q))
  <2> SUFFICES ASSUME NEW i \in 1..Len(Tail(q)), NEW j \in 1..Len(Tail(q)),
                      Tail(q)[i] \cap Tail(q)[j] # {}
               PROVE  i = j
    BY DEF Spread
  <2>1. i + 1 = j + 1
    BY <1>1 DEF Spread
  <2> QED BY <2>1
<1>4. \A B \in ElementsOf(Tail(q)) : B \cap Head(q) = {}
  BY <1>1, <1>2 DEF ElementsOf, Spread
<1>5. ElementsOf(q) = ElementsOf(Tail(q)) \cup {Head(q)}
  BY TailElements
<1>6. (UNION ElementsOf(Tail(q))) \cap Head(q) = {}
  BY <1>4, UnionApart
<1>7. UNION ElementsOf(q) = (UNION ElementsOf(Tail(q))) \cup Head(q)
  BY <1>5, UnionWith
<1> QED BY <1>3, <1>6, <1>7, WithoutApart

-----------------------------------------------------------------------------
(* The flow of the entries *)

\* The messages between the DLQ channel and the outcome of a retry.
Pipe == ChanEntries \cup ihand \cup rhand \cup rcur \cup InDLQ

\* The entries that processBatchLoop has not given to the DLQ.
Early == Queued \cup hand \cup bad

\* A message is in one place of the DLQ pipeline, once.
Single ==
    /\ Injective(dlq) /\ Spread(chan)
    /\ InDLQ \cap (ChanEntries \cup ihand \cup rhand \cup rcur) = {}
    /\ ChanEntries \cap (ihand \cup rhand \cup rcur) = {}
    /\ ihand \cap (rhand \cup rcur) = {} /\ rhand \cap rcur = {}

\* So is an entry on its way to the first insert.
Apart == Injective(queued) /\ Queued \cap (hand \cup bad) = {} /\ hand \cap bad = {}

\* The loops hold something only where they are in the middle of it.
InHand ==
    /\ hand # {} => bpc \in {"insert", "ack"}
    /\ bad # {} => bpc \in {"insert", "ack", "reject"}
    /\ rhand # {} => rpc \in {"retry", "ack"}
    /\ rpc = "ack" <=> rcur # {}
    /\ \A m, n \in rcur : m = n
    /\ phase = "down" => hand \cup bad = {} /\ rhand \cup rcur = {}

\* What is about to be acknowledged after a success has its rows, but for those
\* that Append refused.
Sent == /\ bpc = "ack" => \A e \in hand : rows[e] > 0 \/ e \in LostEvents
        /\ rok => \A m \in rcur : rows[m.ev] > 0 \/ m.ev \in LostEvents

\* Two messages about one entry are one message; there is none while the entry
\* is on its way to the first insert.
Distinct == /\ \A m, n \in Pipe : m.ev = n.ev => m = n
            /\ \A m \in Pipe : m.ev \notin Early

\* What is on its way was written, and is not given up before its insert.
Live == /\ \A e \in Early : e \in written /\ (e \in LostEvents => bpc = "ack" /\ e \in hand)
        /\ \A m \in Pipe : m.ev \in written /\ (m.ev \in LostEvents => rok /\ m \in rcur)
        /\ LostEvents \subseteq written

\* Inserts and rows of an entry against its place and the ledger it carries.
Untried(e) == tries[e] = 0 /\ rows[e] = 0
UntriedOK ==
    /\ \A e \in Events \ written : Untried(e)
    /\ \A e \in Queued \cup bad : Untried(e)
    /\ bpc # "ack" => \A e \in hand : Untried(e)

InsertedOnce(m) == rows[m.ev] = 0 \/ m.ev \in ambiguous
LedgersOK ==
    /\ \A m \in Pipe : m.att = 0 \/ m.att < MaxRetries
    /\ \A m \in Pipe \ rcur : tries[m.ev] <= m.att + 1 /\ InsertedOnce(m)
    /\ \A m \in rcur : tries[m.ev] <= m.att + 2 /\ (rok \/ InsertedOnce(m))

\* No entry is nowhere.
Somewhere == \A e \in written :
    \/ rows[e] > 0 \/ e \in LostEvents \/ e \in Early
    \/ \E m \in Pipe : m.ev = e

Accounts == /\ Distinct /\ Live /\ UntriedOK /\ LedgersOK /\ Somewhere
            /\ RetryBudget /\ DuplicateOnlyIfAmbiguous

FlowInv == Single /\ Apart /\ InHand /\ Sent /\ Accounts

-----------------------------------------------------------------------------

(* The places as elements of queues, and their types. *)
LEMMA PlacesTyped ==
  ASSUME TypeOK
  PROVE  /\ Queued = ElementsOf(queued) /\ Queued \subseteq Events
         /\ InDLQ = ElementsOf(dlq) /\ InDLQ \subseteq Entry
         /\ ChanEntries = UNION ElementsOf(chan) /\ ChanEntries \subseteq Entry
         /\ Early \subseteq Events /\ Pipe \subseteq Entry
         /\ \A m \in Pipe : m.ev \in Events /\ m.att \in Nat
         /\ \A e \in Events : tries[e] \in Nat /\ rows[e] \in Nat
<1>1. Queued = ElementsOf(queued) /\ InDLQ = ElementsOf(dlq)
  BY DEF Queued, InDLQ, ElementsOf
<1>2. ChanEntries = UNION ElementsOf(chan)
  BY DEF ChanEntries, ElementsOf
<1>3. Queued \subseteq Events /\ InDLQ \subseteq Entry
  BY DEF TypeOK, Queued, InDLQ
<1>4. ChanEntries \subseteq Entry
  BY DEF TypeOK, ChanEntries
<1>5. Early \subseteq Events /\ Pipe \subseteq Entry
  BY <1>3, <1>4 DEF TypeOK, Early, Pipe
<1>6. \A e \in Events : tries[e] \in Nat /\ rows[e] \in Nat
  BY DEF TypeOK
<1> QED BY <1>1, <1>2, <1>3, <1>4, <1>5, <1>6, EntryTypes

(* What is given up is added to the lost entries. *)
LEMMA GoneLost ==
  ASSUME NEW S, NEW c, Gone(S, c)
  PROVE  LostEvents' = LostEvents \cup S
<1>1. lost' = lost \cup (S \X {c})
  BY DEF Gone
<1>2. \A e : e \in LostEvents' <=> e \in LostEvents \/ e \in S
  <2>1. ASSUME NEW e \in S PROVE <<e, c>> \in lost' /\ <<e, c>>[1] = e
    BY <1>1
  <2>2. ASSUME NEW l \in lost' PROVE l \in lost \/ l[1] \in S
    BY <1>1
  <2>3. lost \subseteq lost'
    BY <1>1
  <2> QED BY <2>1, <2>2, <2>3 DEF LostEvents
<1> QED BY <1>2

(* What was given up stays so. *)
LEMMA GoneGrows ==
  ASSUME NEW S, NEW c, Gone(S, c) PROVE LostEvents \subseteq LostEvents'
  BY GoneLost

LEMMA AddMessagesLoses ==
  ASSUME NEW B, AddMessages(B) PROVE LostEvents \subseteq LostEvents'
<1>1. CASE lost' = lost
  BY <1>1 DEF LostEvents
<1>2. CASE Gone(EventsOf(B), "dropped")
  BY <1>2, GoneGrows
<1> QED BY <1>1, <1>2 DEF AddMessages

(* A batch enters the channel, or what it is about is given up. *)
LEMMA AddMessagesMoves ==
  ASSUME TypeOK, TypeOK', Spread(chan), NEW B \in SUBSET Entry, B \cap ChanEntries = {},
         AddMessages(B)
  PROVE  /\ Spread(chan')
         /\ \/ ChanEntries' = ChanEntries \cup B /\ LostEvents' = LostEvents
            \/ ChanEntries' = ChanEntries /\ LostEvents' = LostEvents \cup EventsOf(B)
<1>1. /\ ChanEntries = UNION ElementsOf(chan) /\ chan \in Seq(SUBSET Entry)
      /\ ChanEntries' = UNION ElementsOf(chan')
  BY PlacesTyped DEF TypeOK, ChanEntries, ElementsOf
<1>2. CASE Len(chan) < ChanCap
  <2>1. chan' = Append(chan, B) /\ lost' = lost
    BY <1>2 DEF AddMessages
  <2>2. Spread(chan') /\ ChanEntries' = ChanEntries \cup B
    BY <1>1, <2>1, AppendBatch
  <2> QED BY <2>1, <2>2 DEF LostEvents
<1>3. CASE ~(Len(chan) < ChanCap)
  <2>1. chan' = chan /\ Gone(EventsOf(B), "dropped")
    BY <1>3 DEF AddMessages
  <2> QED BY <1>1, <2>1, GoneLost
<1> QED BY <1>2, <1>3

LEMMA FlowInit == Init => FlowInv
<1> SUFFICES ASSUME Init PROVE FlowInv
  OBVIOUS
<1>1. queued = <<>> /\ dlq = <<>> /\ chan = <<>>
  BY DEF Init
<1>2. Queued = {} /\ InDLQ = {} /\ ChanEntries = {}
  <2>1. Queued = ElementsOf(<<>>) /\ InDLQ = ElementsOf(<<>>)
    BY <1>1 DEF Queued, InDLQ, ElementsOf
  <2>2. ChanEntries = UNION {}
    BY <1>1 DEF ChanEntries
  <2> QED BY <2>1, <2>2, ElementsOfEmpty
<1>3. Pipe = {} /\ Early = {}
  BY <1>2 DEF Init, Pipe, Early
<1>4. Single /\ Apart
  BY <1>1, <1>2, <1>3, ElementsOfEmpty DEF Init, Single, Apart
<1>5. InHand /\ Sent
  BY DEF Init, InHand, Sent
<1>8. LostEvents = {}
  BY DEF Init, LostEvents
<1>6. Distinct /\ Live /\ UntriedOK /\ LedgersOK /\ Somewhere
  BY <1>2, <1>3, <1>8 DEF Init, Distinct, Live, UntriedOK, Untried, LedgersOK, Somewhere
<1>7. RetryBudget /\ DuplicateOnlyIfAmbiguous
  BY ConstantTypes DEF Init, RetryBudget, DuplicateOnlyIfAmbiguous
<1> QED BY <1>4, <1>5, <1>6, <1>7 DEF FlowInv, Accounts

(* A step in which nothing moves. *)
LEMMA QuietKeeps ==
  ASSUME FlowInv, InHand', bpc' = bpc \/ hand = {},
         UNCHANGED <<written, queued, hand, bad, chan, ihand, rhand, rcur, rok, dlq,
                     tableVars, lost>>
  PROVE  FlowInv'
<1>1. /\ Pipe' = Pipe /\ Early' = Early /\ Queued' = Queued /\ InDLQ' = InDLQ
      /\ ChanEntries' = ChanEntries /\ LostEvents' = LostEvents
  BY DEF Pipe, Early, Queued, InDLQ, ChanEntries, LostEvents
<1>2. Single' /\ Apart' /\ Sent'
  BY <1>1 DEF FlowInv, Single, Apart, Sent
<1>3. Distinct' /\ Live' /\ Somewhere'
  BY <1>1 DEF FlowInv, Accounts, Distinct, Live, Somewhere
<1>4. UntriedOK' /\ LedgersOK'
  BY <1>1 DEF FlowInv, Accounts, UntriedOK, Untried, LedgersOK, InsertedOnce
<1>5. RetryBudget' /\ DuplicateOnlyIfAmbiguous'
  BY DEF FlowInv, Accounts, RetryBudget, DuplicateOnlyIfAmbiguous
<1> QED BY <1>2, <1>3, <1>4, <1>5 DEF FlowInv, Accounts

-----------------------------------------------------------------------------
(* The steps that move entries *)

\* A step in which no message or entry appears: G is given up, and what leaves
\* without being given up has its row or was given up before.
Shrinks(G) ==
    /\ UNCHANGED <<written, tableVars>>
    /\ LostEvents' = LostEvents \cup G /\ G \subseteq written
    /\ Pipe' \subseteq Pipe /\ Early' \subseteq Early
    /\ \A e \in Early' : e \notin G
    /\ \A m \in Pipe' : m.ev \notin G
    /\ \A e \in Early \ Early' : e \in G \/ rows[e] > 0 \/ e \in LostEvents
    /\ \A m \in Pipe \ Pipe' : m.ev \in G \/ rows[m.ev] > 0 \/ m.ev \in LostEvents
    /\ \/ UNCHANGED <<bpc, hand>>
       \/ bpc = "ack" => hand \cap Early' = {}
    /\ \/ UNCHANGED <<rcur, rok>>
       \/ rcur' = {} /\ Pipe' \cap rcur = {}
    /\ Queued' \cup bad' \subseteq Queued \cup bad
    /\ bpc' # "ack" => \/ hand' \subseteq Queued
                       \/ bpc # "ack" /\ hand' \subseteq hand

LEMMA ShrinkKeeps ==
  ASSUME TypeOK, TypeOK', FlowInv, NEW G, Shrinks(G)
  PROVE  Accounts'
<1> USE DEF Shrinks
<1>1. Distinct' /\ Live' /\ Somewhere'
  BY DEF FlowInv, Accounts, Distinct, Live, Somewhere
<1>3. UntriedOK'
  <2>1. \A e \in Queued' \cup bad' : Untried(e)
    BY DEF FlowInv, Accounts, UntriedOK
  <2>2. bpc' # "ack" => \A e \in hand' : Untried(e)
    BY DEF FlowInv, Accounts, UntriedOK
  <2> QED BY <2>1, <2>2 DEF FlowInv, Accounts, UntriedOK, Untried
<1>4. LedgersOK'
  <2>1. rcur' \subseteq rcur /\ Pipe' \ rcur' \subseteq Pipe \ rcur
    OBVIOUS
  <2>2. \A m \in Pipe' : m.att = 0 \/ m.att < MaxRetries
    BY DEF FlowInv, Accounts, LedgersOK
  <2>3. \A m \in Pipe' \ rcur' : tries'[m.ev] <= m.att + 1 /\ InsertedOnce(m)'
    BY <2>1 DEF FlowInv, Accounts, LedgersOK, InsertedOnce
  <2>4. \A m \in rcur' : tries'[m.ev] <= m.att + 2 /\ (rok' \/ InsertedOnce(m)')
    BY DEF FlowInv, Accounts, LedgersOK, InsertedOnce
  <2> QED BY <2>2, <2>3, <2>4 DEF LedgersOK, InsertedOnce
<1>5. RetryBudget' /\ DuplicateOnlyIfAmbiguous'
  BY DEF FlowInv, Accounts, RetryBudget, DuplicateOnlyIfAmbiguous
<1> QED BY <1>1, <1>3, <1>4, <1>5 DEF Accounts

LEMMA AckRedisMessagesFlow ==
  ASSUME TypeOK, TypeOK', FlowInv, AckRedisMessages PROVE FlowInv'
<1>1. /\ bpc = "ack" /\ hand' = {} /\ bpc' = AfterRows /\ bpc' # "ack"
      /\ UNCHANGED <<written, queued, dlq, bad, chan, ihand, rpc, rhand, rcur, rok,
                     phase, tableVars, lost>>
  BY DEF AckRedisMessages, AfterRows
<1>2. /\ Pipe' = Pipe /\ Queued' = Queued /\ InDLQ' = InDLQ /\ ChanEntries' = ChanEntries
      /\ LostEvents' = LostEvents /\ Early' = Queued \cup bad
  BY <1>1 DEF Pipe, Early, Queued, InDLQ, ChanEntries, LostEvents
<1>3. /\ Early' \subseteq Early /\ \A e \in Early \ Early' : rows[e] > 0 \/ e \in LostEvents
      /\ hand \cap Early' = {}
  BY <1>1, <1>2 DEF FlowInv, Sent, Early, Apart
<1>4. Shrinks({})
  BY <1>1, <1>2, <1>3 DEF Shrinks
<1>5. Single' /\ Apart'
  BY <1>1, <1>2 DEF FlowInv, Single, Apart
<1>6. InHand' /\ Sent'
  BY <1>1, <1>2 DEF FlowInv, InHand, Sent, AfterRows
<1> QED BY <1>4, <1>5, <1>6, ShrinkKeeps DEF FlowInv

LEMMA ReadBatchFlow ==
  ASSUME TypeOK, TypeOK', FlowInv, ReadBatch PROVE FlowInv'
<1> DEFINE got == Taken(queued, BatchSize)
<1>1. /\ bpc = "read" /\ queued' = Rest(queued, BatchSize) /\ bpc' # "ack" /\ phase # "down"
      /\ UNCHANGED <<written, dlq, chan, ihand, rpc, rhand, rcur, rok, phase, tableVars>>
  BY DEF ReadBatch, ProcessBatch, Up
<1>2. hand = {} /\ bad = {}
  BY <1>1 DEF FlowInv, InHand
<1>3. /\ got \subseteq Queued /\ Injective(queued') /\ Queued' = Queued \ got
  <2>1. queued \in Seq(Events) /\ BatchSize \in Nat /\ Injective(queued)
    BY ConstantTypes DEF TypeOK, FlowInv, Apart
  <2>2. Queued = ElementsOf(queued) /\ Queued' = ElementsOf(queued')
    BY DEF Queued, ElementsOf
  <2> QED BY <1>1, <2>1, <2>2, RestElements
<1>4. Pipe' = Pipe /\ InDLQ' = InDLQ /\ ChanEntries' = ChanEntries
  BY <1>1 DEF Pipe, InDLQ, ChanEntries
<1>5. PICK G : /\ LostEvents' = LostEvents \cup G
               /\ \/ /\ G = {} /\ bad' \subseteq got /\ hand' = got \ bad'
                     /\ bpc' = IF hand' = {} THEN "reject" ELSE "insert"
                  \/ G = got /\ hand' = {} /\ bad' = {} /\ bpc' = "top"
  <2>1. CASE bpc' = "top" /\ UNCHANGED <<hand, bad>> /\ Gone(got, "dropped")
    BY <2>1, <1>2, GoneLost
  <2>2. CASE (\E failed \in SUBSET got : ProcessBatch(got \ failed, failed)) /\ lost' = lost
    BY <2>2 DEF LostEvents, ProcessBatch
  <2>3. got \cap Malformed \subseteq got
    OBVIOUS
  <2> QED BY <2>1, <2>2, <2>3 DEF ReadBatch
<1> HIDE DEF got
<1>6. /\ hand' \subseteq got /\ bad' \subseteq got /\ hand' \cap bad' = {}
      /\ G \subseteq got /\ G \cap (hand' \cup bad') = {} /\ got \subseteq G \cup hand' \cup bad'
  BY <1>5
<1>7. Early = Queued /\ Early' = Queued \ G
  BY <1>2, <1>3, <1>6 DEF Early
<1>8. \A m \in Pipe' : m.ev \notin G
  BY <1>3, <1>4, <1>6, <1>7 DEF FlowInv, Accounts, Distinct
<1>10. Shrinks(G)
  <2>1. UNCHANGED <<written, tableVars, rcur, rok>> /\ LostEvents' = LostEvents \cup G
    BY <1>1, <1>5
  <2>2. Queued' \cup bad' \subseteq Queued \cup bad /\ hand' \subseteq Queued
    BY <1>3, <1>6
  <2>3. /\ Early' \subseteq Early /\ \A e \in Early' : e \notin G
        /\ \A e \in Early \ Early' : e \in G
    BY <1>7
  <2>4. Pipe' \subseteq Pipe /\ Pipe \ Pipe' = {}
    BY <1>4
  <2>5. \A m \in Pipe \ Pipe' : m.ev \in G \/ rows[m.ev] > 0
    BY <2>4
  <2>6. bpc' # "ack" => hand' \subseteq Queued
    BY <2>2
  <2>7. G \subseteq written
    BY <1>3, <1>6 DEF FlowInv, Accounts, Live, Early
  <2> QED BY <2>1, <2>2, <2>3, <2>4, <2>5, <2>6, <2>7, <1>1, <1>8 DEF Shrinks
<1>11. Single' /\ Apart'
  <2>1. Single'
    BY <1>1, <1>4 DEF FlowInv, Single
  <2>2. Queued' \cap (hand' \cup bad') = {}
    BY <1>3, <1>6
  <2> QED BY <1>3, <1>6, <2>1, <2>2 DEF Apart
<1>12. InHand' /\ Sent'
  BY <1>1, <1>5 DEF FlowInv, InHand, Sent
<1> QED BY <1>10, <1>11, <1>12, ShrinkKeeps DEF FlowInv

LEMMA IngestTakeFlow ==
  ASSUME TypeOK, TypeOK', FlowInv, IngestTake PROVE FlowInv'
<1>1. /\ ihand = {} /\ chan # <<>> /\ ihand' = Head(chan) /\ chan' = Tail(chan)
      /\ UNCHANGED <<written, queued, hand, bad, bpc, dlq, rpc, rhand, rcur, rok,
                     phase, tableVars, lost>>
  BY DEF IngestTake
<1>2. /\ Spread(chan') /\ Head(chan) \subseteq ChanEntries
      /\ ChanEntries' = ChanEntries \ Head(chan)
  <2>1. chan \in Seq(SUBSET Entry) /\ Spread(chan)
    BY DEF TypeOK, FlowInv, Single
  <2>2. ChanEntries = UNION ElementsOf(chan) /\ ChanEntries' = UNION ElementsOf(chan')
    BY DEF ChanEntries, ElementsOf
  <2>3. /\ Spread(Tail(chan)) /\ Head(chan) \subseteq UNION ElementsOf(chan)
        /\ UNION ElementsOf(Tail(chan)) = (UNION ElementsOf(chan)) \ Head(chan)
    BY <1>1, <2>1, TailBatch
  <2>4. chan' = Tail(chan)
    BY <1>1
  <2> QED BY <2>2, <2>3, <2>4, Zenon
<1>3. Queued' = Queued /\ InDLQ' = InDLQ /\ LostEvents' = LostEvents /\ Early' = Early
  BY <1>1 DEF Early, Queued, InDLQ, LostEvents
<1>4. Pipe' = Pipe
  BY <1>1, <1>2, <1>3 DEF Pipe
<1>5. Shrinks({})
  BY <1>1, <1>3, <1>4 DEF Shrinks
<1>6. Single' /\ Apart'
  <2>1. /\ InDLQ \cap (ChanEntries \cup ihand \cup rhand \cup rcur) = {} /\ Injective(dlq)
        /\ ChanEntries \cap (ihand \cup rhand \cup rcur) = {} /\ rhand \cap rcur = {}
    BY DEF FlowInv, Single
  <2>2. /\ InDLQ' \cap (ChanEntries' \cup ihand' \cup rhand' \cup rcur') = {}
        /\ ChanEntries' \cap (ihand' \cup rhand' \cup rcur') = {}
        /\ ihand' \cap (rhand' \cup rcur') = {} /\ rhand' \cap rcur' = {}
    BY <1>1, <1>2, <1>3, <2>1
  <2> QED BY <1>1, <1>2, <1>3, <2>1, <2>2 DEF Single, Apart, FlowInv
<1>7. InHand' /\ Sent'
  BY <1>1, <1>3 DEF FlowInv, InHand, Sent
<1> QED BY <1>5, <1>6, <1>7, ShrinkKeeps DEF FlowInv

LEMMA IngestWriteFlow ==
  ASSUME TypeOK, TypeOK', FlowInv, NEW m \in ihand, IngestWrite(m) PROVE FlowInv'
<1>1. /\ ihand' = ihand \ {m} /\ m \in Pipe
      /\ UNCHANGED <<written, queued, hand, bad, bpc, chan, rpc, rhand, rcur, rok,
                     phase, tableVars>>
  BY DEF IngestWrite, Pipe
<1>2. /\ Queued' = Queued /\ ChanEntries' = ChanEntries /\ Early' = Early
  BY <1>1 DEF Early, Queued, ChanEntries
<1>3. /\ InDLQ \cap (ChanEntries \cup ihand \cup rhand \cup rcur) = {} /\ Injective(dlq)
      /\ ChanEntries \cap (ihand \cup rhand \cup rcur) = {} /\ Spread(chan)
      /\ ihand \cap (rhand \cup rcur) = {} /\ rhand \cap rcur = {}
  BY DEF FlowInv, Single
<1>4. dlq \in Seq(Entry) /\ m \in Entry
  BY DEF TypeOK
<1>5. InDLQ = ElementsOf(dlq) /\ InDLQ' = ElementsOf(dlq')
  BY DEF InDLQ, ElementsOf
\* What is dropped: the oldest message of the stream, this one, or none.
<1>6. PICK D : /\ Injective(dlq') /\ LostEvents' = LostEvents \cup EventsOf(D)
               /\ D \subseteq InDLQ \cup {m} /\ InDLQ' = (InDLQ \cup {m}) \ D
  <2>1. CASE dlq' = Append(dlq, m) /\ lost' = lost
    <3>1. Injective(dlq') /\ InDLQ' = (InDLQ \cup {m}) \ {}
      BY <2>1, <1>3, <1>4, <1>5, AppendElements
    <3>2. LostEvents' = LostEvents \cup EventsOf({})
      BY <2>1 DEF LostEvents, EventsOf
    <3> QED BY <3>1, <3>2
  <2>2. CASE /\ Len(dlq) >= DLQMaxLen /\ dlq' = Append(Tail(dlq), m)
             /\ Gone({Head(dlq).ev}, "dropped")
    <3>1. dlq # <<>>
      BY <2>2, ConstantsOK, <1>4
    <3>2. /\ Head(dlq) \in InDLQ /\ Tail(dlq) \in Seq(Entry) /\ Injective(Tail(dlq))
          /\ ElementsOf(Tail(dlq)) = InDLQ \ {Head(dlq)}
      BY <3>1, <1>3, <1>4, <1>5, TailElements, TailIndexed
    <3>3. m \notin InDLQ
      BY <1>3
    <3>4. Injective(dlq') /\ InDLQ' = (InDLQ \ {Head(dlq)}) \cup {m}
      <4> DEFINE others == Tail(dlq)
      <4>1. /\ m \notin ElementsOf(others) /\ others \in Seq(Entry) /\ Injective(others)
            /\ dlq' = Append(others, m) /\ ElementsOf(others) = InDLQ \ {Head(dlq)}
        BY <2>2, <3>2, <3>3
      <4> HIDE DEF others
      <4>2. ElementsOf(dlq') = ElementsOf(others) \cup {m} /\ Injective(dlq')
        BY <4>1, <1>4, AppendElements
      <4> QED BY <4>1, <4>2, <1>5
    <3>5. LostEvents' = LostEvents \cup EventsOf({Head(dlq)})
      <4>1. EventsOf({Head(dlq)}) = {Head(dlq).ev}
        BY DEF EventsOf
      <4> QED BY <4>1, <2>2, GoneLost
    <3> QED BY <3>2, <3>3, <3>4, <3>5
  <2>3. CASE UNCHANGED dlq /\ Gone({m.ev}, "dropped")
    <3>1. LostEvents' = LostEvents \cup EventsOf({m})
      <4>1. EventsOf({m}) = {m.ev}
        BY DEF EventsOf
      <4> QED BY <4>1, <2>3, GoneLost
    <3>2. InDLQ' = InDLQ /\ m \notin InDLQ
      BY <2>3, <1>3, <1>5
    <3> QED BY <2>3, <3>1, <3>2, <1>3
  <2> QED BY <2>1, <2>2, <2>3 DEF IngestWrite
<1>7. D \subseteq Pipe /\ Pipe' = Pipe \ D
  <2>1. D \cap (ChanEntries \cup (ihand \ {m}) \cup rhand \cup rcur) = {} /\ D \subseteq Pipe
    BY <1>1, <1>3, <1>6 DEF Pipe
  <2>2. Pipe' = ChanEntries \cup (ihand \ {m}) \cup rhand \cup rcur \cup ((InDLQ \cup {m}) \ D)
    BY <1>1, <1>2, <1>6 DEF Pipe
  <2>3. Pipe = ChanEntries \cup (ihand \ {m}) \cup rhand \cup rcur \cup (InDLQ \cup {m})
    BY <1>1 DEF Pipe
  <2> QED BY <2>1, <2>2, <2>3
<1>8. Shrinks(EventsOf(D))
  <2>1. \A e \in EventsOf(D) : \E n \in D : e = n.ev
    BY DEF EventsOf
  <2>2. \A n \in Pipe' : n.ev \notin EventsOf(D)
    BY <2>1, <1>7 DEF FlowInv, Accounts, Distinct
  <2>3. \A e \in Early' : e \notin EventsOf(D)
    BY <2>1, <1>2, <1>7 DEF FlowInv, Accounts, Distinct
  <2>4. \A n \in Pipe \ Pipe' : n.ev \in EventsOf(D)
    BY <1>7 DEF EventsOf
  <2>5. Pipe' \subseteq Pipe
    BY <1>7
  <2>6. EventsOf(D) \subseteq written
    BY <2>1, <1>7 DEF FlowInv, Accounts, Live
  <2> QED BY <2>6, <2>2, <2>3, <2>4, <2>5, <1>1, <1>2, <1>6 DEF Shrinks
<1>9. Single' /\ Apart'
  <2>1. /\ InDLQ' \cap (ChanEntries \cup (ihand \ {m}) \cup rhand \cup rcur) = {}
        /\ (ihand \ {m}) \cap (rhand \cup rcur) = {}
        /\ ChanEntries \cap ((ihand \ {m}) \cup rhand \cup rcur) = {}
    BY <1>3, <1>6
  <2> QED BY <1>1, <1>2, <1>3, <1>6, <2>1 DEF Single, Apart, FlowInv
<1>10. InHand' /\ Sent'
  BY <1>1, <1>6 DEF FlowInv, InHand, Sent
<1> QED BY <1>8, <1>9, <1>10, ShrinkKeeps DEF FlowInv

LEMMA RetryReadFlow ==
  ASSUME TypeOK, TypeOK', FlowInv, RetryRead PROVE FlowInv'
<1> DEFINE got == Taken(dlq, DLQBatch)
<1>1. /\ rpc = "read" /\ dlq' = Rest(dlq, DLQBatch) /\ phase # "down"
      /\ UNCHANGED <<written, queued, hand, bad, bpc, chan, ihand, rcur, rok, phase, tableVars>>
  BY DEF RetryRead, Up
<1>2. rhand = {} /\ rcur = {} /\ rcur' = {}
  BY <1>1 DEF FlowInv, InHand
<1>3. /\ InDLQ \cap (ChanEntries \cup ihand \cup rhand \cup rcur) = {} /\ Injective(dlq)
      /\ ChanEntries \cap (ihand \cup rhand \cup rcur) = {} /\ Spread(chan)
  BY DEF FlowInv, Single
<1>4. /\ got \subseteq InDLQ /\ Injective(dlq') /\ InDLQ' = InDLQ \ got
  <2>1. dlq \in Seq(Entry) /\ DLQBatch \in Nat
    BY ConstantTypes DEF TypeOK
  <2>2. InDLQ = ElementsOf(dlq) /\ InDLQ' = ElementsOf(dlq')
    BY DEF InDLQ, ElementsOf
  <2> QED BY <1>1, <1>3, <2>1, <2>2, RestElements
<1>5. Queued' = Queued /\ ChanEntries' = ChanEntries /\ Early' = Early
  BY <1>1 DEF Early, Queued, ChanEntries
<1>6. PICK D : /\ LostEvents' = LostEvents \cup EventsOf(D)
               /\ \/ D = {} /\ rhand' = got /\ rpc' = "retry"
                  \/ D = got /\ rhand' = {} /\ rpc' = "tick"
  <2>1. CASE rpc' = "retry" /\ rhand' = got /\ lost' = lost
    <3>1. LostEvents' = LostEvents \cup EventsOf({})
      BY <2>1 DEF LostEvents, EventsOf
    <3> QED BY <2>1, <3>1
  <2>2. CASE rpc' = "tick" /\ rhand' = rhand /\ Gone(EventsOf(got), "dropped")
    BY <2>2, <1>2, GoneLost
  <2> QED BY <2>1, <2>2 DEF RetryRead
<1> HIDE DEF got
<1>7. D \subseteq Pipe /\ Pipe' = Pipe \ D /\ rhand' \subseteq got
  <2>1. Pipe = ChanEntries \cup ihand \cup InDLQ
    BY <1>2 DEF Pipe
  <2>2. Pipe' = ChanEntries \cup ihand \cup rhand' \cup (InDLQ \ got)
    BY <1>1, <1>2, <1>4, <1>5 DEF Pipe
  <2>3. got \cap (ChanEntries \cup ihand) = {}
    BY <1>3, <1>4
  <2> QED BY <2>1, <2>2, <2>3, <1>4, <1>6
<1>8. Shrinks(EventsOf(D))
  <2>1. \A e \in EventsOf(D) : \E n \in D : e = n.ev
    BY DEF EventsOf
  <2>2. \A n \in Pipe' : n.ev \notin EventsOf(D)
    BY <2>1, <1>7 DEF FlowInv, Accounts, Distinct
  <2>3. \A e \in Early' : e \notin EventsOf(D)
    BY <2>1, <1>5, <1>7 DEF FlowInv, Accounts, Distinct
  <2>4. \A n \in Pipe \ Pipe' : n.ev \in EventsOf(D)
    BY <1>7 DEF EventsOf
  <2>5. Pipe' \subseteq Pipe
    BY <1>7
  <2>6. EventsOf(D) \subseteq written
    BY <2>1, <1>7 DEF FlowInv, Accounts, Live
  <2> QED BY <2>6, <2>2, <2>3, <2>4, <2>5, <1>1, <1>5, <1>6 DEF Shrinks
<1>9. Single' /\ Apart'
  <2>1. /\ InDLQ' \cap (ChanEntries \cup ihand \cup rhand') = {}
        /\ ihand \cap rhand' = {}
        /\ ChanEntries \cap (ihand \cup rhand') = {}
    BY <1>3, <1>4, <1>7
  <2> QED BY <1>1, <1>2, <1>3, <1>4, <1>5, <2>1 DEF Single, Apart, FlowInv
<1>10. InHand' /\ Sent'
  BY <1>1, <1>2, <1>6 DEF FlowInv, InHand, Sent
<1> QED BY <1>8, <1>9, <1>10, ShrinkKeeps DEF FlowInv

LEMMA GoDownFlow ==
  ASSUME TypeOK, TypeOK', FlowInv, GoDown PROVE FlowInv'
<1>1. /\ bpc' = "stopped" /\ hand' = {} /\ bad' = {} /\ chan' = <<>> /\ ihand' = {}
      /\ rpc' = "stopped" /\ rhand' = {} /\ rcur' = {} /\ rok' = FALSE
      /\ UNCHANGED <<written, queued, dlq, tableVars>>
  BY DEF GoDown
<1>2. /\ Queued' = Queued /\ InDLQ' = InDLQ /\ ChanEntries' = {} /\ Spread(chan')
  <2>1. UNION ElementsOf(<<>>) = {} /\ Spread(<<>>)
    BY ElementsOfEmpty
  <2>2. ChanEntries' = UNION ElementsOf(chan')
    BY DEF ChanEntries, ElementsOf
  <2> QED BY <1>1, <2>1, <2>2 DEF Queued, InDLQ
<1>3. /\ Pipe' = InDLQ /\ Early' = Queued
  BY <1>1, <1>2 DEF Pipe, Early
<1>4. LostEvents' = LostEvents \cup InMemory
  BY GoneLost DEF GoDown
<1>5. Shrinks(InMemory)
  <2> DEFINE held == ChanEntries \cup ihand \cup rhand \cup rcur
  <2>1. Pipe = held \cup InDLQ /\ held \cap InDLQ = {}
    BY DEF Pipe, FlowInv, Single
  <2>2. InMemory = hand \cup bad \cup EventsOf(held)
    BY DEF InMemory
  <2>3. \A e \in EventsOf(held) : \E n \in held : e = n.ev
    BY DEF EventsOf
  <2>4. \A n \in held : n.ev \in EventsOf(held)
    BY DEF EventsOf
  <2> HIDE DEF held
  <2>5. \A n \in Pipe' : n.ev \notin InMemory
    BY <2>1, <2>2, <2>3, <1>3 DEF FlowInv, Accounts, Distinct, Early
  <2>6. \A e \in Early' : e \notin InMemory
    BY <2>1, <2>2, <2>3, <1>3 DEF FlowInv, Accounts, Distinct, Early, Apart
  <2>7. \A e \in Early \ Early' : e \in InMemory
    BY <2>2, <1>3 DEF Early
  <2>8. \A n \in Pipe \ Pipe' : n.ev \in InMemory
    BY <2>1, <2>2, <2>4, <1>3
  <2>9. Pipe' \subseteq Pipe /\ Early' \subseteq Early /\ Pipe' \cap rcur = {}
    BY <1>3 DEF Pipe, Early, FlowInv, Single
  <2>10. InMemory \subseteq written
    BY <2>1, <2>2, <2>3 DEF FlowInv, Accounts, Live, Early
  <2>11. hand \cap Early' = {}
    BY <1>3 DEF FlowInv, Apart
  <2> QED BY <2>5, <2>6, <2>7, <2>8, <2>9, <2>10, <2>11, <1>1, <1>2, <1>4 DEF Shrinks
<1>6. Single' /\ Apart' /\ InHand' /\ Sent'
  BY <1>1, <1>2 DEF FlowInv, Single, Apart, InHand, Sent
<1> QED BY <1>5, <1>6, ShrinkKeeps DEF FlowInv

(* A new entry, whose message nothing carries yet, and at most the oldest    *)
(* undelivered one given up.                                                 *)
LEMMA WriteToBatchStreamFlow ==
  ASSUME TypeOK, TypeOK', FlowInv, NEW e \in Events, WriteToBatchStream(e) PROVE FlowInv'
<1>1. /\ e \notin written /\ written' = written \cup {e}
      /\ UNCHANGED <<hand, bad, bpc, dlq, chan, ihand, rpc, rhand, rcur, rok, phase, tableVars>>
  BY DEF WriteToBatchStream
<1>2. /\ Pipe' = Pipe /\ InDLQ' = InDLQ /\ ChanEntries' = ChanEntries
  BY <1>1 DEF Pipe, InDLQ, ChanEntries
<1>3. /\ Injective(queued) /\ queued \in Seq(Events) /\ e \notin Early /\ e \notin LostEvents
      /\ Queued = ElementsOf(queued) /\ Queued' = ElementsOf(queued')
  <2>1. queued \in Seq(Events) /\ Injective(queued)
    BY DEF TypeOK, FlowInv, Apart
  <2>2. e \notin Early /\ e \notin LostEvents
    BY <1>1 DEF FlowInv, Accounts, Live
  <2>3. Queued = ElementsOf(queued) /\ Queued' = ElementsOf(queued')
    BY DEF Queued, ElementsOf
  <2> QED BY <2>1, <2>2, <2>3
<1>4. e \notin Queued
  BY <1>3 DEF Early
<1>5. PICK G : /\ Injective(queued') /\ LostEvents' = LostEvents \cup G
               /\ G \subseteq Queued /\ Queued' = (Queued \ G) \cup {e}
  <2>1. CASE queued' = Append(queued, e) /\ lost' = lost
    <3>1. Injective(queued') /\ Queued' = (Queued \ {}) \cup {e}
      BY <2>1, <1>3, <1>4, AppendElements
    <3> QED BY <2>1, <3>1 DEF LostEvents
  <2>2. CASE /\ Len(queued) >= StreamMaxLen /\ queued' = Append(Tail(queued), e)
             /\ Gone({Head(queued)}, "trimmed")
    <3> DEFINE others == Tail(queued)
    <3>1. queued # <<>>
      BY <2>2, <1>3, ConstantsOK
    <3>2. /\ Head(queued) \in Queued /\ others \in Seq(Events) /\ Injective(others)
          /\ ElementsOf(others) = Queued \ {Head(queued)} /\ queued' = Append(others, e)
      BY <2>2, <3>1, <1>3, TailElements, TailIndexed
    <3> HIDE DEF others
    <3>3. ElementsOf(queued') = ElementsOf(others) \cup {e} /\ Injective(queued')
      BY <3>2, <1>4, AppendElements
    <3>4. Queued' = (Queued \ {Head(queued)}) \cup {e}
      BY <3>2, <3>3, <1>3
    <3> QED BY <2>2, <3>2, <3>3, <3>4, GoneLost
  <2> QED BY <2>1, <2>2 DEF WriteToBatchStream
<1>6. /\ Queued \cap (hand \cup bad) = {} /\ hand \cap bad = {}
      /\ e \notin hand \cup bad /\ \A m \in Pipe : m.ev # e /\ m.ev \notin Queued
  BY <1>1, <1>3 DEF FlowInv, Apart, Accounts, Distinct, Live, Early
<1>7. Early' = (Early \ G) \cup {e} /\ G \subseteq Early
  BY <1>1, <1>5, <1>6 DEF Early
<1>8. Single' /\ Apart' /\ InHand' /\ Sent'
  <2>1. Queued' \cap (hand \cup bad) = {}
    BY <1>5, <1>6
  <2>2. Single' /\ Apart'
    BY <2>1, <1>1, <1>2, <1>5, <1>6 DEF FlowInv, Single, Apart
  <2> QED BY <2>2, <1>1, <1>5 DEF FlowInv, InHand, Sent
<1>9. Distinct' /\ Live' /\ Somewhere'
  <2>1. Distinct'
    BY <1>2, <1>6, <1>7 DEF FlowInv, Accounts, Distinct
  <2>2. Live'
    <3>1. \A x \in Early' : x \in written' /\ (x \in LostEvents' => bpc = "ack" /\ x \in hand)
      BY <1>1, <1>3, <1>5, <1>4, <1>7 DEF FlowInv, Accounts, Live
    <3>2. \A m \in Pipe' : m.ev \in written' /\ (m.ev \in LostEvents' => rok /\ m \in rcur)
      BY <1>1, <1>2, <1>5, <1>6 DEF FlowInv, Accounts, Live
    <3>3. LostEvents' \subseteq written'
      BY <1>1, <1>5, <1>7 DEF FlowInv, Accounts, Live
    <3> QED BY <1>1, <3>1, <3>2, <3>3 DEF Live
  <2>3. Somewhere'
    BY <1>1, <1>2, <1>5, <1>7 DEF FlowInv, Accounts, Somewhere
  <2> QED BY <2>1, <2>2, <2>3
<1>10. UntriedOK' /\ LedgersOK'
  <2>1. Untried(e)
    BY <1>1 DEF FlowInv, Accounts, UntriedOK
  <2>2. UntriedOK'
    BY <1>1, <1>5, <2>1 DEF FlowInv, Accounts, UntriedOK, Untried
  <2>3. LedgersOK'
    BY <1>1, <1>2 DEF FlowInv, Accounts, LedgersOK, InsertedOnce
  <2> QED BY <2>2, <2>3
<1>11. RetryBudget' /\ DuplicateOnlyIfAmbiguous'
  BY <1>1 DEF FlowInv, Accounts, RetryBudget, DuplicateOnlyIfAmbiguous
<1> QED BY <1>8, <1>9, <1>10, <1>11 DEF FlowInv, Accounts

\* The inserts and rows of the entries of X after their first INSERT, or none.
FirstTry(X) ==
    /\ ambiguous \subseteq ambiguous'
    /\ \A e \in X : /\ tries'[e] <= 1
                    /\ \/ rows'[e] = 0
                       \/ rows'[e] = 1 /\ e \in ambiguous'
    /\ \A e \in Events \ X : tries'[e] = tries[e] /\ rows'[e] = rows[e]

(* Entries of processBatchLoop are handed to the DLQ.                        *)
LEMMA HandedOver ==
  ASSUME TypeOK, TypeOK', FlowInv, NEW X \in SUBSET Events,
         X \subseteq hand \cup bad, hand' = {}, hand \subseteq X, bad' = bad \ X,
         bpc # "ack",
         UNCHANGED <<written, queued, dlq, ihand, rhand, rcur, rok>>,
         FirstTry(X), AddMessages(Fresh(X))
  PROVE  Single' /\ Apart' /\ Accounts'
<1> DEFINE B == Fresh(X)
<1>1. /\ \A m \in B : m.ev \in X /\ m.att = 0
      /\ \A m, n \in B : m.ev = n.ev => m = n
      /\ \A e \in X : \E m \in B : m.ev = e
      /\ EventsOf(B) = X /\ B \in SUBSET Entry
  <2>1. B = [ev : X, att : {0}]
    BY DEF Fresh
  <2>2. \A e \in X : [ev |-> e, att |-> 0] \in B
    BY <2>1
  <2>3. /\ \A m \in B : m.ev \in X /\ m.att = 0
        /\ \A m, n \in B : m.ev = n.ev => m = n
    BY <2>1
  <2>4. \A e \in X : \E m \in B : m.ev = e
    BY <2>2
  <2>5. EventsOf(B) = X
    BY <2>3, <2>4 DEF EventsOf
  <2>6. B \in SUBSET Entry
    BY EntryTypes
  <2> QED BY <2>3, <2>4, <2>5, <2>6
<1> HIDE DEF B
<1>2. /\ Queued' = Queued /\ InDLQ' = InDLQ
  BY DEF Queued, InDLQ
<1>3. X \subseteq Early /\ X \cap Queued = {} /\ Early' = Early \ X
  BY <1>2 DEF Early, FlowInv, Apart
<1>4. \A m \in B : m \notin Pipe
  BY <1>1, <1>3 DEF FlowInv, Accounts, Distinct
<1>5. PICK N, G : /\ Spread(chan') /\ ChanEntries' = ChanEntries \cup N
                  /\ LostEvents' = LostEvents \cup G
                  /\ \/ N = B /\ G = {}
                     \/ N = {} /\ G = X
  <2>1. B \cap ChanEntries = {} /\ Spread(chan)
    BY <1>4 DEF Pipe, FlowInv, Single
  <2>2. /\ Spread(chan')
        /\ \/ ChanEntries' = ChanEntries \cup B /\ LostEvents' = LostEvents
           \/ ChanEntries' = ChanEntries /\ LostEvents' = LostEvents \cup EventsOf(B)
    BY <1>1, <2>1, AddMessagesMoves DEF B
  <2>3. CASE ChanEntries' = ChanEntries \cup B /\ LostEvents' = LostEvents
    <3>1. LostEvents' = LostEvents \cup {}
      BY <2>3
    <3> QED BY <2>2, <2>3, <3>1
  <2>4. CASE ChanEntries' = ChanEntries /\ LostEvents' = LostEvents \cup EventsOf(B)
    <3>1. ChanEntries' = ChanEntries \cup {} /\ LostEvents' = LostEvents \cup X
      BY <2>4, <1>1
    <3> QED BY <2>2, <3>1
  <2> QED BY <2>2, <2>3, <2>4
<1>6. /\ Pipe' = Pipe \cup N /\ N \cap Pipe = {}
      /\ \A m \in N : m.ev \in X /\ m.att = 0 /\ m.ev \notin G
  BY <1>1, <1>2, <1>4, <1>5 DEF Pipe
<1>7. \A m \in Pipe : m.ev \notin X /\ m.ev \in Events
  BY <1>3, PlacesTyped DEF FlowInv, Accounts, Distinct
<1>8. Single' /\ Apart'
  <2>1. N \cap (ihand \cup rhand \cup rcur \cup InDLQ) = {}
    BY <1>6 DEF Pipe
  <2>2. Single'
    BY <2>1, <1>2, <1>5 DEF FlowInv, Single
  <2> QED BY <2>2, <1>2 DEF FlowInv, Apart
<1>9. Distinct'
  BY <1>1, <1>3, <1>5, <1>6, <1>7 DEF FlowInv, Accounts, Distinct
<1>10. Live' /\ Somewhere'
  <2>1. \A e \in Early' : e \in written' /\ e \notin LostEvents'
    BY <1>3, <1>5 DEF FlowInv, Accounts, Live
  <2>2. \A m \in Pipe' : m.ev \in written' /\ (m.ev \in LostEvents' => rok' /\ m \in rcur')
    BY <1>3, <1>5, <1>6, <1>7 DEF FlowInv, Accounts, Live
  <2>3. LostEvents' \subseteq written'
    BY <1>3, <1>5 DEF FlowInv, Accounts, Live
  <2>4. Somewhere'
    <3> SUFFICES ASSUME NEW e \in written, ~(rows'[e] > 0), e \notin LostEvents', e \notin Early'
                 PROVE  \E m \in Pipe' : m.ev = e
      BY DEF Somewhere
    <3>1. CASE e \in X
      BY <3>1, <1>1, <1>5, <1>6
    <3>2. CASE e \notin X
      <4>1. rows'[e] = rows[e] /\ e \notin Early /\ e \notin LostEvents
        BY <3>2, <1>3, <1>5 DEF FirstTry, TypeOK
      <4>2. \E m \in Pipe : m.ev = e
        BY <4>1 DEF FlowInv, Accounts, Somewhere
      <4> QED BY <4>2, <1>6
    <3> QED BY <3>1, <3>2
  <2> QED BY <2>1, <2>2, <2>3, <2>4 DEF Live
<1>11. UntriedOK'
  <2>1. \A e \in X : e \in written
    BY <1>3 DEF FlowInv, Accounts, Live
  <2>2. \A e \in Events \ written : Untried(e)'
    BY <2>1 DEF FirstTry, FlowInv, Accounts, UntriedOK, Untried
  <2>3. \A e \in Queued' \cup bad' : e \in Events /\ e \notin X /\ e \in Queued \cup bad
    BY <1>2, <1>3, PlacesTyped DEF TypeOK
  <2>4. \A e \in Queued' \cup bad' : Untried(e)'
    BY <2>3 DEF FirstTry, FlowInv, Accounts, UntriedOK, Untried
  <2> QED BY <2>2, <2>4 DEF UntriedOK, Untried
<1>12. LedgersOK'
  <2>1. \A m \in N : tries'[m.ev] <= m.att + 1 /\ InsertedOnce(m)' /\ m.att = 0
    BY <1>6 DEF FirstTry, InsertedOnce
  <2>2. \A m \in Pipe : tries'[m.ev] = tries[m.ev] /\ rows'[m.ev] = rows[m.ev]
    BY <1>7 DEF FirstTry
  <2>3. \A m \in Pipe : InsertedOnce(m) => InsertedOnce(m)'
    BY <2>2 DEF FirstTry, InsertedOnce
  <2>4. \A m \in Pipe' : m.att = 0 \/ m.att < MaxRetries
    BY <1>6, <2>1 DEF FlowInv, Accounts, LedgersOK
  <2>5. \A m \in Pipe' \ rcur' : tries'[m.ev] <= m.att + 1 /\ InsertedOnce(m)'
    BY <1>6, <2>1, <2>2, <2>3 DEF FlowInv, Accounts, LedgersOK
  <2>6. \A m \in rcur' : m \in Pipe /\ tries'[m.ev] <= m.att + 2 /\ (rok' \/ InsertedOnce(m)')
    BY <2>2, <2>3 DEF FlowInv, Accounts, LedgersOK, Pipe
  <2> QED BY <2>4, <2>5, <2>6 DEF LedgersOK, InsertedOnce
<1>13. RetryBudget' /\ DuplicateOnlyIfAmbiguous'
  <2> SUFFICES ASSUME NEW e \in Events
               PROVE  /\ tries'[e] <= 1 + (IF MaxRetries = 0 THEN 1 ELSE MaxRetries)
                      /\ rows'[e] > 1 => e \in ambiguous'
    BY DEF RetryBudget, DuplicateOnlyIfAmbiguous
  <2>0. tries'[e] \in Nat /\ rows'[e] \in Nat
    BY DEF TypeOK
  <2>1. CASE e \in X
    BY <2>0, <2>1, ConstantTypes DEF FirstTry
  <2>2. CASE e \notin X
    BY <2>2 DEF FirstTry, FlowInv, Accounts, RetryBudget, DuplicateOnlyIfAmbiguous
  <2> QED BY <2>1, <2>2
<1> QED BY <1>8, <1>9, <1>10, <1>11, <1>12, <1>13 DEF Accounts

LEMMA RejectMalformedFlow ==
  ASSUME TypeOK, TypeOK', FlowInv, RejectMalformed PROVE FlowInv'
<1>1. /\ bpc = "reject" /\ AddMessages(Fresh(bad)) /\ bad' = {} /\ bpc' = "top"
      /\ UNCHANGED <<written, queued, hand, dlq, ihand, rpc, rhand, rcur, rok, phase, tableVars>>
  BY DEF RejectMalformed
<1>2. hand = {} /\ hand' = {}
  BY <1>1 DEF FlowInv, InHand
<1>3. FirstTry(bad)
  <2>1. \A e \in bad : tries[e] = 0 /\ rows[e] = 0
    BY DEF FlowInv, Accounts, UntriedOK, Untried
  <2> QED BY <1>1, <2>1 DEF FirstTry
<1>4. Single' /\ Apart' /\ Accounts'
  BY <1>1, <1>2, <1>3, HandedOver DEF TypeOK
<1>5. InHand' /\ Sent'
  BY <1>1, <1>2, AddMessagesLoses DEF FlowInv, InHand, Sent
<1> QED BY <1>4, <1>5 DEF FlowInv

LEMMA WriteToClickhouseFlow ==
  ASSUME TypeOK, TypeOK', FlowInv, WriteToClickhouse PROVE FlowInv'
<1>1. /\ bpc = "insert" /\ phase # "down"
      /\ UNCHANGED <<written, queued, bad, dlq, ihand, rpc, rhand, rcur, rok, phase>>
  BY DEF WriteToClickhouse, Up
<1>2. \A e \in hand : e \in Events /\ tries[e] = 0 /\ rows[e] = 0
  BY <1>1 DEF FlowInv, Accounts, UntriedOK, Untried, TypeOK
<1>3. ASSUME NEW kept \in SUBSET hand, InsertSucceeds(hand, kept), bpc' = "ack",
             UNCHANGED <<hand, chan>>
      PROVE  FlowInv'
  <2>1. /\ Pipe' = Pipe /\ Early' = Early /\ Queued' = Queued /\ InDLQ' = InDLQ
        /\ ChanEntries' = ChanEntries /\ LostEvents' = LostEvents \cup (hand \ kept)
    BY <1>1, <1>3, GoneLost DEF Pipe, Early, Queued, InDLQ, ChanEntries, InsertSucceeds
  <2>2. /\ \A e \in hand : tries'[e] = 1 /\ rows'[e] = IF e \in kept THEN 1 ELSE 0
        /\ \A e \in Events \ hand : tries'[e] = tries[e] /\ rows'[e] = rows[e]
        /\ ambiguous' = ambiguous
    BY <1>2, <1>3 DEF InsertSucceeds, InsertBatch, TypeOK
  <2>3. \A m \in Pipe : m.ev \in Events \ hand
    BY PlacesTyped DEF FlowInv, Accounts, Distinct, Early
  <2>10. \A m \in rcur : rok => rows'[m.ev] > 0 \/ m.ev \in LostEvents'
    BY <2>1, <2>2, <2>3 DEF FlowInv, Sent, Pipe
  <2>4. Single' /\ Apart' /\ InHand' /\ Sent'
    <3>1. Single' /\ Apart' /\ InHand'
      BY <1>1, <1>3, <2>1 DEF FlowInv, Single, Apart, InHand
    <3>2. Sent'
      BY <1>1, <1>3, <2>1, <2>2, <2>10 DEF Sent
    <3> QED BY <3>1, <3>2
  <2>5. Distinct' /\ Live'
    <3>1. hand \subseteq Early
      BY DEF Early
    <3>2. \A e \in Early : e \in LostEvents' => e \in hand
      BY <1>1, <2>1 DEF FlowInv, Accounts, Live
    <3>3. \A m \in Pipe : m.ev \in LostEvents' => rok /\ m \in rcur
      BY <2>1, <2>3 DEF FlowInv, Accounts, Live
    <3> QED BY <1>1, <1>3, <2>1, <3>1, <3>2, <3>3 DEF FlowInv, Accounts, Distinct, Live
  <2>6. Somewhere'
    <3>1. \A e \in Events \ hand : rows[e] > 0 => rows'[e] > 0
      BY <2>2
    <3>2. hand \subseteq Early
      BY DEF Early
    <3> QED BY <1>1, <2>1, <3>1, <3>2 DEF FlowInv, Accounts, Somewhere, TypeOK
  <2>7. UntriedOK'
    <3>1. \A e \in (Events \ written) \cup Queued \cup bad : e \in Events \ hand
      BY PlacesTyped DEF FlowInv, Apart, Accounts, Live, Early, TypeOK
    <3> QED BY <1>1, <1>3, <2>1, <2>2, <3>1 DEF FlowInv, Accounts, UntriedOK, Untried
  <2>8. LedgersOK'
    BY <1>1, <2>1, <2>2, <2>3 DEF FlowInv, Accounts, LedgersOK, InsertedOnce, Pipe
  <2>9. RetryBudget' /\ DuplicateOnlyIfAmbiguous'
    <3>1. \A e \in Events : tries'[e] = tries[e] \/ tries'[e] = 1
      BY <2>2
    <3>2. \A e \in Events : rows'[e] = rows[e] \/ rows'[e] <= 1
      BY <2>2
    <3>3. \A e \in Events : tries'[e] \in Nat /\ rows'[e] \in Nat
      BY DEF TypeOK
    <3> QED BY <2>2, <3>1, <3>2, <3>3, ConstantTypes
            DEF FlowInv, Accounts, RetryBudget, DuplicateOnlyIfAmbiguous
  <2> QED BY <2>4, <2>5, <2>6, <2>7, <2>8, <2>9 DEF FlowInv, Accounts
<1>4. ASSUME NEW kept \in SUBSET hand, InsertFails(hand, kept), AddMessages(Fresh(hand)),
             hand' = {}, bpc' = AfterRows
      PROVE  FlowInv'
  <2>1. FirstTry(hand)
    <3>1. PICK result \in {"refused", "ambiguous"} : InsertBatch(hand, kept, result)
      BY <1>4 DEF InsertFails
    <3>2. \A e \in hand : tries'[e] = 1
      BY <1>2, <3>1 DEF InsertBatch
    <3>3. \A e \in hand : \/ rows'[e] = 0
                          \/ rows'[e] = 1 /\ e \in ambiguous'
      <4>1. CASE result = "refused"
        BY <1>2, <3>1, <4>1 DEF InsertBatch
      <4>2. CASE result = "ambiguous"
        <5>1. \A e \in hand : rows'[e] = 1 \/ rows'[e] = 0
          BY <1>2, <3>1, <4>2 DEF InsertBatch
        <5>2. ambiguous' = ambiguous \cup hand
          BY <3>1, <4>2 DEF InsertBatch
        <5> QED BY <5>1, <5>2
      <4> QED BY <4>1, <4>2
    <3>4. \A e \in Events \ hand : tries'[e] = tries[e] /\ rows'[e] = rows[e]
      BY <3>1 DEF InsertBatch
    <3>5. ambiguous \subseteq ambiguous'
      BY <3>1 DEF InsertBatch
    <3> QED BY <3>2, <3>3, <3>4, <3>5 DEF FirstTry
  <2>2. hand \cap bad = {}
    BY DEF FlowInv, Apart
  <2>3. Single' /\ Apart' /\ Accounts'
    BY <1>1, <1>4, <2>1, <2>2, HandedOver DEF TypeOK
  <2>4. InHand' /\ Sent'
    <3>1. \A m \in rcur : rok => rows'[m.ev] > 0 \/ m.ev \in LostEvents'
      <4>1. \A m \in rcur : m.ev \in Events \ hand
        BY PlacesTyped DEF FlowInv, Accounts, Distinct, Early, Pipe
      <4>2. LostEvents \subseteq LostEvents'
        BY <1>4, AddMessagesLoses
      <4> QED BY <2>1, <4>1, <4>2 DEF FirstTry, FlowInv, Sent
    <3> QED BY <1>1, <1>4, <3>1 DEF FlowInv, InHand, Sent, AfterRows
  <2> QED BY <2>3, <2>4 DEF FlowInv
<1> QED BY <1>3, <1>4 DEF WriteToClickhouse

LEMMA RetryInsertFlow ==
  ASSUME TypeOK, TypeOK', FlowInv, NEW m \in rhand, RetryInsert(m) PROVE FlowInv'
<1>1. /\ rpc = "retry" /\ rhand' = rhand \ {m} /\ rcur' = {m} /\ rpc' = "ack" /\ phase # "down"
      /\ UNCHANGED <<written, queued, hand, bad, bpc, chan, ihand, dlq, phase>>
  BY DEF RetryInsert, Up
<1>2. PICK kept \in SUBSET {m.ev}, result \in {"ok", "refused", "ambiguous"} :
         /\ InsertBatch({m.ev}, kept, result)
         /\ \/ /\ result = "ok" /\ rok' = TRUE
               /\ LostEvents' = LostEvents \cup ({m.ev} \ kept)
            \/ /\ result \in {"refused", "ambiguous"} /\ rok' = FALSE
               /\ LostEvents' = LostEvents
  <2>1. PICK kept \in SUBSET {m.ev} :
           \/ InsertSucceeds({m.ev}, kept) /\ rok' = TRUE
           \/ InsertFails({m.ev}, kept) /\ rok' = FALSE /\ lost' = lost
    BY DEF RetryInsert
  <2>2. CASE InsertSucceeds({m.ev}, kept) /\ rok' = TRUE
    BY <2>2, GoneLost DEF InsertSucceeds
  <2>3. CASE InsertFails({m.ev}, kept) /\ rok' = FALSE /\ lost' = lost
    BY <2>3 DEF InsertFails, LostEvents
  <2> QED BY <2>1, <2>2, <2>3
<1>3. rcur = {} /\ m \in Pipe /\ m.ev \in Events
  BY <1>1, PlacesTyped DEF FlowInv, InHand, Pipe
<1>4. /\ tries'[m.ev] = tries[m.ev] + 1
      /\ rows'[m.ev] = IF m.ev \in kept /\ result # "refused"
                      THEN rows[m.ev] + 1 ELSE rows[m.ev]
      /\ \A e \in Events \ {m.ev} : tries'[e] = tries[e] /\ rows'[e] = rows[e]
      /\ ambiguous' = IF result = "ambiguous" THEN ambiguous \cup {m.ev} ELSE ambiguous
  <2>1. InsertBatch({m.ev}, kept, result)
    BY <1>2
  <2>2. tries'[m.ev] = tries[m.ev] + 1 /\ \A e \in Events \ {m.ev} : tries'[e] = tries[e]
    BY <2>1, <1>3 DEF InsertBatch
  <2>4. \A e \in Events \ {m.ev} : rows'[e] = rows[e]
    BY <2>1 DEF InsertBatch
  <2>5. rows'[m.ev] = IF m.ev \in kept /\ result # "refused"
                      THEN rows[m.ev] + 1 ELSE rows[m.ev]
    BY <2>1, <1>3 DEF InsertBatch
  <2> QED BY <2>1, <2>2, <2>4, <2>5 DEF InsertBatch
<1>5. tries[m.ev] \in Nat /\ rows[m.ev] \in Nat /\ m.att \in Nat
  BY <1>3, PlacesTyped
<1>6. /\ Queued' = Queued /\ InDLQ' = InDLQ /\ ChanEntries' = ChanEntries
      /\ Early' = Early /\ Pipe' = Pipe
  BY <1>1, <1>3 DEF Pipe, Early, Queued, InDLQ, ChanEntries
<1>7. /\ tries[m.ev] <= m.att + 1 /\ InsertedOnce(m) /\ (m.att = 0 \/ m.att < MaxRetries)
  BY <1>3 DEF FlowInv, Accounts, LedgersOK
<1>8. \A n \in Pipe \ {m} : n.ev \in Events \ {m.ev}
  BY <1>3, PlacesTyped DEF FlowInv, Accounts, Distinct
<1>9. m.ev \notin Early /\ m.ev \in written
  BY <1>3 DEF FlowInv, Accounts, Distinct, Live
<1>10. Single' /\ Apart'
  <2>1. /\ InDLQ \cap (ChanEntries \cup ihand \cup (rhand \ {m}) \cup {m}) = {}
        /\ ChanEntries \cap (ihand \cup (rhand \ {m}) \cup {m}) = {}
        /\ ihand \cap ((rhand \ {m}) \cup {m}) = {} /\ (rhand \ {m}) \cap {m} = {}
    BY DEF FlowInv, Single
  <2> QED BY <1>1, <1>6, <2>1 DEF Single, Apart, FlowInv
<1>11. InHand'
  BY <1>1 DEF FlowInv, InHand
<1>12. Sent'
  <2>1. bpc = "ack" => \A e \in hand : rows'[e] > 0 \/ e \in LostEvents'
    <3>1. \A e \in hand : e \in Events \ {m.ev}
      BY <1>9 DEF Early, TypeOK
    <3> QED BY <1>2, <1>4, <3>1 DEF FlowInv, Sent
  <2>2. CASE result = "ok"
    <3>1. rows'[m.ev] > 0 \/ m.ev \in LostEvents'
      BY <1>2, <1>4, <1>5, <2>2
    <3> QED BY <1>1, <2>1, <3>1 DEF Sent
  <2>3. CASE rok' = FALSE
    BY <1>1, <2>1, <2>3 DEF Sent
  <2> QED BY <1>2, <2>2, <2>3
<1>13. Distinct' /\ Live' /\ Somewhere'
  <2>1. \A e \in Events : rows[e] > 0 => rows'[e] > 0
    BY <1>4, <1>5
  <2>2. Distinct' /\ Somewhere'
    BY <1>1, <1>2, <1>6, <2>1 DEF FlowInv, Accounts, Distinct, Somewhere, TypeOK
  <2>3. \A x : x \in LostEvents' => x \in LostEvents \/ (x = m.ev /\ rok' = TRUE)
    BY <1>2
  <2>4. \A n \in Pipe : n.ev \notin LostEvents
    BY <1>3 DEF FlowInv, Accounts, Live
  <2>5. \A n \in Pipe' : n.ev \in LostEvents' => rok' /\ n \in rcur'
    BY <1>1, <1>6, <1>8, <2>3, <2>4
  <2>6. \A x \in Early' : x \in LostEvents' => x \in LostEvents
    BY <1>6, <1>9, <2>3
  <2>7. LostEvents' \subseteq written' /\ \A n \in Pipe' : n.ev \in written'
    BY <1>1, <1>6, <1>9, <2>3 DEF FlowInv, Accounts, Live
  <2>8. Live'
    BY <1>1, <1>6, <2>5, <2>6, <2>7 DEF FlowInv, Accounts, Live
  <2> QED BY <2>2, <2>8
<1>14. UntriedOK'
  <2>1. \A e \in (Events \ written) \cup Early : e \in Events \ {m.ev}
    BY <1>9, PlacesTyped
  <2> QED BY <1>1, <1>4, <1>6, <2>1 DEF FlowInv, Accounts, UntriedOK, Untried, Early
<1>15. LedgersOK'
  <2>1. \A n \in Pipe : n.att = 0 \/ n.att < MaxRetries
    BY DEF FlowInv, Accounts, LedgersOK
  <2>2. \A n \in Pipe \ {m} : tries'[n.ev] <= n.att + 1 /\ InsertedOnce(n)'
    <3>1. \A n \in Pipe \ {m} : tries[n.ev] <= n.att + 1 /\ InsertedOnce(n)
      BY <1>3 DEF FlowInv, Accounts, LedgersOK
    <3> QED BY <1>4, <1>8, <3>1 DEF InsertedOnce
  <2>3. tries'[m.ev] <= m.att + 2
    BY <1>4, <1>5, <1>7
  <2>4. rok' \/ InsertedOnce(m)'
    <3>1. CASE result = "refused"
      BY <1>4, <1>7, <3>1 DEF InsertedOnce
    <3>2. CASE result = "ambiguous"
      BY <1>4, <3>2 DEF InsertedOnce
    <3> QED BY <1>2, <3>1, <3>2
  <2> QED BY <1>1, <1>6, <2>1, <2>2, <2>3, <2>4 DEF LedgersOK, InsertedOnce
<1>16. RetryBudget'
  <2>1. tries'[m.ev] <= 1 + (IF MaxRetries = 0 THEN 1 ELSE MaxRetries)
    BY <1>4, <1>5, <1>7, ConstantTypes
  <2> QED BY <1>4, <2>1 DEF FlowInv, Accounts, RetryBudget
<1>17. DuplicateOnlyIfAmbiguous'
  <2>1. rows'[m.ev] > 1 => m.ev \in ambiguous'
    BY <1>4, <1>5, <1>7 DEF InsertedOnce
  <2>2. ambiguous \subseteq ambiguous'
    BY <1>4
  <2> QED BY <1>4, <2>1, <2>2 DEF FlowInv, Accounts, DuplicateOnlyIfAmbiguous
<1> QED BY <1>10, <1>11, <1>12, <1>13, <1>14, <1>15, <1>16, <1>17 DEF FlowInv, Accounts

(* A message that retryOne cannot read leaves, and its entry is given up.    *)
LEMMA RetryDropFlow ==
  ASSUME TypeOK, TypeOK', FlowInv, NEW m \in rhand, RetryDrop(m) PROVE FlowInv'
<1>1. /\ rpc = "retry" /\ rhand' = rhand \ {m} /\ phase # "down"
      /\ rpc' = IF rhand = {m} THEN "tick" ELSE "retry"
      /\ UNCHANGED <<written, queued, hand, bad, bpc, chan, ihand, rcur, rok, dlq, phase,
                     tableVars>>
  BY DEF RetryDrop, Up
<1>2. LostEvents' = LostEvents \cup {m.ev}
  BY GoneLost DEF RetryDrop
<1>3. rcur = {} /\ m \in Pipe /\ m.ev \in written /\ m.ev \notin Early
  BY <1>1 DEF FlowInv, InHand, Pipe, Accounts, Live, Distinct
<1>4. Queued' = Queued /\ InDLQ' = InDLQ /\ ChanEntries' = ChanEntries /\ Early' = Early
  BY <1>1 DEF Early, Queued, InDLQ, ChanEntries
<1>5. Pipe' = Pipe \ {m}
  <2>1. m \notin ChanEntries \cup ihand \cup rcur \cup InDLQ
    BY DEF FlowInv, Single
  <2> QED BY <1>1, <1>4, <2>1 DEF Pipe
<1>6. Shrinks({m.ev})
  <2>1. \A n \in Pipe' : n.ev \notin {m.ev}
    BY <1>3, <1>5 DEF FlowInv, Accounts, Distinct
  <2> QED BY <2>1, <1>1, <1>2, <1>3, <1>4, <1>5 DEF Shrinks
<1>7. Single' /\ Apart'
  <2>1. /\ InDLQ \cap (ChanEntries \cup ihand \cup rhand' \cup rcur) = {}
        /\ ChanEntries \cap (ihand \cup rhand' \cup rcur) = {}
        /\ ihand \cap (rhand' \cup rcur) = {} /\ rhand' \cap rcur = {}
    BY <1>1 DEF FlowInv, Single
  <2> QED BY <1>1, <1>4, <2>1 DEF FlowInv, Single, Apart
<1>8. InHand' /\ Sent'
  BY <1>1, <1>2, <1>3 DEF FlowInv, InHand, Sent
<1> QED BY <1>6, <1>7, <1>8, ShrinkKeeps DEF FlowInv

(* The outcome of a retry: the message leaves, or comes back with the next   *)
(* number on its ledger.                                                     *)
LEMMA RetryAckFlow ==
  ASSUME TypeOK, TypeOK', FlowInv, RetryAck PROVE FlowInv'
<1>1. /\ rpc = "ack" /\ rcur' = {} /\ rok' = FALSE /\ phase # "down"
      /\ rpc' = IF rhand = {} THEN "tick" ELSE "retry"
      /\ UNCHANGED <<written, queued, hand, bad, bpc, ihand, rhand, dlq, phase, tableVars>>
  BY DEF RetryAck, Up
<1>2. PICK m \in rcur : Outcome(m)
  BY DEF RetryAck
<1>3. /\ rcur = {m} /\ m \in Pipe /\ m.ev \in Events /\ m.att \in Nat
      /\ m.ev \in written /\ m.ev \notin Early /\ (m.ev \in LostEvents => rok)
  BY PlacesTyped DEF FlowInv, InHand, Pipe, Accounts, Live, Distinct
<1>4. Queued' = Queued /\ InDLQ' = InDLQ /\ Early' = Early
  BY <1>1 DEF Early, Queued, InDLQ
<1>5. /\ Pipe' = ChanEntries' \cup ((Pipe \ {m}) \ ChanEntries)
      /\ m \notin ChanEntries /\ ChanEntries \subseteq Pipe
  BY <1>1, <1>3, <1>4 DEF Pipe, FlowInv, Single
<1>6. Apart' /\ InHand' /\ Sent'
  <2>1. LostEvents \subseteq LostEvents'
    <3>1. CASE lost' = lost
      BY <3>1 DEF LostEvents
    <3>2. CASE Gone({m.ev}, "dropped")
      BY <3>2, GoneGrows
    <3>3. CASE AddMessages({[ev |-> m.ev, att |-> m.att + 1]})
      BY <3>3, AddMessagesLoses
    <3> QED BY <1>2, <3>1, <3>2, <3>3 DEF Outcome
  <2> QED BY <1>1, <1>4, <2>1 DEF FlowInv, Apart, InHand, Sent
<1>7. ASSUME chan' = chan, NEW G, LostEvents' = LostEvents \cup G, G \subseteq {m.ev},
             m.ev \in G \/ rows[m.ev] > 0 \/ m.ev \in LostEvents
      PROVE  FlowInv'
  <2>1. ChanEntries' = ChanEntries /\ Pipe' = Pipe \ {m}
    BY <1>5, <1>7 DEF ChanEntries
  <2>2. Shrinks(G)
    <3>1. \A n \in Pipe' : n.ev \notin G
      BY <1>3, <1>7, <2>1 DEF FlowInv, Accounts, Distinct
    <3>2. \A n \in Pipe \ Pipe' : n.ev \in G \/ rows[n.ev] > 0 \/ n.ev \in LostEvents
      BY <1>7, <2>1
    <3>3. Pipe' \subseteq Pipe /\ Pipe' \cap rcur = {} /\ G \subseteq written
      BY <1>3, <1>7, <2>1
    <3>4. \A e \in Early' : e \notin G
      BY <1>3, <1>4, <1>7
    <3> QED BY <3>1, <3>2, <3>3, <3>4, <1>1, <1>4, <1>7 DEF Shrinks
  <2>3. Single'
    BY <1>1, <1>4, <1>7, <2>1 DEF FlowInv, Single
  <2> QED BY <1>6, <2>2, <2>3, ShrinkKeeps DEF FlowInv
<1>8. CASE rok
  <2>1. chan' = chan /\ LostEvents' = LostEvents \cup {}
        /\ (rows[m.ev] > 0 \/ m.ev \in LostEvents)
    BY <1>2, <1>8 DEF Outcome, LostEvents, FlowInv, Sent
  <2> QED BY <2>1, <1>7
<1>9. CASE ~rok /\ GiveUp(m)
  <2>1. chan' = chan /\ LostEvents' = LostEvents \cup {m.ev}
    BY <1>2, <1>9, GoneLost DEF Outcome
  <2> QED BY <2>1, <1>7
<1>10. CASE ~rok /\ ~GiveUp(m)
  <2> DEFINE n == [ev |-> m.ev, att |-> m.att + 1]
  <2>1. n.ev = m.ev /\ n.att = m.att + 1 /\ n \in Entry /\ EventsOf({n}) = {m.ev}
    BY <1>3, EntryTypes DEF EventsOf
  <2>2. AddMessages({n})
    BY <1>2, <1>10 DEF Outcome
  <2> HIDE DEF n
  <2>3. n # m /\ n \notin Pipe
    BY <1>3, <2>1 DEF FlowInv, Accounts, Distinct
  <2>4. /\ Spread(chan')
        /\ \/ ChanEntries' = ChanEntries \cup {n} /\ LostEvents' = LostEvents
           \/ ChanEntries' = ChanEntries /\ LostEvents' = LostEvents \cup {m.ev}
    <3>1. {n} \cap ChanEntries = {} /\ Spread(chan) /\ {n} \in SUBSET Entry
      BY <1>5, <2>1, <2>3 DEF FlowInv, Single
    <3> QED BY <2>1, <2>2, <3>1, AddMessagesMoves
  <2>5. CASE ChanEntries' = ChanEntries /\ LostEvents' = LostEvents \cup {m.ev}
    <3>1. Pipe' = Pipe \ {m}
      BY <1>5, <2>5
    <3>2. Shrinks({m.ev})
      <4>1. \A k \in Pipe' : k.ev \notin {m.ev}
        BY <1>3, <3>1 DEF FlowInv, Accounts, Distinct
      <4>2. Pipe' \subseteq Pipe /\ Pipe' \cap rcur = {} /\ \A k \in Pipe \ Pipe' : k.ev \in {m.ev}
        BY <1>3, <3>1
      <4> QED BY <4>1, <4>2, <1>1, <1>3, <1>4, <2>5 DEF Shrinks
    <3>3. Single'
      BY <1>1, <1>4, <2>4, <2>5 DEF FlowInv, Single
    <3> QED BY <1>6, <3>2, <3>3, ShrinkKeeps DEF FlowInv
  <2>6. CASE ChanEntries' = ChanEntries \cup {n} /\ LostEvents' = LostEvents
    <3>1. Pipe' = (Pipe \ {m}) \cup {n}
      BY <1>5, <2>6
    <3>2. Single'
      <4>1. n \notin ihand \cup rhand \cup InDLQ
        BY <2>3 DEF Pipe
      <4> QED BY <4>1, <1>1, <1>4, <2>4, <2>6 DEF FlowInv, Single
    <3>3. Distinct'
      BY <1>3, <1>4, <2>1, <3>1 DEF FlowInv, Accounts, Distinct
    <3>4. Live' /\ Somewhere'
      <4>1. \A k \in Pipe' : k.ev \in written' /\ k.ev \notin LostEvents'
        BY <1>1, <1>3, <1>10, <2>1, <2>6, <3>1 DEF FlowInv, Accounts, Live
      <4>2. Live'
        BY <1>1, <1>4, <2>6, <4>1 DEF FlowInv, Accounts, Live
      <4>3. Somewhere'
        BY <1>1, <1>3, <1>4, <2>1, <2>6, <3>1 DEF FlowInv, Accounts, Somewhere
      <4> QED BY <4>2, <4>3
    <3>5. UntriedOK'
      BY <1>1, <1>4 DEF FlowInv, Accounts, UntriedOK, Untried
    <3>6. LedgersOK'
      <4>1. n.att < MaxRetries
        BY <1>3, <1>10, <2>1, ConstantTypes DEF GiveUp
      <4>2. tries[n.ev] <= n.att + 1 /\ InsertedOnce(n)
        <5>1. tries[m.ev] <= m.att + 2 /\ InsertedOnce(m) /\ tries[m.ev] \in Nat
          BY <1>3, <1>10, PlacesTyped DEF FlowInv, Accounts, LedgersOK
        <5> QED BY <1>3, <2>1, <5>1 DEF InsertedOnce
      <4>3. \A k \in Pipe \ {m} : tries[k.ev] <= k.att + 1 /\ InsertedOnce(k)
        BY <1>3 DEF FlowInv, Accounts, LedgersOK
      <4>4. \A k \in Pipe' : k.att = 0 \/ k.att < MaxRetries
        BY <3>1, <4>1 DEF FlowInv, Accounts, LedgersOK
      <4>5. \A k \in Pipe' : tries'[k.ev] <= k.att + 1 /\ InsertedOnce(k)'
        BY <1>1, <3>1, <4>2, <4>3 DEF InsertedOnce
      <4> QED BY <1>1, <4>4, <4>5 DEF LedgersOK, InsertedOnce
    <3>7. RetryBudget' /\ DuplicateOnlyIfAmbiguous'
      BY <1>1 DEF FlowInv, Accounts, RetryBudget, DuplicateOnlyIfAmbiguous
    <3> QED BY <1>6, <3>2, <3>3, <3>4, <3>5, <3>6, <3>7 DEF FlowInv, Accounts
  <2> QED BY <2>4, <2>5, <2>6
<1> QED BY <1>8, <1>9, <1>10

LEMMA FlowStep ==
  ASSUME TypeOK, TypeOK', FlowInv, [Next]_vars PROVE FlowInv'
<1>1. CASE BatchTop
  <2>1. hand = {} /\ InHand'
    BY <1>1 DEF BatchTop, FlowInv, InHand
  <2> QED BY <1>1, <2>1, QuietKeeps DEF BatchTop
<1>2. CASE ReadNothing
  <2>1. hand = {} /\ InHand'
    BY <1>2 DEF ReadNothing, FlowInv, InHand
  <2> QED BY <1>2, <2>1, QuietKeeps DEF ReadNothing
<1>3. CASE IngestStop
  <2>1. InHand'
    BY <1>3 DEF IngestStop, FlowInv, InHand
  <2> QED BY <1>3, <2>1, QuietKeeps DEF IngestStop
<1>4. CASE RetryTick
  <2>1. InHand'
    BY <1>4 DEF RetryTick, FlowInv, InHand
  <2> QED BY <1>4, <2>1, QuietKeeps DEF RetryTick
<1>5. CASE RetryReadError
  <2>1. InHand'
    BY <1>5 DEF RetryReadError, FlowInv, InHand
  <2> QED BY <1>5, <2>1, QuietKeeps DEF RetryReadError
<1>6. CASE RetryStop
  <2>1. InHand'
    BY <1>6 DEF RetryStop, FlowInv, InHand
  <2> QED BY <1>6, <2>1, QuietKeeps DEF RetryStop
<1>7. CASE SigTerm
  <2>1. InHand'
    BY <1>7 DEF SigTerm, FlowInv, InHand
  <2> QED BY <1>7, <2>1, QuietKeeps DEF SigTerm
<1>8. CASE Restart
  <2>1. hand = {} /\ InHand'
    BY <1>8 DEF Restart, FlowInv, InHand
  <2> QED BY <1>8, <2>1, QuietKeeps DEF Restart
<1>9. CASE UNCHANGED vars
  <2>1. InHand'
    BY <1>9 DEF vars, FlowInv, InHand
  <2> QED BY <1>9, <2>1, QuietKeeps DEF vars
<1>10. ASSUME NEW e \in Events, WriteToBatchStream(e) PROVE FlowInv'
  BY <1>10, WriteToBatchStreamFlow
<1>11. CASE ReadBatch
  BY <1>11, ReadBatchFlow
<1>12. CASE WriteToClickhouse
  BY <1>12, WriteToClickhouseFlow
<1>13. CASE AckRedisMessages
  BY <1>13, AckRedisMessagesFlow
<1>14. CASE RejectMalformed
  BY <1>14, RejectMalformedFlow
<1>15. CASE IngestTake
  BY <1>15, IngestTakeFlow
<1>16. ASSUME NEW m \in ihand, IngestWrite(m) PROVE FlowInv'
  BY <1>16, IngestWriteFlow
<1>17. CASE RetryRead
  BY <1>17, RetryReadFlow
<1>18. ASSUME NEW m \in rhand, RetryInsert(m) PROVE FlowInv'
  BY <1>18, RetryInsertFlow
<1>21. ASSUME NEW m \in rhand, RetryDrop(m) PROVE FlowInv'
  BY <1>21, RetryDropFlow
<1>19. CASE RetryAck
  BY <1>19, RetryAckFlow
<1>20. CASE Exit \/ Crash \/ Kill
  BY <1>20, GoDownFlow DEF Exit, Crash, Kill
<1> QED
  BY <1>1, <1>2, <1>3, <1>4, <1>5, <1>6, <1>7, <1>8, <1>9, <1>10, <1>11, <1>12,
     <1>13, <1>14, <1>15, <1>16, <1>17, <1>18, <1>19, <1>20, <1>21
     DEF Next, BatchNext, IngestNext, RetryNext, ProcessNext

LEMMA SpecFlow == Spec => [](TypeOK /\ FlowInv)
<1>1. Init => TypeOK /\ FlowInv
  BY TypeInit, FlowInit
<1>2. TypeOK /\ FlowInv /\ [Next]_vars => TypeOK' /\ FlowInv'
  BY TypeStep, FlowStep
<1> QED BY <1>1, <1>2, PTL DEF Spec

(* The ledger an entry carries through the channel, the DLQ stream and every *)
(* restart bounds its inserts by the retry limit and the first one.          *)
THEOREM RetriesBounded == Spec => []RetryBudget
<1>1. FlowInv => RetryBudget
  BY DEF FlowInv, Accounts
<1> QED BY <1>1, SpecFlow, PTL

(* An entry has two rows only if an insert of it failed after ClickHouse had *)
(* applied it: a stored entry is nowhere a retry could find it.              *)
THEOREM OnlyAmbiguousTwice == Spec => []DuplicateOnlyIfAmbiguous
<1>1. FlowInv => DuplicateOnlyIfAmbiguous
  BY DEF FlowInv, Accounts
<1> QED BY <1>1, SpecFlow, PTL

(* An injective queue has as many elements as places.                        *)
LEMMA QueueCardinality ==
  ASSUME NEW S, NEW q \in Seq(S), Injective(q)
  PROVE  Cardinality(ElementsOf(q)) = Len(q) /\ IsFiniteSet(ElementsOf(q))
<1> DEFINE n == Len(q)
           f == [i \in 1..n |-> q[i]]
<1>1. n \in Nat /\ \A i \in 1..n : q[i] \in ElementsOf(q)
  BY DEF ElementsOf
<1>2. f \in [1..n -> ElementsOf(q)] /\ \A i \in 1..n : f[i] = q[i]
  BY <1>1
<1>3. \A i, j \in 1..n : f[i] = f[j] => i = j
  BY <1>2 DEF Injective
<1>4. \A x \in ElementsOf(q) : \E i \in 1..n : f[i] = x
  BY <1>2 DEF ElementsOf
<1> HIDE DEF f, n
<1>5. f \in Bijection(1..n, ElementsOf(q))
  BY <1>2, <1>3, <1>4 DEF Bijection, Injection, IsInjective, Surjection
<1>6. IsFiniteSet(1..n) /\ Cardinality(1..n) = n
  BY <1>1, FS_Interval
<1>7. IsFiniteSet(ElementsOf(q)) /\ Cardinality(ElementsOf(q)) = Cardinality(1..n)
  BY <1>5, <1>6, FS_Bijection DEF ExistsBijection
<1> QED BY <1>6, <1>7 DEF n

(* Messages about different entries are as many as their entries.            *)
LEMMA EventsCardinality ==
  ASSUME NEW B, IsFiniteSet(B), \A m, n \in B : m.ev = n.ev => m = n
  PROVE  Cardinality(EventsOf(B)) = Cardinality(B)
<1> DEFINE f == [m \in B |-> m.ev]
<1>1. f \in [B -> EventsOf(B)] /\ \A m \in B : f[m] = m.ev
  BY DEF EventsOf
<1>2. \A m, n \in B : f[m] = f[n] => m = n
  BY <1>1
<1>3. \A e \in EventsOf(B) : \E m \in B : f[m] = e
  BY <1>1 DEF EventsOf
<1> HIDE DEF f
<1>4. f \in Bijection(B, EventsOf(B))
  BY <1>1, <1>2, <1>3 DEF Bijection, Injection, IsInjective, Surjection
<1> QED BY <1>4, FS_Bijection DEF ExistsBijection

(* Two sets of messages apart are about different entries.                   *)
LEMMA EventsApart ==
  ASSUME Distinct, NEW A, NEW B, A \subseteq Pipe, B \subseteq Pipe, A \cap B = {}
  PROVE  EventsOf(A) \cap EventsOf(B) = {}
<1> SUFFICES ASSUME NEW e, e \in EventsOf(A), e \in EventsOf(B) PROVE FALSE
  OBVIOUS
<1>1. PICK m \in A : m.ev = e
  BY DEF EventsOf
<1>2. PICK n \in B : n.ev = e
  BY DEF EventsOf
<1> QED BY <1>1, <1>2 DEF Distinct

LEMMA EventsEarly ==
  ASSUME Distinct, NEW A, A \subseteq Pipe
  PROVE  EventsOf(A) \cap Early = {}
  BY DEF Distinct, EventsOf

LEMMA FlowOneCopy == TypeOK /\ FlowInv => OneCopy
<1> SUFFICES ASSUME TypeOK, FlowInv PROVE OneCopy
  OBVIOUS
<1> DEFINE held == ihand \cup rhand \cup rcur
<1>1. Distinct /\ Single
  BY DEF FlowInv, Accounts
<1>2. /\ InDLQ \subseteq Pipe /\ ChanEntries \subseteq Pipe /\ held \subseteq Pipe
      /\ rhand \subseteq Pipe /\ rcur \subseteq Pipe /\ ihand \subseteq Pipe
      /\ rhand \cup rcur \subseteq Pipe /\ ChanEntries \cup held \subseteq Pipe
  BY DEF Pipe
<1>3. Cardinality(InDLQ) = Len(dlq) /\ Cardinality(EventsOf(InDLQ)) = Cardinality(InDLQ)
  <2>1. dlq \in Seq(Entry) /\ Injective(dlq) /\ InDLQ = ElementsOf(dlq)
    BY <1>1, PlacesTyped DEF TypeOK, Single
  <2>2. Cardinality(InDLQ) = Len(dlq) /\ IsFiniteSet(InDLQ)
    BY <2>1, QueueCardinality
  <2>3. \A m, n \in InDLQ : m.ev = n.ev => m = n
    BY <1>1, <1>2 DEF Distinct
  <2> QED BY <2>2, <2>3, EventsCardinality
<1>4. EventsOf(InDLQ) \cap InMemory = {}
  <2>1. InMemory = hand \cup bad \cup EventsOf(ChanEntries \cup held)
    BY DEF InMemory
  <2>2. InDLQ \cap (ChanEntries \cup held) = {}
    BY <1>1 DEF Single
  <2> HIDE DEF held
  <2>3. EventsOf(InDLQ) \cap EventsOf(ChanEntries \cup held) = {}
    BY <1>1, <1>2, <2>2, EventsApart
  <2>4. EventsOf(InDLQ) \cap Early = {}
    BY <1>1, <1>2, EventsEarly
  <2> QED BY <2>1, <2>3, <2>4 DEF Early
<1>5. ASSUME NEW i \in 1..Len(chan), NEW j \in 1..Len(chan), i # j
      PROVE  EventsOf(chan[i]) \cap EventsOf(chan[j]) = {}
  <2>1. chan[i] \cap chan[j] = {}
    BY <1>1, <1>5 DEF Single, Spread
  <2>2. chan[i] \subseteq Pipe /\ chan[j] \subseteq Pipe
    BY <1>2 DEF ChanEntries
  <2> QED BY <1>1, <2>1, <2>2, EventsApart
<1>6. EventsOf(ChanEntries) \cap (hand \cup bad \cup EventsOf(held)) = {}
  <2>1. ChanEntries \cap held = {}
    BY <1>1 DEF Single
  <2> HIDE DEF held
  <2>2. EventsOf(ChanEntries) \cap EventsOf(held) = {}
    BY <1>1, <1>2, <2>1, EventsApart
  <2>3. EventsOf(ChanEntries) \cap Early = {}
    BY <1>1, <1>2, EventsEarly
  <2> QED BY <2>2, <2>3 DEF Early
<1>7. (hand \cup bad) \cap EventsOf(held) = {}
  <2> HIDE DEF held
  <2>1. EventsOf(held) \cap Early = {}
    BY <1>1, <1>2, EventsEarly
  <2> QED BY <2>1 DEF Early
<1>8. /\ EventsOf(ihand) \cap EventsOf(rhand \cup rcur) = {}
      /\ EventsOf(rhand) \cap EventsOf(rcur) = {}
  <2>1. ihand \cap (rhand \cup rcur) = {} /\ rhand \cap rcur = {}
    BY <1>1 DEF Single
  <2>2. EventsOf(ihand) \cap EventsOf(rhand \cup rcur) = {}
    BY <1>1, <1>2, <2>1, EventsApart
  <2>3. EventsOf(rhand) \cap EventsOf(rcur) = {}
    BY <1>1, <1>2, <2>1, EventsApart
  <2> QED BY <2>2, <2>3
<1> QED BY <1>3, <1>4, <1>5, <1>6, <1>7, <1>8 DEF OneCopy

(* An entry is in one place of the DLQ pipeline at a time: the stream, the   *)
(* channel, the hands of one loop.                                           *)
THEOREM OnePlace == Spec => []OneCopy
  BY SpecFlow, FlowOneCopy, PTL

-----------------------------------------------------------------------------
(* The refinement of EntryLifecycle *)

\* What an INSERT may be about: none of it is given up.
Insertable == {e \in hand : bpc = "insert"} \cup EventsOf(rhand)

\* What a step may do to the places an observer of the lifecycle sees.
Moves ==
    /\ written \subseteq written' /\ LostEvents \subseteq LostEvents'
    /\ \A e \in Events : rows'[e] >= rows[e]
    /\ \A e \in Events : rows'[e] # rows[e] => e \in Insertable
    /\ written' \ written \subseteq Queued'
    /\ Queued' \subseteq Queued \cup (written' \ written)
    /\ InDLQ' \subseteq InDLQ \cup ihand

(* A step that leaves the streams and the table alone. *)
LEMMA MovesFrame ==
  ASSUME TypeOK, UNCHANGED <<written, queued, dlq, tableVars>>, LostEvents \subseteq LostEvents'
  PROVE  Moves
<1>1. Queued' = Queued /\ InDLQ' = InDLQ
  BY DEF Queued, InDLQ
<1>2. \A e \in Events : rows[e] \in Nat
  BY DEF TypeOK
<1> QED BY <1>1, <1>2 DEF Moves

LEMMA WriteToBatchStreamMoves ==
  ASSUME TypeOK, TypeOK', NEW e \in Events, WriteToBatchStream(e) PROVE Moves
<1>1. e \notin written /\ written' = written \cup {e} /\ UNCHANGED <<dlq, tableVars>>
  BY DEF WriteToBatchStream
<1>2. /\ queued \in Seq(Events)
      /\ Queued = ElementsOf(queued) /\ Queued' = ElementsOf(queued')
  BY DEF TypeOK, Queued, ElementsOf
<1>3. e \in Queued' /\ Queued' \subseteq Queued \cup {e} /\ LostEvents \subseteq LostEvents'
  <2>1. CASE queued' = Append(queued, e) /\ lost' = lost
    <3>1. Queued' = Queued \cup {e}
      BY <2>1, <1>2, AppendElements
    <3> QED BY <2>1, <3>1 DEF LostEvents
  <2>2. CASE /\ Len(queued) >= StreamMaxLen /\ queued' = Append(Tail(queued), e)
             /\ Gone({Head(queued)}, "trimmed")
    <3> DEFINE others == Tail(queued)
    <3>1. queued # <<>>
      BY <2>2, <1>2, ConstantsOK
    <3>2. /\ others \in Seq(Events) /\ ElementsOf(others) \subseteq Queued
          /\ queued' = Append(others, e)
      BY <2>2, <3>1, <1>2, TailElements, TailIndexed
    <3> HIDE DEF others
    <3>3. ElementsOf(queued') = ElementsOf(others) \cup {e}
      BY <3>2, AppendElements
    <3>4. LostEvents \subseteq LostEvents'
      BY <2>2, GoneGrows
    <3> QED BY <3>2, <3>3, <3>4, <1>2
  <2> QED BY <2>1, <2>2 DEF WriteToBatchStream
<1>4. InDLQ' = InDLQ /\ \A x \in Events : rows'[x] = rows[x] /\ rows[x] \in Nat
  BY <1>1 DEF InDLQ, TypeOK
<1> QED BY <1>1, <1>3, <1>4 DEF Moves

LEMMA ReadMoves ==
  ASSUME TypeOK, TypeOK', FlowInv, ReadBatch \/ RetryRead PROVE Moves
<1>1. UNCHANGED <<written, tableVars>>
  BY DEF ReadBatch, RetryRead
<1>2. LostEvents \subseteq LostEvents'
  <2>1. CASE lost' = lost
    BY <2>1 DEF LostEvents
  <2>2. ASSUME NEW S, NEW c, Gone(S, c) PROVE LostEvents \subseteq LostEvents'
    BY <2>2, GoneGrows
  <2> QED BY <2>1, <2>2 DEF ReadBatch, RetryRead
<1>3. Queued' \subseteq Queued
  <2>1. CASE ReadBatch
    <3>1. queued \in Seq(Events) /\ BatchSize \in Nat /\ Injective(queued)
      BY ConstantTypes DEF TypeOK, FlowInv, Apart
    <3>2. ElementsOf(Rest(queued, BatchSize)) \subseteq ElementsOf(queued)
      BY <3>1, RestElements
    <3> QED BY <2>1, <3>2 DEF ReadBatch, Queued, ElementsOf
  <2>2. CASE RetryRead
    BY <2>2 DEF RetryRead, Queued
  <2> QED BY <2>1, <2>2
<1>4. InDLQ' \subseteq InDLQ
  <2>1. CASE RetryRead
    <3>1. dlq \in Seq(Entry) /\ DLQBatch \in Nat /\ Injective(dlq)
      BY ConstantTypes DEF TypeOK, FlowInv, Single
    <3>2. ElementsOf(Rest(dlq, DLQBatch)) \subseteq ElementsOf(dlq)
      BY <3>1, RestElements
    <3> QED BY <2>1, <3>2 DEF RetryRead, InDLQ, ElementsOf
  <2>2. CASE ReadBatch
    BY <2>2 DEF ReadBatch, InDLQ
  <2> QED BY <2>1, <2>2
<1> QED BY <1>1, <1>2, <1>3, <1>4 DEF Moves, TypeOK

LEMMA IngestWriteMoves ==
  ASSUME TypeOK, TypeOK', NEW m \in ihand, IngestWrite(m) PROVE Moves
<1>1. UNCHANGED <<written, queued, tableVars>>
  BY DEF IngestWrite
<1>2. /\ dlq \in Seq(Entry) /\ m \in Entry
      /\ InDLQ = ElementsOf(dlq) /\ InDLQ' = ElementsOf(dlq')
  BY DEF TypeOK, InDLQ, ElementsOf
<1>3. InDLQ' \subseteq InDLQ \cup {m} /\ LostEvents \subseteq LostEvents'
  <2>1. CASE dlq' = Append(dlq, m) /\ lost' = lost
    <3>1. InDLQ' = InDLQ \cup {m}
      BY <2>1, <1>2, AppendElements
    <3> QED BY <2>1, <3>1 DEF LostEvents
  <2>2. CASE /\ Len(dlq) >= DLQMaxLen /\ dlq' = Append(Tail(dlq), m)
             /\ Gone({Head(dlq).ev}, "dropped")
    <3> DEFINE others == Tail(dlq)
    <3>1. dlq # <<>>
      BY <2>2, <1>2, ConstantsOK
    <3>2. /\ others \in Seq(Entry) /\ ElementsOf(others) \subseteq InDLQ
          /\ dlq' = Append(others, m)
      BY <2>2, <3>1, <1>2, TailElements, TailIndexed
    <3> HIDE DEF others
    <3>3. ElementsOf(dlq') = ElementsOf(others) \cup {m}
      BY <3>2, <1>2, AppendElements
    <3>4. LostEvents \subseteq LostEvents'
      BY <2>2, GoneGrows
    <3> QED BY <3>2, <3>3, <3>4, <1>2
  <2>3. CASE UNCHANGED dlq /\ Gone({m.ev}, "dropped")
    <3>1. LostEvents \subseteq LostEvents'
      BY <2>3, GoneGrows
    <3> QED BY <2>3, <3>1, <1>2
  <2> QED BY <2>1, <2>2, <2>3 DEF IngestWrite
<1>4. Queued' = Queued
  BY <1>1 DEF Queued
<1> QED BY <1>1, <1>3, <1>4 DEF Moves, TypeOK

(* An INSERT touches only what it is about. *)
LEMMA InsertMoves ==
  ASSUME TypeOK, TypeOK', UNCHANGED <<written, queued, dlq>>, LostEvents \subseteq LostEvents',
         NEW S, NEW kept \in SUBSET S, NEW r, InsertBatch(S, kept, r),
         S \cap Events \subseteq Insertable
  PROVE  Moves
<1>1. \A e \in Events : rows'[e] >= rows[e]
  BY InsertBatchGrows
<1>2. \A e \in Events : rows'[e] # rows[e] => e \in S
  BY DEF InsertBatch
<1>3. Queued' = Queued /\ InDLQ' = InDLQ
  BY DEF Queued, InDLQ
<1> QED BY <1>1, <1>2, <1>3 DEF Moves

LEMMA StepMoves ==
  ASSUME TypeOK, TypeOK', FlowInv, [Next]_vars PROVE Moves
<1>1. CASE \/ BatchTop \/ ReadNothing \/ AckRedisMessages \/ IngestTake \/ IngestStop
           \/ RetryTick \/ RetryReadError \/ RetryStop \/ SigTerm \/ Restart
           \/ UNCHANGED vars
  <2>1. UNCHANGED <<written, queued, dlq, tableVars>> /\ lost' = lost
    BY <1>1 DEF BatchTop, ReadNothing, AckRedisMessages, IngestTake, IngestStop,
                RetryTick, RetryReadError, RetryStop, SigTerm, Restart, vars
  <2>2. LostEvents \subseteq LostEvents'
    BY <2>1 DEF LostEvents
  <2> QED BY <2>1, <2>2, MovesFrame
<1>2. ASSUME NEW e \in Events, WriteToBatchStream(e) PROVE Moves
  BY <1>2, WriteToBatchStreamMoves
<1>3. CASE ReadBatch \/ RetryRead
  BY <1>3, ReadMoves
<1>4. CASE WriteToClickhouse
  <2>1. /\ UNCHANGED <<written, queued, dlq>> /\ bpc = "insert"
        /\ \E kept \in SUBSET hand : \E r : InsertBatch(hand, kept, r)
    BY <1>4 DEF WriteToClickhouse, InsertSucceeds, InsertFails
  <2>2. LostEvents \subseteq LostEvents'
    <3>1. ASSUME NEW kept, InsertSucceeds(hand, kept) PROVE LostEvents \subseteq LostEvents'
      BY <3>1, GoneGrows DEF InsertSucceeds
    <3>2. CASE AddMessages(Fresh(hand))
      BY <3>2, AddMessagesLoses
    <3> QED BY <1>4, <3>1, <3>2 DEF WriteToClickhouse
  <2>3. hand \cap Events \subseteq Insertable
    BY <2>1 DEF Insertable
  <2> QED BY <2>1, <2>2, <2>3, InsertMoves
<1>5. CASE RejectMalformed
  <2>1. UNCHANGED <<written, queued, dlq, tableVars>> /\ LostEvents \subseteq LostEvents'
    BY <1>5, AddMessagesLoses DEF RejectMalformed
  <2> QED BY <2>1, MovesFrame
<1>6. ASSUME NEW m \in ihand, IngestWrite(m) PROVE Moves
  BY <1>6, IngestWriteMoves
<1>7. ASSUME NEW m \in rhand, RetryInsert(m) PROVE Moves
  <2>1. /\ UNCHANGED <<written, queued, dlq>>
        /\ \E kept \in SUBSET {m.ev} : \E r : InsertBatch({m.ev}, kept, r)
    BY <1>7 DEF RetryInsert, InsertSucceeds, InsertFails
  <2>2. LostEvents \subseteq LostEvents'
    <3>1. ASSUME NEW kept, InsertSucceeds({m.ev}, kept) PROVE LostEvents \subseteq LostEvents'
      BY <3>1, GoneGrows DEF InsertSucceeds
    <3>2. CASE lost' = lost
      BY <3>2 DEF LostEvents
    <3> QED BY <1>7, <3>1, <3>2 DEF RetryInsert
  <2>3. {m.ev} \cap Events \subseteq Insertable
    BY DEF Insertable, EventsOf
  <2> QED BY <2>1, <2>2, <2>3, InsertMoves
<1>8. CASE RetryAck
  <2>1. UNCHANGED <<written, queued, dlq, tableVars>>
    BY <1>8 DEF RetryAck
  <2>2. LostEvents \subseteq LostEvents'
    <3>1. PICK m \in rcur : Outcome(m)
      BY <1>8 DEF RetryAck
    <3>2. CASE lost' = lost
      BY <3>2 DEF LostEvents
    <3>3. CASE Gone({m.ev}, "dropped")
      BY <3>3, GoneGrows
    <3>4. CASE AddMessages({[ev |-> m.ev, att |-> m.att + 1]})
      BY <3>4, AddMessagesLoses
    <3> QED BY <3>1, <3>2, <3>3, <3>4 DEF Outcome
  <2> QED BY <2>1, <2>2, MovesFrame
<1>9. CASE Exit \/ Crash \/ Kill
  <2>1. GoDown
    BY <1>9 DEF Exit, Crash, Kill
  <2>2. UNCHANGED <<written, queued, dlq, tableVars>> /\ LostEvents \subseteq LostEvents'
    BY <2>1, GoneGrows DEF GoDown
  <2> QED BY <2>2, MovesFrame
<1>10. ASSUME NEW m \in rhand, RetryDrop(m) PROVE Moves
  <2>1. UNCHANGED <<written, queued, dlq, tableVars>> /\ LostEvents \subseteq LostEvents'
    BY <1>10, GoneGrows DEF RetryDrop
  <2> QED BY <2>1, MovesFrame
<1> QED BY <1>1, <1>2, <1>3, <1>4, <1>5, <1>6, <1>7, <1>8, <1>9, <1>10
        DEF Next, BatchNext, IngestNext, RetryNext, ProcessNext

\* An entry has the status of the one place it is in, and it is never "nowhere".
StatusTells(e) ==
    /\ StatusOf(e) \in Lifecycle!Statuses
    /\ StatusOf(e) = "absent" => e \notin written
    /\ StatusOf(e) = "stored" => e \in written /\ rows[e] > 0
    /\ StatusOf(e) \in {"lost", "queued", "parked", "held"} => e \in written /\ rows[e] = 0
    /\ StatusOf(e) = "lost" => e \in LostEvents
    /\ StatusOf(e) \in {"queued", "parked", "held"} => e \notin LostEvents
    /\ StatusOf(e) = "queued" => e \in Queued
    /\ StatusOf(e) \in {"parked", "held"} => e \notin Queued
    /\ StatusOf(e) = "parked" => e \in EventsOf(InDLQ)
    /\ StatusOf(e) = "held" => e \in InMemory

OnePlaceEach(e) ==
    /\ e \in InMemory => e \in written /\ e \notin Queued \cup EventsOf(InDLQ)
    /\ e \in Insertable => e \in InMemory \ LostEvents
    /\ e \in Queued => e \in written \ LostEvents /\ e \notin EventsOf(InDLQ)
    /\ e \notin written => rows[e] = 0

Placed == \A e \in Events : StatusTells(e) /\ OnePlaceEach(e)

LEMMA StatusCases ==
  ASSUME TypeOK, FlowInv, NEW e \in Events PROVE StatusTells(e)
<1>1. rows[e] \in Nat
  BY DEF TypeOK
<1>2. ASSUME e \in written, rows[e] = 0, e \notin LostEvents, e \notin Queued,
             e \notin EventsOf(InDLQ)
      PROVE  e \in InMemory
  <2>1. e \in Early \/ \E m \in Pipe : m.ev = e
    BY <1>2 DEF FlowInv, Accounts, Somewhere
  <2>2. CASE e \in Early
    BY <1>2, <2>2 DEF Early, InMemory
  <2>3. ASSUME NEW m \in Pipe, m.ev = e PROVE e \in InMemory
    <3>1. m \notin InDLQ
      BY <1>2, <2>3 DEF EventsOf
    <3>2. m \in ChanEntries \cup ihand \cup rhand \cup rcur
      BY <3>1 DEF Pipe
    <3>3. e \in EventsOf(ChanEntries \cup ihand \cup rhand \cup rcur)
      BY <3>2, <2>3 DEF EventsOf
    <3> QED BY <3>3 DEF InMemory
  <2> QED BY <2>1, <2>2, <2>3
<1>3. CASE e \notin written
  <2>1. StatusOf(e) = "absent"
    BY <1>3 DEF StatusOf
  <2> QED BY <1>3, <2>1 DEF Lifecycle!Statuses, StatusTells
<1>4. CASE e \in written /\ rows[e] > 0
  <2>1. StatusOf(e) = "stored"
    BY <1>4 DEF StatusOf
  <2> QED BY <1>4, <2>1 DEF Lifecycle!Statuses, StatusTells
<1>5. CASE e \in written /\ rows[e] = 0 /\ e \in LostEvents
  <2>1. StatusOf(e) = "lost"
    BY <1>5 DEF StatusOf
  <2> QED BY <1>5, <2>1 DEF Lifecycle!Statuses, StatusTells
<1>6. CASE e \in written /\ rows[e] = 0 /\ e \notin LostEvents
  <2>1. StatusOf(e) = IF e \in Queued THEN "queued"
                      ELSE IF e \in EventsOf(InDLQ) THEN "parked"
                      ELSE IF e \in InMemory THEN "held" ELSE "nowhere"
    BY <1>6 DEF StatusOf
  <2> QED BY <1>2, <1>6, <2>1 DEF Lifecycle!Statuses, StatusTells
<1> QED BY <1>1, <1>3, <1>4, <1>5, <1>6

LEMMA PlacesApart ==
  ASSUME TypeOK, FlowInv, NEW e \in Events PROVE OnePlaceEach(e)
<1> DEFINE held == ChanEntries \cup ihand \cup rhand \cup rcur
<1>1. /\ InMemory = hand \cup bad \cup EventsOf(held)
      /\ EventsOf(held) \cap Early = {} /\ EventsOf(InDLQ) \cap Early = {}
      /\ EventsOf(held) \cap EventsOf(InDLQ) = {}
  <2>1. held \subseteq Pipe /\ InDLQ \subseteq Pipe /\ held \cap InDLQ = {} /\ Distinct
    BY DEF Pipe, FlowInv, Single, Accounts
  <2>2. InMemory = hand \cup bad \cup EventsOf(held)
    BY DEF InMemory
  <2> HIDE DEF held
  <2> QED BY <2>1, <2>2, EventsApart, EventsEarly
<1>2. \A m \in held : m \in Pipe
  BY DEF Pipe
<1> HIDE DEF held
<1>3. /\ \A x \in EventsOf(held) : x \in written
      /\ \A x \in Early : x \in written /\ (x \in LostEvents => bpc = "ack" /\ x \in hand)
  <2>1. \A m \in held : m.ev \in written
    BY <1>2 DEF FlowInv, Accounts, Live
  <2>2. \A x \in EventsOf(held) : \E m \in held : m.ev = x
    BY DEF EventsOf
  <2> QED BY <2>1, <2>2 DEF FlowInv, Accounts, Live
<1>4. Queued \cap (hand \cup bad) = {}
  BY DEF FlowInv, Apart
<1>5. e \in InMemory => e \in written /\ e \notin Queued \cup EventsOf(InDLQ)
  BY <1>1, <1>3, <1>4 DEF Early
<1>6. e \in Queued => e \in written \ LostEvents /\ e \notin EventsOf(InDLQ)
  BY <1>1, <1>3, <1>4 DEF Early
<1>7. e \notin written => rows[e] = 0
  BY DEF FlowInv, Accounts, UntriedOK, Untried
<1>8. e \in Insertable => e \in InMemory \ LostEvents
  <2>1. CASE e \in hand /\ bpc = "insert"
    BY <2>1, <1>1, <1>3 DEF Early
  <2>2. ASSUME NEW m \in rhand, m.ev = e PROVE e \in InMemory \ LostEvents
    <3>1. m \in Pipe /\ m \notin rcur
      BY DEF Pipe, FlowInv, Single
    <3>2. e \notin LostEvents
      BY <2>2, <3>1 DEF FlowInv, Accounts, Live
    <3>3. e \in EventsOf(ChanEntries \cup ihand \cup rhand \cup rcur)
      BY <2>2 DEF EventsOf
    <3> QED BY <3>2, <3>3 DEF InMemory
  <2> QED BY <2>1, <2>2 DEF Insertable, EventsOf
<1> QED BY <1>5, <1>6, <1>7, <1>8 DEF OnePlaceEach

(* Every step takes every entry along an edge, or leaves it where it was. *)
LEMMA EdgeStep ==
  ASSUME TypeOK, TypeOK', FlowInv, Placed, Placed', Moves, NEW e \in Events,
         StatusOf(e)' # StatusOf(e)
  PROVE  <<StatusOf(e), StatusOf(e)'>> \in Lifecycle!Edges
<1>1. /\ StatusTells(e) /\ OnePlaceEach(e) /\ StatusTells(e)' /\ OnePlaceEach(e)'
      /\ rows[e] \in Nat /\ rows'[e] \in Nat
  BY DEF Placed, TypeOK
<1>2. /\ e \in written => e \in written'
      /\ e \in LostEvents => e \in LostEvents'
      /\ rows'[e] >= rows[e]
      /\ rows'[e] # rows[e] => e \in Insertable
      /\ e \in written' => e \in written \/ e \in Queued'
      /\ e \in Queued' => e \in Queued \/ e \notin written
  BY DEF Moves
<1>3. e \in EventsOf(InDLQ)' => e \in EventsOf(InDLQ) \/ e \in InMemory
  <2>1. ASSUME NEW m \in InDLQ', m.ev = e PROVE e \in EventsOf(InDLQ) \/ e \in InMemory
    <3>1. m \in InDLQ \/ m \in ihand
      BY DEF Moves
    <3> QED BY <2>1, <3>1 DEF EventsOf, InMemory
  <2>2. EventsOf(InDLQ)' = {m.ev : m \in InDLQ'}
    BY DEF EventsOf
  <2> QED BY <2>1, <2>2
<1>4. StatusOf(e) \in Lifecycle!Statuses /\ StatusOf(e)' \in Lifecycle!Statuses
  BY <1>1 DEF StatusTells
<1> USE DEF StatusTells, OnePlaceEach, Lifecycle!Statuses
<1>5. CASE StatusOf(e) = "absent"
  <2>1. StatusOf(e)' \notin {"stored", "lost", "parked", "held"}
    BY <1>1, <1>2, <1>5
  <2> QED BY <1>4, <1>5, <2>1 DEF Lifecycle!Edges
<1>6. CASE StatusOf(e) = "queued"
  <2>1. StatusOf(e)' \notin {"absent", "stored", "parked"}
    BY <1>1, <1>2, <1>3, <1>6
  <2> QED BY <1>4, <1>6, <2>1 DEF Lifecycle!Edges
<1>7. CASE StatusOf(e) = "held"
  <2>1. StatusOf(e)' \notin {"absent", "queued"}
    BY <1>1, <1>2, <1>7
  <2> QED BY <1>4, <1>7, <2>1 DEF Lifecycle!Edges
<1>8. CASE StatusOf(e) = "parked"
  <2>1. StatusOf(e)' \notin {"absent", "queued", "stored"}
    BY <1>1, <1>2, <1>8
  <2> QED BY <1>4, <1>8, <2>1 DEF Lifecycle!Edges
<1>9. CASE StatusOf(e) = "stored"
  <2>1. StatusOf(e)' = "stored"
    BY <1>1, <1>2, <1>9
  <2> QED BY <1>9, <2>1
<1>10. CASE StatusOf(e) = "lost"
  <2>1. StatusOf(e)' = "lost"
    BY <1>1, <1>2, <1>10
  <2> QED BY <1>10, <2>1
<1> QED BY <1>4, <1>5, <1>6, <1>7, <1>8, <1>9, <1>10

(* The cold path refines the lifecycle of an entry: whatever fails, crashes  *)
(* or is retried, an entry moves along the edges only, "stored" and "lost"   *)
(* are final, and it is never nowhere.                                       *)
THEOREM RefinesLifecycle == Spec => ImplementsLifecycle
<1> DEFINE status == [e \in Events |-> StatusOf(e)]
<1>1. Init => Lifecycle!Init
  BY DEF Init, Lifecycle!Init, StatusOf
<1>2. TypeOK /\ FlowInv => Placed
  BY StatusCases, PlacesApart DEF Placed
<1>3. TypeOK /\ TypeOK' /\ FlowInv /\ Placed /\ Placed' /\ [Next]_vars
      => [Lifecycle!Next]_status
  <2> SUFFICES ASSUME TypeOK, TypeOK', FlowInv, Placed, Placed', [Next]_vars
               PROVE  Lifecycle!Next
    OBVIOUS
  <2>1. Moves
    BY StepMoves
  <2>2. \A e \in Events : StatusOf(e)' = StatusOf(e) \/ <<StatusOf(e), StatusOf(e)'>> \in Lifecycle!Edges
    BY <2>1, EdgeStep
  <2>3. \A e \in Events : StatusOf(e)' \in Lifecycle!Statuses
    BY DEF Placed, StatusTells
  <2>4. status' = [e \in Events |-> StatusOf(e)']
    OBVIOUS
  <2> QED BY <2>2, <2>3, <2>4 DEF Lifecycle!Next
<1> QED BY <1>1, <1>2, <1>3, SpecFlow, PTL DEF Spec, ImplementsLifecycle, Lifecycle!Spec

-----------------------------------------------------------------------------
(* The stream registry: for any number of replicas and streams, no XREADGROUP *)
(* names a stream without a group, unless a group creation failed.            *)

RegistryTypes ==
    /\ stream \in [Keys -> 0..MaxEntries]
    /\ group \in [Keys -> 0..NoGroup]
    /\ DOMAIN start = Keys
    /\ known \in [Replicas -> SUBSET Keys]
    /\ fresh \in [Replicas -> SUBSET Keys]
    /\ todo \in [Replicas -> SUBSET Keys]
    /\ args \in [Replicas -> SUBSET Keys]
    /\ faults \in Nat

\* Every key a replica has, or has visited in its refresh, has its group.
HasGroups(r) == \A k \in known[r] \cup args[r] \cup (fresh[r] \ todo[r]) : HasGroup(k)
AllHaveGroups == faults = 0 => \A r \in Replicas : HasGroups(r)

RegistryInv == RegistryTypes /\ AllHaveGroups

LEMMA RegistryInitInv == RegistryInit => RegistryInv
BY RegistryConstants DEF RegistryInit, RegistryInv, RegistryTypes, AllHaveGroups, HasGroups, NoGroup

\* A group is never destroyed.
LEMMA GroupsStay ==
    ASSUME RegistryTypes, [RegistryNext]_registryVars, NEW k \in Keys, HasGroup(k)
    PROVE  HasGroup(k)'
<1> USE RegistryConstants DEF RegistryTypes, HasGroup, NoGroup
<1>1. CASE \E q \in Keys : Produce(q)  BY <1>1 DEF Produce
<1>2. ASSUME NEW r \in Replicas, Scan(r) PROVE HasGroup(k)'  BY <1>2 DEF Scan
<1>3. ASSUME NEW r \in Replicas, NEW q \in Keys, CreateGroup(r, q) PROVE HasGroup(k)'
  BY <1>3 DEF CreateGroup, CreateOnRedis
<1>4. ASSUME NEW r \in Replicas, Register(r) PROVE HasGroup(k)'  BY <1>4 DEF Register
<1>5. ASSUME NEW r \in Replicas, SendRead(r) PROVE HasGroup(k)'  BY <1>5 DEF SendRead
<1>6. ASSUME NEW r \in Replicas, ReadAnswer(r) PROVE HasGroup(k)'  BY <1>6 DEF ReadAnswer
<1>7. CASE UNCHANGED registryVars  BY <1>7 DEF registryVars
<1> QED  BY <1>1, <1>2, <1>3, <1>4, <1>5, <1>6, <1>7 DEF RegistryNext, Refresh, Read

LEMMA RegistryTypesKept == RegistryTypes /\ [RegistryNext]_registryVars => RegistryTypes'
<1> SUFFICES ASSUME RegistryTypes, [RegistryNext]_registryVars PROVE RegistryTypes'  OBVIOUS
<1> USE RegistryConstants DEF RegistryTypes, NoGroup
<1>1. ASSUME NEW q \in Keys, Produce(q) PROVE RegistryTypes'  BY <1>1 DEF Produce
<1>2. ASSUME NEW r \in Replicas, Scan(r) PROVE RegistryTypes'
  <2>1. PICK found \in SUBSET Keys :
           /\ fresh' = [fresh EXCEPT ![r] = found \ known[r]]
           /\ todo' = [todo EXCEPT ![r] = found \ known[r]]
    BY <1>2 DEF Scan
  <2> QED  BY <1>2, <2>1 DEF Scan
<1>3. ASSUME NEW r \in Replicas, NEW q \in Keys, CreateGroup(r, q) PROVE RegistryTypes'
  BY <1>3 DEF CreateGroup, CreateOnRedis, HasGroup
<1>4. ASSUME NEW r \in Replicas, Register(r) PROVE RegistryTypes'  BY <1>4 DEF Register, Registered
<1>5. ASSUME NEW r \in Replicas, SendRead(r) PROVE RegistryTypes'  BY <1>5 DEF SendRead
<1>6. ASSUME NEW r \in Replicas, ReadAnswer(r) PROVE RegistryTypes'  BY <1>6 DEF ReadAnswer
<1>7. CASE UNCHANGED registryVars  BY <1>7 DEF registryVars
<1> QED  BY <1>1, <1>2, <1>3, <1>4, <1>5, <1>6, <1>7 DEF RegistryNext, Refresh, Read

LEMMA GroupsKept == RegistryInv /\ [RegistryNext]_registryVars => AllHaveGroups'
<1> SUFFICES ASSUME RegistryInv, [RegistryNext]_registryVars, faults' = 0, NEW u \in Replicas
             PROVE  HasGroups(u)'
  BY DEF AllHaveGroups
<1> USE DEF RegistryInv
<1>0. faults = 0
  BY DEF RegistryTypes, RegistryNext, Refresh, Read, registryVars, Produce, Scan, CreateGroup, Register, SendRead,
         ReadAnswer
<1>1. HasGroups(u)  BY <1>0 DEF AllHaveGroups
<1>2. \A k \in known[u] \cup args[u] \cup (fresh[u] \ todo[u]) : HasGroup(k)'
  BY <1>1, GroupsStay DEF HasGroups, RegistryTypes
<1>3. ASSUME NEW q \in Keys, Produce(q) PROVE HasGroups(u)'
  BY <1>2, <1>3 DEF Produce, HasGroups
<1>4. ASSUME NEW r \in Replicas, Scan(r) PROVE HasGroups(u)'
  BY <1>2, <1>4 DEF RegistryTypes, Scan, HasGroups
<1>5. ASSUME NEW r \in Replicas, NEW q \in Keys, CreateGroup(r, q) PROVE HasGroups(u)'
  <2>1. HasGroup(q)'
    BY <1>5, <1>0, RegistryConstants DEF CreateGroup, CreateOnRedis, HasGroup, RegistryTypes, NoGroup
  <2> QED  BY <1>2, <1>5, <2>1 DEF RegistryTypes, CreateGroup, HasGroups
<1>6. ASSUME NEW r \in Replicas, Register(r) PROVE HasGroups(u)'
  BY <1>2, <1>6 DEF RegistryTypes, Register, Registered, HasGroups
<1>7. ASSUME NEW r \in Replicas, SendRead(r) PROVE HasGroups(u)'
  BY <1>2, <1>7 DEF RegistryTypes, SendRead, HasGroups
<1>8. ASSUME NEW r \in Replicas, ReadAnswer(r) PROVE HasGroups(u)'
  BY <1>2, <1>8 DEF RegistryTypes, ReadAnswer, HasGroups
<1>9. CASE UNCHANGED registryVars  BY <1>2, <1>9 DEF registryVars, HasGroups
<1> QED  BY <1>3, <1>4, <1>5, <1>6, <1>7, <1>8, <1>9 DEF RegistryNext, Refresh, Read

(* For any number of replicas and organisations, as long as no XGROUP CREATE *)
(* failed: an XREADGROUP never names a stream whose group does not exist,    *)
(* which would make it answer NOGROUP for all streams.                       *)
THEOREM NeverDeaf == RegistrySpec => []ReadsNeverDeaf
<1>1. RegistryInv /\ [RegistryNext]_registryVars => RegistryInv'  BY RegistryTypesKept, GroupsKept DEF RegistryInv
<1>2. RegistryInv => ReadsNeverDeaf
  BY DEF RegistryInv, AllHaveGroups, HasGroups, ReadsNeverDeaf, Readable
<1> QED  BY RegistryInitInv, <1>1, <1>2, PTL DEF RegistrySpec
=============================================================================
