------------------------------ MODULE BatchWriter ------------------------------
(***************************************************************************)
(* The cold path of one batch-writer process: XREADGROUP from the batch     *)
(* stream, INSERT into ClickHouse, XACK, and the dead-letter queue with its *)
(* two loops (ingestLoop, retryLoop).  Every call over the network is one   *)
(* step with its success and its failures; the code between two calls is    *)
(* local and belongs to the call before it.                                 *)
(*                                                                          *)
(* An element of Events is one stream entry.  A batch is a set: the order   *)
(* inside one batch does not matter to any property.  Redis and ClickHouse  *)
(* survive a crash of the process; everything in memory does not.           *)
(***************************************************************************)
EXTENDS Naturals, Sequences, FiniteSets

CONSTANTS
    Events,        \* entries of the gps:batch:{org} stream
    Malformed,     \* bound: those that deserialiseMessage may reject
    BatchSize,     \* redis.read.batch_size
    DLQBatch,      \* dlq.batch_size
    ChanCap,       \* capacity of DLQProcessor.msgChan (256 in the code)
    MaxRetries,    \* dlq.max_retries
    StreamMaxLen,  \* undelivered entries the MAXLEN of the batch stream spares
    DLQMaxLen,     \* the same for the DLQ stream
    MaxDowns       \* bound: how often the process may crash or be stopped

ASSUME ConstantsOK ==
    /\ Malformed \subseteq Events
    /\ {BatchSize, DLQBatch, ChanCap, StreamMaxLen, DLQMaxLen} \subseteq Nat \ {0}
    /\ MaxRetries \in Nat
    /\ MaxDowns \in Nat

VARIABLES
    written,   \* entries the mqtt-consumer has added to the batch stream
    queued,    \* undelivered suffix of the batch stream
    pending,   \* its PEL: delivered to the group and never acknowledged
    malformed, \* history: entries that deserialiseMessage rejected
    rows,      \* rows[e]: rows of e in ClickHouse (of a blank row if malformed)
    dlqKey,    \* a DLQ stream exists, so scanDLQStreams finds one
    dlq,       \* undelivered suffix of the DLQ stream
    dlqPEL,    \* PEL of the "-dlq" group
    phase,     \* "up", "stopping" (after SIGTERM) or "down"
    downs,     \* crashes and stops so far
    bpc, hand, bad,     \* processBatchLoop: position, rows in hand, rejects in hand
    chan,      \* msgChan: a queue of batches
    ipc, ihand,         \* ingestLoop: running?, rest of the batch being written
    rpc, rhand, rcur, rok, \* retryLoop: position, rest of the batch, entry retried, result
    tries,     \* history: INSERTs that carried e
    ambiguous, \* history: entries of an INSERT that failed after it was applied
    lost       \* history: <<e, cause>>, the code gave e up for that cause

redisVars == <<written, queued, pending, dlqKey, dlq, dlqPEL>>
batchVars == <<bpc, hand, bad, malformed>>
ingestVars == <<ipc, ihand>>
retryVars == <<rpc, rhand, rcur, rok>>
procVars == <<phase, downs>>
tableVars == <<rows, tries, ambiguous>>
vars == <<redisVars, procVars, batchVars, chan, ingestVars, retryVars, tableVars, lost>>

\* Trimmed off the batch stream; left out of an INSERT by Append; or let go by
\* the code, with the process or by a trim of the DLQ stream.
Causes == {"trimmed", "append", "dropped"}

\* A ProcessedMessage as it travels through the DLQ, with its retry ledger.
Entry == [ev : Events, att : Nat]
Fresh(S) == [ev : S, att : {0}]
EventsOf(S) == {m.ev : m \in S}

Up == phase # "down"
Gone(S, cause) == lost' = lost \cup (S \X {cause})

-----------------------------------------------------------------------------

Init ==
    /\ written = {} /\ queued = <<>> /\ pending = {}
    /\ rows = [e \in Events |-> 0]
    /\ dlqKey = FALSE /\ dlq = <<>> /\ dlqPEL = {}
    /\ phase = "up" /\ downs = 0
    /\ bpc = "top" /\ hand = {} /\ bad = {} /\ malformed = {}
    /\ chan = <<>> /\ ipc = "run" /\ ihand = {}
    /\ rpc = "tick" /\ rhand = {} /\ rcur = {} /\ rok = FALSE
    /\ tries = [e \in Events |-> 0] /\ ambiguous = {} /\ lost = {}

\* XADD ... MAXLEN ~ by the mqtt-consumer: approximate trimming may or may not
\* drop the oldest entry once the stream is over its length.
WriteToBatchStream(e) ==
    /\ e \notin written
    /\ written' = written \cup {e}
    /\ \/ queued' = Append(queued, e) /\ lost' = lost
       \/ /\ Len(queued) >= StreamMaxLen
          /\ queued' = Append(Tail(queued), e)
          /\ Gone({Head(queued)}, "trimmed")
    /\ UNCHANGED <<pending, dlqKey, dlq, dlqPEL, procVars, batchVars, chan,
                   ingestVars, retryVars, tableVars>>

-----------------------------------------------------------------------------
(* processBatchLoop *)

\* Top of the loop: the select on stopChan.
BatchTop ==
    /\ Up /\ bpc = "top"
    /\ bpc' = IF phase = "stopping" THEN "stopped" ELSE "read"
    /\ UNCHANGED <<redisVars, procVars, hand, bad, malformed, chan, ingestVars, retryVars,
                   tableVars, lost>>

Least(a, b) == IF a < b THEN a ELSE b
Taken(q, n) == {q[i] : i \in 1..Least(n, Len(q))}
Rest(q, n) == SubSeq(q, Least(n, Len(q)) + 1, Len(q))

\* Where the loop goes once the rows in hand are dealt with.
AfterRows == IF bad = {} THEN "top" ELSE "reject"

\* processBatch splits what was read: rows, and entries that do not parse.
ProcessBatch(ok, failed) ==
    /\ hand' = ok /\ bad' = failed /\ malformed' = malformed \cup failed
    /\ bpc' = IF ok = {} THEN "reject" ELSE "insert"

\* XREADGROUP ">": Redis moves the entries to the PEL, then answers.
ReadBatch ==
    /\ Up /\ bpc = "read" /\ queued # <<>>
    /\ LET got == Taken(queued, BatchSize) IN
       /\ queued' = Rest(queued, BatchSize)
       /\ pending' = pending \cup got
       /\ \/ /\ \E failed \in SUBSET (got \cap Malformed) : ProcessBatch(got \ failed, failed)
             /\ lost' = lost
          \/ /\ bpc' = "top" /\ UNCHANGED <<hand, bad, malformed>>
             /\ Gone(got, "dropped")
    /\ UNCHANGED <<written, dlqKey, dlq, dlqPEL, procVars, chan, ingestVars,
                   retryVars, tableVars>>

\* Nothing to read before the block time is over, or an error before delivery.
ReadNothing ==
    /\ Up /\ bpc = "read"
    /\ bpc' = "top"
    /\ UNCHANGED <<redisVars, procVars, hand, bad, malformed, chan, ingestVars, retryVars,
                   tableVars, lost>>

\* Mutant: a channel without a bound.
AddMessagesUnbounded(batch) == chan' = Append(chan, batch) /\ lost' = lost

\* AddMessages: a non-blocking send; a full channel drops the batch.
AddMessages(batch) ==
    IF Len(chan) < ChanCap
    THEN chan' = Append(chan, batch) /\ lost' = lost
    ELSE chan' = chan /\ Gone(EventsOf(batch), "dropped")

\* One INSERT for the entries of S, of which Append took the rows of kept (a row
\* it refuses is only logged): sent, refused, or applied though it failed.
InsertBatch(S, kept, result) ==
    /\ tries' = [e \in Events |-> IF e \in S THEN tries[e] + 1 ELSE tries[e]]
    /\ rows' = [e \in Events |-> IF e \in kept /\ result # "refused"
                                 THEN rows[e] + 1 ELSE rows[e]]
    /\ ambiguous' = IF result = "ambiguous" THEN ambiguous \cup S ELSE ambiguous

\* InsertBatch returns nil, though the rows of S \ kept are not among the sent.
InsertSucceeds(S, kept) == InsertBatch(S, kept, "ok") /\ Gone(S \ kept, "append")
InsertFails(S, kept) == \E result \in {"refused", "ambiguous"} : InsertBatch(S, kept, result)

\* Mutant: a failed INSERT is only logged.
WriteToClickhouseNoDLQ ==
    /\ Up /\ bpc = "insert"
    /\ \E kept \in SUBSET hand :
          \/ InsertSucceeds(hand, kept) /\ bpc' = "ack" /\ hand' = hand
          \/ InsertFails(hand, kept) /\ bpc' = AfterRows /\ hand' = {} /\ lost' = lost
    /\ UNCHANGED <<redisVars, procVars, bad, malformed, chan, ingestVars, retryVars>>

\* Mutant: the messages are acknowledged after a failed INSERT too.
WriteToClickhouseAckAlways ==
    /\ Up /\ bpc = "insert"
    /\ \E kept \in SUBSET hand :
          \/ InsertSucceeds(hand, kept) /\ chan' = chan
          \/ InsertFails(hand, kept) /\ AddMessages(Fresh(hand))
    /\ bpc' = "ack"
    /\ UNCHANGED <<redisVars, procVars, hand, bad, malformed, ingestVars, retryVars>>

WriteToClickhouse ==
    /\ Up /\ bpc = "insert"
    /\ \E kept \in SUBSET hand :
          \/ /\ InsertSucceeds(hand, kept)
             /\ bpc' = "ack" /\ UNCHANGED <<hand, chan>>
          \/ /\ InsertFails(hand, kept) /\ AddMessages(Fresh(hand))
             /\ hand' = {} /\ bpc' = AfterRows
    /\ UNCHANGED <<redisVars, procVars, bad, malformed, ingestVars, retryVars>>

\* ackRedisMessages: an XACK that fails is only logged.
AckRedisMessages ==
    /\ Up /\ bpc = "ack"
    /\ pending' \in {pending \ hand, pending}
    /\ hand' = {} /\ bpc' = AfterRows
    /\ UNCHANGED <<written, queued, dlqKey, dlq, dlqPEL, procVars, bad, malformed, chan,
                   ingestVars, retryVars, tableVars, lost>>

\* Mutant: the rejects are forgotten.
RejectMalformedForgets ==
    /\ Up /\ bpc = "reject"
    /\ bad' = {} /\ bpc' = "top"
    /\ UNCHANGED <<redisVars, procVars, hand, malformed, chan, ingestVars, retryVars, tableVars, lost>>

\* Mutant: the slice of rejects outlives the round.
RejectMalformedKeeps ==
    /\ Up /\ bpc = "reject"
    /\ AddMessages(Fresh(bad))
    /\ bpc' = "top"
    /\ UNCHANGED <<redisVars, procVars, hand, bad, malformed, ingestVars, retryVars, tableVars>>

\* The entries that failed to deserialise go to the DLQ as blank messages.
RejectMalformed ==
    /\ Up /\ bpc = "reject"
    /\ AddMessages(Fresh(bad))
    /\ bad' = {} /\ bpc' = "top"
    /\ UNCHANGED <<redisVars, procVars, hand, malformed, ingestVars, retryVars, tableVars>>

-----------------------------------------------------------------------------
(* DLQProcessor.ingestLoop *)

IngestTake ==
    /\ Up /\ ipc = "run" /\ ihand = {} /\ chan # <<>>
    /\ ihand' = Head(chan) /\ chan' = Tail(chan)
    /\ UNCHANGED <<redisVars, procVars, batchVars, ipc, retryVars, tableVars, lost>>

\* One XADD to the DLQ stream; on an error the message is skipped.
IngestWrite(m) ==
    /\ Up /\ m \in ihand
    /\ ihand' = ihand \ {m}
    /\ \/ dlq' = Append(dlq, m) /\ dlqKey' = TRUE /\ lost' = lost
       \/ /\ Len(dlq) >= DLQMaxLen
          /\ dlq' = Append(Tail(dlq), m) /\ dlqKey' = TRUE
          /\ Gone({Head(dlq).ev}, "dropped")
       \/ UNCHANGED <<dlq, dlqKey>> /\ Gone({m.ev}, "dropped")
    /\ UNCHANGED <<written, queued, pending, dlqPEL, procVars, batchVars, chan,
                   ipc, retryVars, tableVars>>

\* The select may still choose a waiting batch after the stop: IngestTake.
IngestStop ==
    /\ phase = "stopping" /\ ipc = "run" /\ ihand = {}
    /\ ipc' = "stopped"
    /\ UNCHANGED <<redisVars, procVars, batchVars, chan, ihand, retryVars,
                   tableVars, lost>>

-----------------------------------------------------------------------------
(* DLQProcessor.retryLoop *)

\* A tick: SCAN finds the DLQ stream, and the group is created from "0".
RetryTick ==
    /\ Up /\ rpc = "tick" /\ dlqKey
    /\ rpc' = "read"
    /\ UNCHANGED <<redisVars, procVars, batchVars, chan, ingestVars, rhand, rcur,
                   rok, tableVars, lost>>

\* XREADGROUP with Block: 0, which Redis takes as "block until there is one".
RetryRead ==
    /\ Up /\ rpc = "read" /\ dlq # <<>>
    /\ LET got == Taken(dlq, DLQBatch) IN
       /\ dlq' = Rest(dlq, DLQBatch)
       /\ dlqPEL' = dlqPEL \cup got
       /\ \/ rpc' = "retry" /\ rhand' = got /\ lost' = lost
          \/ rpc' = "tick" /\ rhand' = rhand /\ Gone(EventsOf(got), "dropped")
    /\ UNCHANGED <<written, queued, pending, dlqKey, procVars, batchVars, chan,
                   ingestVars, rcur, rok, tableVars>>

\* The read fails (connection, missing group): only logged.
RetryReadError ==
    /\ Up /\ rpc = "read"
    /\ rpc' = "tick"
    /\ UNCHANGED <<redisVars, procVars, batchVars, chan, ingestVars, rhand, rcur,
                   rok, tableVars, lost>>

\* ingestLoop ignores an error of json.Marshal (a timestamp past the year 9999)
\* and writes an empty payload, which retryOne cannot parse: it acknowledges the
\* entry and drops it.  A blank message is encoded, and so is one that came back.
Unreadable(m) == m.att = 0 /\ m.ev \notin malformed

RetryDrop(m) ==
    /\ Up /\ rpc = "retry" /\ m \in rhand /\ Unreadable(m)
    /\ Gone({m.ev}, "dropped")
    /\ dlqPEL' \in {dlqPEL \ {m}, dlqPEL}
    /\ rhand' = rhand \ {m}
    /\ rpc' = IF rhand = {m} THEN "tick" ELSE "retry"
    /\ UNCHANGED <<written, queued, pending, dlqKey, dlq, procVars, batchVars, chan,
                   ingestVars, rcur, rok, tableVars>>

RetryInsert(m) ==
    /\ Up /\ rpc = "retry" /\ m \in rhand
    /\ \E kept \in SUBSET {m.ev} :
          \/ InsertSucceeds({m.ev}, kept) /\ rok' = TRUE
          \/ InsertFails({m.ev}, kept) /\ rok' = FALSE /\ lost' = lost
    /\ rhand' = rhand \ {m} /\ rcur' = {m} /\ rpc' = "ack"
    /\ UNCHANGED <<redisVars, procVars, batchVars, chan, ingestVars>>

\* Mutant: the counter is tested before it is incremented.
GiveUpLate(m) == m.att >= MaxRetries

\* msg.Attempts++; msg.Attempts >= MaxRetries
GiveUp(m) == m.att + 1 >= MaxRetries

\* Mutant: no return after a success.
OutcomeAlwaysRequeues(m) ==
    IF GiveUp(m) THEN chan' = chan /\ Gone({m.ev}, "dropped")
    ELSE AddMessages({[ev |-> m.ev, att |-> m.att + 1]})

\* What follows the insert, once the entry is acknowledged.
Outcome(m) ==
    IF rok THEN UNCHANGED <<chan, lost>>
    ELSE IF GiveUp(m) THEN chan' = chan /\ Gone({m.ev}, "dropped")
    ELSE AddMessages({[ev |-> m.ev, att |-> m.att + 1]})

\* ackDLQ whatever the result (its error is only logged), then the outcome.
RetryAck ==
    /\ Up /\ rpc = "ack"
    /\ \E m \in rcur : Outcome(m)
    /\ dlqPEL' \in {dlqPEL \ rcur, dlqPEL}
    /\ rcur' = {} /\ rok' = FALSE
    /\ rpc' = IF rhand = {} THEN "tick" ELSE "retry"
    /\ UNCHANGED <<written, queued, pending, dlqKey, dlq, procVars, batchVars,
                   ingestVars, rhand, tableVars>>

RetryStop ==
    /\ phase = "stopping" /\ rpc = "tick"
    /\ rpc' = "stopped"
    /\ UNCHANGED <<redisVars, procVars, batchVars, chan, ingestVars, rhand, rcur,
                   rok, tableVars, lost>>

-----------------------------------------------------------------------------
(* The process *)

\* SIGTERM: main closes both stopChans and waits for the two DLQ loops only.
SigTerm ==
    /\ phase = "up" /\ downs < MaxDowns
    /\ phase' = "stopping" /\ downs' = downs + 1
    /\ UNCHANGED <<redisVars, batchVars, chan, ingestVars, retryVars, tableVars, lost>>

ChanEntries == UNION {chan[i] : i \in 1..Len(chan)}
InMemory == hand \cup bad \cup EventsOf(ChanEntries \cup ihand \cup rhand \cup rcur)

\* The process ends, and its memory with it.
GoDown ==
    /\ phase' = "down"
    /\ Gone(InMemory, "dropped")
    /\ bpc' = "stopped" /\ hand' = {} /\ bad' = {}
    /\ chan' = <<>> /\ ipc' = "stopped" /\ ihand' = {}
    /\ rpc' = "stopped" /\ rhand' = {} /\ rcur' = {} /\ rok' = FALSE
    /\ UNCHANGED <<redisVars, tableVars, malformed>>

\* dlq.Stop returned: main falls off its end, whatever processBatchLoop holds.
Exit ==
    /\ phase = "stopping" /\ ipc = "stopped" /\ rpc = "stopped"
    /\ GoDown /\ downs' = downs

Crash ==
    /\ phase = "up" /\ downs < MaxDowns
    /\ GoDown /\ downs' = downs + 1

\* The orchestrator's SIGKILL while the service is still stopping.
Kill ==
    /\ phase = "stopping"
    /\ GoDown /\ downs' = downs

\* The orchestrator starts the service again; the groups and PELs are as left.
Restart ==
    /\ phase = "down"
    /\ phase' = "up" /\ bpc' = "top" /\ ipc' = "run" /\ rpc' = "tick"
    /\ UNCHANGED <<redisVars, downs, hand, bad, malformed, chan, ihand, rhand, rcur, rok,
                   tableVars, lost>>

-----------------------------------------------------------------------------

BatchNext == BatchTop \/ ReadBatch \/ ReadNothing \/ WriteToClickhouse
                \/ AckRedisMessages \/ RejectMalformed
IngestNext == IngestTake \/ (\E m \in ihand : IngestWrite(m)) \/ IngestStop
RetryNext == RetryTick \/ RetryRead \/ RetryReadError
                \/ (\E m \in rhand : RetryDrop(m) \/ RetryInsert(m)) \/ RetryAck
                \/ RetryStop
ProcessNext == SigTerm \/ Exit \/ Crash \/ Kill \/ Restart

Next == \/ \E e \in Events : WriteToBatchStream(e)
        \/ BatchNext \/ IngestNext \/ RetryNext \/ ProcessNext

Spec == Init /\ [][Next]_vars

\* Each loop is a goroutine that is always scheduled; Redis answers a read that
\* has something to deliver again and again, though any one answer may be an
\* error; the orchestrator restarts the service and kills one that will not stop.
Fairness ==
    /\ WF_vars(BatchTop) /\ SF_vars(ReadBatch) /\ WF_vars(ReadNothing)
    /\ WF_vars(WriteToClickhouse) /\ WF_vars(AckRedisMessages)
    /\ WF_vars(RejectMalformed)
    /\ WF_vars(IngestTake) /\ WF_vars(\E m \in ihand : IngestWrite(m))
    /\ WF_vars(RetryTick) /\ SF_vars(RetryRead)
    /\ WF_vars(\E m \in rhand : RetryDrop(m) \/ RetryInsert(m)) /\ WF_vars(RetryAck)
    /\ WF_vars(Kill) /\ WF_vars(Restart)

FairSpec == Spec /\ Fairness

=============================================================================
