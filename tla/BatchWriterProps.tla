---------------------------- MODULE BatchWriterProps ----------------------------
(***************************************************************************)
(* What BatchWriter promises.                                               *)
(***************************************************************************)
EXTENDS BatchWriter

TypeOK ==
    /\ written \subseteq Events
    /\ queued \in Seq(Events)
    /\ pending \subseteq Events
    /\ rows \in [Events -> Nat]
    /\ dlqKey \in BOOLEAN
    /\ dlq \in Seq(Entry)
    /\ dlqPEL \subseteq Entry
    /\ phase \in {"up", "stopping", "down"}
    /\ downs \in 0..MaxDowns
    /\ bpc \in {"top", "read", "insert", "ack", "reject", "stopped"}
    /\ hand \subseteq Events /\ bad \subseteq Events /\ malformed \subseteq Events
    /\ chan \in Seq(SUBSET Entry) /\ Len(chan) <= ChanCap
    /\ ipc \in {"run", "stopped"} /\ ihand \subseteq Entry
    /\ rpc \in {"tick", "read", "retry", "ack", "stopped"}
    /\ rhand \subseteq Entry /\ rcur \subseteq Entry /\ rok \in BOOLEAN
    /\ tries \in [Events -> Nat]
    /\ ambiguous \subseteq Events
    /\ lost \subseteq Events \X Causes

Queued == {queued[i] : i \in 1..Len(queued)}
InDLQ == {dlq[i] : i \in 1..Len(dlq)}
LostEvents == {l[1] : l \in lost}

\* Entries that were delivered and have left the PEL.
Acked == {e \in written \ pending : e \notin Queued /\ <<e, "trimmed">> \notin lost}

(* An entry leaves the batch stream's PEL only after an INSERT of its own     *)
(* that ClickHouse took: its row is there, or it is the one row that Append  *)
(* refused and the code only logged.  A batch that failed goes to the DLQ    *)
(* and is never acknowledged.                                                *)
AckedImpliesInserted == \A e \in Acked : rows[e] > 0 \/ <<e, "append">> \in lost

(* The strengthening that makes it inductive: the batch being acknowledged   *)
(* was sent.                                                                 *)
AckInv ==
    /\ bpc = "ack" => \A e \in hand : rows[e] > 0 \/ <<e, "append">> \in lost
    /\ AckedImpliesInserted

(* "The attempt counter in the payload is the retry ledger": the ledger      *)
(* bounds the inserts of one entry across channel, DLQ stream and restarts,  *)
(* the first one by processBatchLoop included.  MaxRetries = 0 still retries *)
(* once, the counter being tested after the insert.                          *)
RetryBudget == \A e \in Events : tries[e] <= 1 + (IF MaxRetries = 0 THEN 1 ELSE MaxRetries)

(* A second row of one entry can come only from an insert that failed after  *)
(* ClickHouse had applied it; a stored entry is never retried.               *)
DuplicateOnlyIfAmbiguous == \A e \in Events : rows[e] > 1 => e \in ambiguous

(* An entry is in at most one place of the DLQ pipeline, so that the channel *)
(* and the two loops never retry it twice at the same time.                  *)
OneCopy ==
    /\ Cardinality(InDLQ) = Len(dlq)
    /\ Cardinality(EventsOf(InDLQ)) = Cardinality(InDLQ)
    /\ EventsOf(InDLQ) \cap InMemory = {}
    /\ \A i, j \in 1..Len(chan) : i # j => EventsOf(chan[i]) \cap EventsOf(chan[j]) = {}
    /\ EventsOf(ChanEntries) \cap (hand \cup bad \cup EventsOf(ihand \cup rhand \cup rcur)) = {}
    /\ (hand \cup bad) \cap EventsOf(ihand \cup rhand \cup rcur) = {}
    /\ EventsOf(ihand) \cap EventsOf(rhand \cup rcur) = {}
    /\ EventsOf(rhand) \cap EventsOf(rcur) = {}

(* Every entry is settled in the end: stored, or given up for a cause.  No   *)
(* entry goes round the DLQ for ever or waits behind one that does, nor      *)
(* behind a stop that retryLoop, blocked in its read, does not see.          *)
EverySettled == \A e \in Events :
    (e \in written) ~> (rows[e] > 0 \/ e \in LostEvents)

(* Where an entry is, seen from outside; an entry that is nowhere has no     *)
(* place in the lifecycle.                                                   *)
StatusOf(e) ==
    CASE e \notin written -> "absent"
      [] e \in written /\ rows[e] > 0 -> "stored"
      [] e \in written /\ rows[e] = 0 /\ e \in LostEvents -> "lost"
      [] OTHER -> IF e \in Queued THEN "queued"
                  ELSE IF e \in EventsOf(InDLQ) THEN "parked"
                  ELSE IF e \in InMemory THEN "held" ELSE "nowhere"

Lifecycle == INSTANCE EntryLifecycle WITH status <- [e \in Events |-> StatusOf(e)]

(* The cold path implements the lifecycle: no step of any loop, retry, crash *)
(* or restart takes an entry out of "stored" or "lost", or anywhere else     *)
(* than along an edge.                                                       *)
ImplementsLifecycle == Lifecycle!Spec
=============================================================================
