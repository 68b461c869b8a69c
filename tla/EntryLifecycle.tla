----------------------------- MODULE EntryLifecycle -----------------------------
(***************************************************************************)
(* What the cold path promises of one stream entry, whatever the threads,   *)
(* retries and crashes behind it: the entry only ever moves along Edges.    *)
(* "stored" and "lost" are final, an entry is never put back on the batch   *)
(* stream, and it leaves the DLQ stream only into the hands of a process.   *)
(***************************************************************************)
CONSTANT Events
VARIABLE status

Statuses == {"absent", "queued", "held", "parked", "stored", "lost"}

Edges == {<<"absent", "queued">>,
          <<"queued", "held">>, <<"queued", "lost">>,
          <<"held", "stored">>, <<"held", "parked">>, <<"held", "lost">>,
          <<"parked", "held">>, <<"parked", "lost">>}

Init == status = [e \in Events |-> "absent"]

\* One step moves any number of entries: a batch is read, stored or dropped.
Next == /\ status' \in [Events -> Statuses]
        /\ \A e \in Events : \/ status'[e] = status[e]
                             \/ <<status[e], status'[e]>> \in Edges

Spec == Init /\ [][Next]_status
=============================================================================
