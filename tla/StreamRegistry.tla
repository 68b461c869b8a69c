----------------------------- MODULE StreamRegistry -----------------------------
(***************************************************************************)
(* How the batch-writer replicas discover the per-organisation streams:     *)
(* refresh scans for keys, creates the consumer group of the new ones at    *)
(* "$" and adds them to known; processBatchLoop reads every known key with  *)
(* one XREADGROUP.  The replicas share the streams and the group.           *)
(***************************************************************************)
EXTENDS Naturals, FiniteSets

CONSTANTS
    Replicas,    \* batch-writer processes
    Keys,        \* gps:batch:{org} keys
    Slots,       \* hash slots: the org is no hash tag, so each key may have any
    MaxEntries,  \* bound: entries written to one stream
    MaxFaults    \* bound: XGROUP CREATE calls that fail

ASSUME RegistryConstants == MaxEntries \in Nat /\ MaxFaults \in Nat

VARIABLES
    stream,    \* stream[k]: entries written; the key exists once there is one
    group,     \* group[k]: last delivered entry, or NoGroup
    start,     \* history: stream length when the group was created
    known,     \* known[r]: r.known
    pc,        \* pc[r]: "idle" or "create" (refresh is creating groups)
    fresh,     \* fresh[r]: newKeys of the refresh under way
    todo,      \* todo[r]: the newKeys still to be visited
    args,      \* args[r]: keys of the XREADGROUP in flight, {} if none
    slot,      \* slot[k]: the hash slot of k, chosen by the name of its org
    faults

registryVars == <<stream, group, start, known, pc, fresh, todo, args, faults, slot>>

NoGroup == MaxEntries + 1
HasGroup(k) == group[k] # NoGroup

RegistryInit ==
    /\ stream = [k \in Keys |-> 0]
    /\ group = [k \in Keys |-> NoGroup]
    /\ start = [k \in Keys |-> 0]
    /\ known = [r \in Replicas |-> {}]
    /\ pc = [r \in Replicas |-> "idle"]
    /\ fresh = [r \in Replicas |-> {}]
    /\ todo = [r \in Replicas |-> {}]
    /\ args = [r \in Replicas |-> {}]
    /\ slot \in [Keys -> Slots] /\ faults = 0

\* The mqtt-consumer adds an entry, and with the first one creates the key.
Produce(k) ==
    /\ stream[k] < MaxEntries
    /\ stream' = [stream EXCEPT ![k] = @ + 1]
    /\ UNCHANGED <<group, start, known, pc, fresh, todo, args, faults, slot>>

\* SCAN: the nodes it reached decide which of the existing keys it finds.
Scan(r) ==
    /\ pc[r] = "idle"
    /\ \E found \in SUBSET {k \in Keys : stream[k] > 0} :
          /\ fresh' = [fresh EXCEPT ![r] = found \ known[r]]
          /\ todo' = [todo EXCEPT ![r] = found \ known[r]]
          /\ pc' = [pc EXCEPT ![r] = IF found \subseteq known[r] THEN "idle" ELSE "create"]
    /\ UNCHANGED <<stream, group, start, known, args, faults, slot>>

\* XGROUP CREATE k group $ MKSTREAM; BUSYGROUP leaves the group as it is.
CreateOnRedis(k) ==
    IF HasGroup(k) THEN UNCHANGED <<group, start>>
    ELSE /\ group' = [group EXCEPT ![k] = stream[k]]
         /\ start' = [start EXCEPT ![k] = stream[k]]

CreateGroup(r, k) ==
    /\ pc[r] = "create" /\ k \in todo[r]
    /\ todo' = [todo EXCEPT ![r] = @ \ {k}]
    /\ \/ CreateOnRedis(k) /\ faults' = faults
       \/ /\ faults < MaxFaults      \* logged; `continue`
          /\ faults' = faults + 1
          /\ UNCHANGED <<group, start>>
    /\ UNCHANGED <<stream, known, pc, fresh, args, slot>>

\* The loop after it adds all the new keys, whatever became of their group.
Registered(r) == fresh[r]

\* Mutants: the keys are published before the groups are created; the new keys
\* replace the known ones.
RegisterEarly(r) ==
    /\ pc[r] = "create"
    /\ known' = [known EXCEPT ![r] = @ \cup Registered(r)]
    /\ IF todo[r] = {}
       THEN fresh' = [fresh EXCEPT ![r] = {}] /\ pc' = [pc EXCEPT ![r] = "idle"]
       ELSE UNCHANGED <<fresh, pc>>
    /\ UNCHANGED <<stream, group, start, todo, args, faults, slot>>
RegisterOverwrites(r) ==
    /\ pc[r] = "create" /\ todo[r] = {}
    /\ known' = [known EXCEPT ![r] = Registered(r)]
    /\ fresh' = [fresh EXCEPT ![r] = {}]
    /\ pc' = [pc EXCEPT ![r] = "idle"]
    /\ UNCHANGED <<stream, group, start, todo, args, faults, slot>>

Register(r) ==
    /\ pc[r] = "create" /\ todo[r] = {}
    /\ known' = [known EXCEPT ![r] = @ \cup Registered(r)]
    /\ fresh' = [fresh EXCEPT ![r] = {}]
    /\ pc' = [pc EXCEPT ![r] = "idle"]
    /\ UNCHANGED <<stream, group, start, todo, args, faults, slot>>

\* StreamArgs: the keys known now; none means the loop sleeps.
SendRead(r) ==
    /\ args[r] = {} /\ known[r] # {}
    /\ args' = [args EXCEPT ![r] = known[r]]
    /\ UNCHANGED <<stream, group, start, known, pc, fresh, todo, faults, slot>>

\* A Redis Cluster answers XREADGROUP with the new entries of every key, or with
\* an error and nothing: NOGROUP if one of the keys has no group, CROSSSLOT if
\* the keys are not all of one slot.
OneSlot(S) == \A j, k \in S : slot[j] = slot[k]
Readable(r) == \A k \in args[r] : HasGroup(k)
Answered(r) == Readable(r) /\ OneSlot(args[r])

ReadAnswer(r) ==
    /\ args[r] # {}
    /\ group' = [k \in Keys |-> IF k \in args[r] /\ Answered(r) THEN stream[k] ELSE group[k]]
    /\ args' = [args EXCEPT ![r] = {}]
    /\ UNCHANGED <<stream, start, known, pc, fresh, todo, faults, slot>>

Refresh(r) == Scan(r) \/ (\E k \in Keys : CreateGroup(r, k)) \/ Register(r)
Read(r) == SendRead(r) \/ ReadAnswer(r)

RegistryNext == \/ \E k \in Keys : Produce(k)
        \/ \E r \in Replicas : Refresh(r) \/ Read(r)

RegistrySpec == RegistryInit /\ [][RegistryNext]_registryVars

\* The refresh ticker and the read loop run for ever; a scan that is repeated
\* reaches, again and again, the node of each key.
ScanFinds(r, k) == Scan(r) /\ k \in fresh'[r]

FairRegistry ==
    /\ RegistrySpec
    /\ \A r \in Replicas :
          /\ \A k \in Keys : WF_registryVars(CreateGroup(r, k)) /\ SF_registryVars(ScanFinds(r, k))
          /\ WF_registryVars(Register(r)) /\ WF_registryVars(Read(r))

-----------------------------------------------------------------------------

(* No deafness to one organisation: with every XGROUP CREATE answered, each  *)
(* entry added after the creation of its group is delivered, whichever other *)
(* streams turn up in between and whichever replica registers them, as long  *)
(* as all the streams there are hash to one slot.  Streams of two slots end  *)
(* it for every organisation.                                                *)
EveryEntryDelivered ==
    \A k \in Keys, i \in 1..MaxEntries :
        (HasGroup(k) /\ start[k] < i /\ i <= stream[k])
            ~> \/ HasGroup(k) /\ group[k] >= i
               \/ faults > 0 \/ ~OneSlot({j \in Keys : stream[j] > 0})

(* Between two refreshes the read loop only names keys whose group exists,   *)
(* as long as no XGROUP CREATE failed: XREADGROUP answers NOGROUP otherwise, *)
(* for all the streams together.                                             *)
ReadsNeverDeaf == faults = 0 => \A r \in Replicas : Readable(r)
=============================================================================
