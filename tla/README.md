# Verification of the GPS tracking pipeline

TLA+ specifications, TLC model checks and TLAPS proofs for the four Go programs of
this repository: the orchestrator (`src/main.go`), `batch-writer`, `mqtt-consumer`
and `websocket-gateway`. Every definition is translated from the code; where the code
and its documentation disagree the models follow the code, and the disagreement is
listed under [Differences](#differences-between-code-and-documentation).

    trackers --MQTT--> mqtt-consumer --XADD gps:realtime:{org}--> websocket-gateway --WS--> clients
                            |
                            +--------XADD gps:batch:{org}------> batch-writer --INSERT--> ClickHouse
                                                                   |    ^
                                                                   +-DLQ+   gps:dlq:{org}
    orchestrator: starts, probes, restarts, scales and stops the three services

## Inventory

### Orchestrator (`src/main.go`)

| part | state | operations | shared with |
|---|---|---|---|
| pool scaling (`ServicePool.ScaleTo`, `addReplica`) | `instances` slice under `sp.mu`, the ports of the processes | clamp, read the size, add or cut, cancel what was cut | auto-scaler goroutine, one goroutine per `POST /scale`, `Stop` |
| supervision (`watchProcess`, `supervisionLoop`, `checkHealth`) | state and `unhealthyCount` of an instance under `inst.mu`, the context, the OS process | wait for the exit, back off, spawn again; probe without the lock, record with it, SIGTERM over the threshold | bootstrap gate, `Stop` |
| restart back-off | a local variable of `watchProcess` | x 1.5, cap, jitter | - |
| startup and shutdown (`Orchestrator.Start`, `Shutdown`, `main`) | pools started so far, root and pool contexts | start a pool, wait for its health, stop in reverse order | all watchers |
| auto-scaler (`evaluate`) | `ewmaLag` | sample the lag, smooth, decide on both pools | lag gauge of the batch-writers, `POST /scale` |
| control plane | - | `/health`, `/status`, `/scale` | pools |

Hard here: `ScaleTo` is not one critical section; the result of a probe is recorded
after the process it is about may be gone; a process may crash while it is being
spawned, probed, scaled away or shut down. Correct means: distinct ports, exactly the
replicas cut from the pool are stopped, a crashed replica comes back unless its
context is done, nothing survives the shutdown, a pool starts only behind pools found
healthy, a signal ends the program in every phase, and the decisions of the
auto-scaler have hysteresis.

### Batch-writer (`src/batch-writer/`)

| part | state | operations | shared with |
|---|---|---|---|
| cold path (`processBatchLoop`) | batch in hand | XREADGROUP, split good from malformed, INSERT, XACK, hand failures to the DLQ | stream, PEL, DLQ channel |
| DLQ (`AddMessages`, `ingestLoop`, `retryLoop`) | channel of batches, entry being retried, attempts in the payload | enqueue or drop, XADD to the DLQ stream, read, retry, acknowledge, requeue, give up | ClickHouse, both other loops |
| stream registry (`refresh`, `StreamArgs`) | `known` keys | SCAN, create groups, register, build the arguments of a read | other replicas through the group |
| lag gauge (`measureLag`) | a metric | XPENDING, maximum | auto-scaler |

Hard here: three loops, two external systems whose calls may fail after they took
effect, a bounded channel that drops, and an exit that waits for two of the three
loops. Correct means: acknowledged implies inserted, retries are bounded, a row is
doubled only by an insert whose failure was not one, no entry is in two places, and
every entry is settled.

### MQTT consumer (`src/mqtt-consumer/`)

| part | state | operations | shared with |
|---|---|---|---|
| receive loop and workers | input channel | receive or drop; parse, enrich, filter, write to both streams | flusher, buffer |
| back-pressure (`BackpressureBuffer`, `timedRedisWrite`, `flushBuffer`) | two queues under a mutex, `degraded` flag outside of it | push with eviction, drain critical events first, write again, put failures back | workers and flusher |
| enrichment and movement filter | striped per-vehicle lock, last state of a vehicle in Redis | lock, load, compare, store, unlock, route to one or both streams | workers, and those of the other replicas through Redis |
| MQTT client, NMEA parsing | - | paho callbacks, text | - |

Hard here: workers push while the flusher drains and puts back; a write that timed out
may have been applied; `main` returns without waiting for the last flush. Correct
means: bounded memory, one owner for each event, an event is lost only at a place that
is known, a critical one only where it is counted, a
duplicate only after a write in doubt, no event left over while Redis is healthy, and a
vehicle that moved far from the state it replaces is shown.

### WebSocket gateway (`src/websocket-gateway/`)

| part | state | operations | shared with |
|---|---|---|---|
| connections | `writeChan`, drop counter, closed channel, subscription count | read loop, `writeLoop`, `Send`, `Close`, initial snapshot | dispatcher |
| vehicle index | `byVehicle`, `byOrgAll` under an RW lock | subscribe, unsubscribe, `RemoveAll`, `Dispatch` | all connections |
| stream dispatcher (`EnsureOrg`, `readOrgStream`) | one reader per org | create the group, read, dispatch, acknowledge | other gateways through the group |
| rate limiter | token buckets per address, three atomic fields | refill: load, store, load, store; take: load, compare-and-swap | all handlers of `/ws` |
| authentication | the blocklist in Redis | validate the JWT, look up its jti, upgrade | auth service |

Hard here: `Dispatch` runs while connections come, go and change subscriptions; two
goroutines and two buckets send to one bounded channel; the reader of a socket never
learns that its connection is being dropped; the fields of a token bucket are atomic
one by one, the refill is not. Correct means: positions stay in their org, the live ones
arrive in order and reach every subscriber; the limit counts what is in the index; a removed
connection is forgotten; a client that does not read is disconnected; an address gets
its rate; a revoked token is not served.

Configuration, metrics, tracing, the ClickHouse schema and the cluster scripts have no
behaviour of their own to check (`PROJECT.json` lists them with the reason).

## Modules

`EXTENDS` and `INSTANCE` between them:

    EntryLifecycle <-INSTANCE- BatchWriterProps -> BatchWriter
    BatchWriterProofs -> BatchWriterProps, StreamRegistry
    SupervisionProofs -> ReplicaSupervision -> RestartBackoff
    ScalingProofs -> AutoScaler -> PoolScaling
    OrchestratorProofs -> Orchestrator
    WorkerPoolProofs -> WorkerPoolProps -> WorkerPool
    EnrichmentProofs -> Enrichment
    GatewayClientsProofs -> GatewayClientsProps -> GatewayClients
    GatewayProofs -> Admission, GatewayFanout
    MC<module>: the constants of one module for TLC

Names of operators are those of the Go functions where there is one. `pc`, `at`,
`phase` hold the position of a goroutine between two calls that other goroutines can
interleave with; code that touches only local state belongs to the step before it.
Variables marked *history* in a module do not exist in the code: they record what a
property needs and no guard reads them.

**BatchWriter** (cold path and DLQ of one process). One entry of the stream is an
element of `Events`; Redis (`queued`, `pending`, `dlq`, `dlqPEL`) and ClickHouse
(`rows`) survive a crash, the memory of the three loops does not. `ReadBatch`,
`WriteToClickhouse`, `AckRedisMessages`, `RejectMalformed` are the calls of
`processBatchLoop`; `Ingest*` and `Retry*` those of the two DLQ loops, with the
attempts carried in the entry as the payload does. Every INSERT may succeed, be
refused, or fail after it was applied, and may leave out any of its rows (`kept`), whose
`Append` failed and was only logged: `InsertBatch` returns nil all the same. What the
ClickHouse client makes of a `Send` after a failed `Append` is outside of the
repository, so both a failure and a success without the row are possible. `RetryDrop` is
`retryOne` on an entry it cannot parse, which `ingestLoop` writes when `json.Marshal`
fails (`Unreadable`). Every reply may be lost; XADD may trim.
`SigTerm`, `Exit`, `Crash`, `Kill`, `Restart` are what the orchestrator and fate do.
`EntryLifecycle` is the abstract promise for one entry, and `ImplementsLifecycle` the
refinement: `StatusOf` maps the state of all loops to the place of an entry.

**StreamRegistry** (discovery of streams by several replicas). `Scan` finds any
subset of the existing keys, `CreateGroup` visits them one by one, `Register` adds all
of them to `known`, `SendRead` and `ReadAnswer` are the two ends of an XREADGROUP over
every known key, which Redis refuses as a whole when one key has no group, or when two
keys are of different hash slots (`slot`, chosen at the start: the org is no hash tag).

**PoolScaling** (`ScaleTo` by concurrent callers). The critical sections of `ScaleTo`
and `addReplica` are steps; the slice is modelled as Go has it, a backing array with a
length and a capacity that `toStop` shares, so that a later append may overwrite what
is still to be stopped (`overwritten` records which); up to 256 elements `append`
doubles the array, which is why
`MaxReplicas` is assumed not to exceed that. Nothing serialises the callers, and up to
`MaxUnderWay` calls overlap (`overlapped`). A slice bound out of range panics with the mutex held. Each
process that was spawned `Bind`s the port of its index or finds it taken and is deaf;
`Killed` follows the cancellation of its context, `Restarted` is the SIGTERM of the
failing health checks with the restart by the watcher.

**AutoScaler** (`evaluate` and the overrides) is the specification made of them:
`evaluate` and the handlers of `POST /scale` are the callers of `PoolScaling` for the
mqtt-consumer pool. The float64 average is near the rational `ewma / scale`, whose
denominator grows with every sample: `Smoothed` is the set of integers that truncation
can give for a number nearer to it than `1 / Precision`, so an average that is exactly a
threshold may come out one less. The websocket-gateway pool, which `evaluate` sets from the first one, is a number.

**ReplicaSupervision** with **RestartBackoff** (one replica). The process boots,
serves, hangs, drains or is gone; `WatchExit`, `BackoffCancelled`, `Respawn` are
`watchProcess`; `Probe` and `Record` are the two halves of `checkHealth`, run by the
supervision loop and by the bootstrap gate at the same time; `Cancel` is the scale-down
or shutdown. The back-off is in integer units, with the code's integer growth, its cap
and then its jitter. The cap is not validated by the code and chosen from `Caps`: with
less than four units the quarter is zero and `rand.Int63n(0)` panics (`BackoffPanics`),
which ends the whole orchestrator.

**Orchestrator** (three pools, two slots each): `Start` with its gate, the signal,
`Shutdown` in reverse order, the watchers that may spawn a process again in between,
and the auto-scaler or `POST /scale` adding the second replica of a pool (`Spawn`,
`Append`, `Watch`, the three moments of `addReplica`) or taking it away (`ScaleDown`) at
any moment. `listed`, `watched` and `removed` are the slice, the wait group and the
contexts cancelled one by one: the three things `Stop` goes by, which disagree in the
middle of a scale-up. `CancelPool`, `StopPool` and `PoolStopped` are the cancellation of
the pool, its first and its second critical section. A `ScaleTo` that panics on a slice
bound leaves the mutex of its pool held (`PanicWithLock`, `held`), and whoever needs it
next blocks.

**WorkerPool** (one mqtt-consumer): an event is its place in the order of arrival.
`Take` parses, enriches and filters; `Write` is `timedRedisWrite`; `HandleBackpressure`
the rest of a worker's iteration with the `Push` into the buffer; `FlushTick`, `Drain`,
`NextDrained`, `Requeue` are the flusher. An event that is let go is recorded under its
cause, counted ones (`Counted`: malformed, channel full, critical half full, a filtered
event that misses the batch stream) and silent
ones (`Silent`: the eviction of the oldest normal event, the end of the process);
`missed` has those whose XADD to the batch stream failed, `BatchFails`, after the one to
the realtime stream. The latency behind the `degraded` flag is
chosen freely after each write, and so is the verdict of the movement filter.

**Enrichment** (the workers of several replicas) details that verdict. `Lock`, `Read` and
`Store` are the critical section around `enrichEvent`: one read pipeline, one write
pipeline, both with discarded errors, so a read may fail, and a write that timed out may
have been applied, be lost, or arrive when the lock was long released (`ApplyLate`). The
lock orders the workers of one process; the state of a vehicle is common to all
replicas, each of which gets every message. A state expires (`Expire`). `Route`,
`AddRealtime`, `AddBatch` and `AddFiltered` are the writes after the unlock: a failed
write to the batch stream is `counted` for a filtered message and only `logged` for a
broadcast one. What enters the
back-pressure buffer there is followed by `WorkerPool`. `MustShow` compares a message with
the state it *replaces*, the code with the one it *read*.

**GatewayClients** (connections, index and `Dispatch` of one gateway) has each
goroutine of a connection. The lock of the index is `Unlocked`: a writer waits for all
`Dispatch` calls. `Send` keeps Go's choice among ready cases of a `select`. The snapshot
of `sendInitialPositions` has contents: for each vehicle any place in the order of its
positions, or none, since the query reads what the batch-writer has inserted by then,
`anyLast` need not be the newest of the five minutes, and ClickHouse may be behind the
gateway or ahead of it. `shown` is what a client has seen last of a vehicle, `setBack`
where the snapshot took it back.

**GatewayFanout** (the readers of all gateways on one consumer group): the position of
the group, the pending entries and the entries in the hands of each reader. `Publish`
trims: any number of the oldest entries beyond the last `MaxLen` may go, and those the
group had not read are `cut`. A client is offered an entry once per way it is subscribed
(`Asked`: in `byVehicle`, in `byOrgAll`). `Dispatch` is one step here; a crash between it
and the XACK is `AckFails` followed by `Exit`. The two gateway modules share the notion of a subscriber;
one details the delivery inside a process, the other what reaches the process.

**Admission** (the handler of `/ws` up to `HandleConnection`): `checkRateLimit` has a step
for each atomic operation on a bucket, so handlers interleave between the load and the
store of a refill; then the outcome of `authenticateJWT` (of the token alone: the moment
it expires decides like an invalid signature, and is fixed for a request), the look-up of the jti
(`isTokenRevoked`, which lets a token pass without an answer) and the upgrade. The auth
service revokes tokens and the clock ticks at any moment.

## Runs

| run | question | instance |
|---|---|---|
| `BatchWriterAll` | Is the cold path safe, is it an implementation of the lifecycle, is every entry settled? | a good and a malformed entry, batches of 2, channel of 1, 2 retries, streams that may trim at 1, any rows left out of any INSERT, one crash or stop |
| `Registry` | Are reads of several streams never refused for all, and every entry delivered? | 2 replicas, 2 streams of one hash slot or of two, 2 entries each, one failing group creation |
| `ScalingAll` | Does `ScaleTo` stop what it takes away although calls overlap, do decisions have hysteresis, who undoes whom, who ends up with a port? | pool of 1 to 3, 3 samples of a lag at the lower threshold, between the two, or far above, one override to 1 or 3 that may overlap the auto-scaler's call, one failing spawn |
| `ScalingPorts` | Are ports distinct when two calls overlap? **Violated** | pool of 1 to 4, one sample and one override that may overlap |
| `SupervisionAll` | Do gate, checks, restarts and shutdown of a replica get along? | threshold 3, gate deadline 4, 2 crashes or hangs, 2 failed spawns or lost probes, back-off from 4 to a cap of 8, or a cap of 0 |
| `OrchestratorAll` | Startup order, nothing left behind, end on a signal | 3 pools, the first and the third scaled, 2 crashes, handlers that panic with the mutex, signal at any moment |
| `PoolAll` | Is every event accounted for between workers, buffer and flusher? | one worker and the flusher, 5 events (one malformed, two critical), buffer of 2, 3 failing writes, stop and exit at any moment |
| `EnrichmentAll` | Does the lock make distances right, is every copy stored, counted or logged, does everyone get through? | 2 workers of one replica and one of a second that joins at the third message, 2 vehicles on one stripe, 3 messages of 3 scenarios (jump and return, drift with a pause and a panic button, a clock going back), one fault among failed and late calls and expiry |
| `ClientsAll` | Isolation, index, order of positions, slow clients | one client with up to two ways to be subscribed, a snapshot older or newer than the live positions, answers and lists with repetitions, 2 requests, 2 vehicles and 2 positions of 2 orgs with the same IDs, limit 2, buffer of 2, closed after 2 drops |
| `AdmissionAll` | Do buckets keep their bounds and the rate, does a revoked token stay out? | 3 requests from one address (a good token, one without jti, an invalid one), burst of 2, a token per 2 units, 3 units of time, one failing look-up |
| `FanoutOne` | Does one gateway offer every position to every subscriber, once? | 2 clients, one subscribed in both ways, a stream that keeps at least its last 2 entries, 3 entries (one malformed), 2 faults among restarts, lost answers, failed acknowledgements and group creations |
| `FanoutTwo` | And two gateways? **Violated** | a client on each of 2 gateways, no fault |

What they show, beyond the names of the properties in `PROJECT.json`:

- *BatchWriterAll*: an entry leaves the PEL only after an INSERT that ClickHouse took,
  with its row stored unless `Append` had refused it, although a failed
  batch, its DLQ copy and a restart are about the same entry. That exception is a loss
  nobody learns of but the log. The ledger in the payload
  bounds the inserts by `MaxRetries + 1`. Only an insert that failed after it was
  applied makes a second row. The batch-writer *does* lose entries, each for one of the
  causes in `Causes`: its row was left out of an INSERT ("append"), the batch stream was
  trimmed ("trimmed"), or the code let go of it ("dropped": a full channel, a trim of the
  DLQ stream, an unreadable DLQ entry, retries used up, a lost answer, the end of the
  process: an entry left in the PEL is never claimed, because reads ask for `>` only). The
  lifecycle therefore has edges to "lost", and the properties say that nothing is lost for
  any other cause, not that nothing is lost.
- *Registry*: the two properties carry `faults = 0` or `faults > 0`, because one failed
  creation makes every later read fail; and delivery is claimed of streams that share a
  hash slot, because a read over two slots is answered with CROSSSLOT for ever (the run
  has both); see Differences.
- *ScalingAll* and *ScalingPorts* are the same specification: what survives the overlap of
  two calls, and what does not. The slice bookkeeping is exact but for one aliasing: an
  append of one call may overwrite an entry of another's `toStop`, and then the new
  replica is stopped in place of the old one (`overwritten`). The override may fall
  between the moment `evaluate` reads the size and the call it makes with it, or be under
  way then: the only ways a decision to scale up takes replicas away. An average equal to
  a threshold may be truncated below it, so hysteresis asks for a sample *at or below* the
  lower threshold. A scale-up gives an index away while the stopped process still has its
  port; the new replica is then deaf, its checks are answered by the old one, and only the
  failing checks after that bring it to its port. That last property alone exempts
  runs in which calls overlapped, since two replicas may share an index after that.
- *SupervisionAll*: `unhealthyCount` outlives a restart and a probe of the old process
  may be recorded for the new one, yet the recorded state catches up with a process
  that serves, the gate opens only for a pool that answered, and the watcher of a
  cancelled replica always ends with its process.
- *OrchestratorAll*: a replica whose `addReplica` was under way, or which a scale-down had
  just taken out, is invisible to `Stop`; `missed` records exactly those, and nothing else
  outlives the drain of its pool. A signal ends the program in every phase, unless a
  panic left the mutex of a pool held: then `Stop` waits for it for ever.
- *PoolAll*: critical and normal events share the buffer at its limit while failed
  events are put back in; an event is in one place, and is let go at a known place. Two
  of these are silent, the eviction of the oldest normal event and the end of the
  process; critical events are never evicted, and reach the realtime stream before the
  batch stream misses them. None is left in the buffer while Redis accepts writes.
- *EnrichmentAll*: within a process the lock does what its comment says, although it is
  shared by vehicles and both pipelines swallow their errors; the exemptions in `MustShow`
  are what no lock of a process can order. A copy that misses the batch stream was either
  filtered and is counted, or broadcast and is in the realtime stream with a log line.
- *ClientsAll*: the two buckets, the answers and `Dispatch` send live positions in the order
  of the stream. The snapshot is outside of that order: it may set a vehicle back behind
  what the client has seen, or ahead of it so that the next live one does, but each
  vehicle once per connection at most.
- *FanoutOne*: the pending entries of a restarted gateway are never read again, which is why
  nothing is offered twice; entries trimmed before the reader gets to them (`cut`) are
  lost without a fault of anyone.
- *AdmissionAll*: takes and refills that overlap are lost or created in the bucket, but
  never beyond the burst or below zero; the exact rate is claimed for the buckets in
  which no refill overlapped another call (`mixed`).
- *FanoutTwo* is the counterpart of *FanoutOne*: the property that holds for one
  gateway fails for two, since consumers of one group share the entries out.

**Bounds.** A constant named `Max...` or commented as a bound caps an unbounded
counter: entries, messages, crashes, faults, calls under way, requests, samples, time. Each instance reaches the
limits the code has: the DLQ channel full, both streams trimmed, the retries exhausted,
both halves of the buffer full and evicting, the write buffer full and the drop
threshold passed, the subscription limit met, the health threshold and the deadline of
the gate reached, the cap of the back-off hit, the pool at its minimum and maximum, a
bucket full and empty. Two entries are enough for the cold path
because an entry influences others only by sharing a batch or a queue slot; two
replicas or handlers are the least that interleave. `ClientsAll` has one client, because
connections share only the index and its lock: the client meets a writer of the index
in its own reader, its cleanup and `Dispatch`, and `OrgIsolation` needs a position of
another org, not another client. `PoolAll` has one worker: the flusher is the second writer
it shares the buffer and the `degraded` flag with, and workers share nothing else with
each other.
`CHECK_DEADLOCK FALSE` is given where the bounded environment comes to rest (all
messages arrived, all calls made, the process stopped); `Registry` never rests.

**Fairness.** Weak fairness of a goroutine's steps: the Go scheduler runs what can run,
and a network call that can be answered is answered or times out. Strong fairness only where a step
is disabled again and again by an answer that is an error: `ReadBatch` and `RetryRead`
(a repeated read is answered some time) and the SCAN of the registry (a repeated scan
reaches each node some time); and of `Lock` in `Enrichment`, which another worker
disables again and again: a Go mutex is handed to the waiter that waits longest once it
starves. The steps of the environment that help are assumed where
the operating system or the orchestrator gives them (SIGKILL is delivered, a booting
process comes up or dies, a process without its port is restarted by its watcher, a
stopped service is started again); crashes, faults,
clients, requests and signals never are. In particular nothing is assumed of a client's
reads in `SlowClientsLeave`, and nothing forces the restart of a gateway.

## Proofs

TLAPS checks every leaf; the constants are arbitrary within the named assumptions
(`ConstantsOK`, `RegistryConstants`, `BackoffConstants`, `SupervisionConstants`,
`OrchestratorConstants`, `EnrichmentConstants`, `AdmissionConstants`,
`ClientConstants`, `PoolConstants`, `ScalingConstants`, `ScalerConstants`,
`FanoutConstants`), which TLC evaluates too. Every invariant and every action property
that a passing run checks is proved, and the refinement of the cold path is.

- `BatchWriterProofs!TypeCorrect`: the types of the cold path, the bound of the DLQ
  channel among them, for any set of entries, batch sizes, capacity and retry limit.
- `BatchWriterProofs!AckedIsInserted`: `Spec => []AckedImpliesInserted`. It is not
  inductive by itself: the step that acknowledges must know that the batch in hand was
  inserted. `AckInv` adds just that (`bpc = "ack"` implies for all of `hand` the row, or
  the refusal of `Append`) and that no malformed entry is in hand. Its preservation has one
  case per action; most change neither the PEL nor the queue and are instances of one
  lemma (`AckedFrame`), reading a batch needs that `Taken` and `Rest` cover the queue
  (`TakenRestCover`), and trimming that the entry it removes is recorded.
- `BatchWriterProofs!RetriesBounded`, `OnlyAmbiguousTwice`, `OnePlace`: `RetryBudget`,
  `DuplicateOnlyIfAmbiguous` and `OneCopy` come from one invariant, `FlowInv`, because
  none of them is inductive without the others. `Single` and `Apart` say that an entry, or
  the message about it in the DLQ pipeline, is in one place, once; a step that moves it
  from a place empties the old one only because of that. `InHand` ties what a loop holds
  to its position, `Stored` says that what is about to be acknowledged after a success
  has its rows. `Accounts` compares the histories: the inserts tried agree with the
  ledger in the payload (`LedgersOK`, `UntriedOK`), two messages about one entry are one
  (`Distinct`), what is on its way was not given up (`Live`), and no entry is nowhere
  (`Somewhere`).
- `BatchWriterProofs!RefinesLifecycle`: `Spec => ImplementsLifecycle`. `FlowInv` makes
  `StatusOf` a function of the one place an entry is in, so each action moves the status
  of the entries it handles along an edge of `EntryLifecycle` and leaves the others
  alone: one lemma per action, and the stutter of the actions that only change positions.
- `SupervisionProofs!TypeCorrect`: the counter of bad checks stays below the threshold
  and the gate within its deadline, for every threshold and deadline.
- `SupervisionProofs!GateOpensForServed`: `Spec => []ReadyMeansServed`. The gate looks
  at the state, which both checkers write, so the strengthening `GateInv` says that a
  running state means a probe was answered, and that a gate still probing is within
  its deadline.
- `SupervisionProofs!BackoffStaysBounded`: the integer argument that growth by half
  outweighs the jitter until the cap, from where the jitter moves the back-off by less
  than a quarter; for every cap, since a back-off below four units panics before the
  jitter.

- `BatchWriterProofs!NeverDeaf`: `RegistrySpec => []ReadsNeverDeaf`. A key enters `known` after
  its refresh went over all fresh keys, so the invariant (`HasGroups`) speaks of the keys
  known, the keys of a read under way, and the fresh keys already visited.
- `OrchestratorProofs!StartsInOrder` and `StopIsForGood`: `StartOrder` and
  `StoppedForGood`. `Progress` ties the position of `main` to the two histories: pools
  before the current one are ready, a pool that was stopped has its context cancelled,
  which is why no watcher spawns in it again.
- `EnrichmentProofs!NoBigMoveLost`: `Spec => []BigMovesSeen`. The invariant has mutual
  exclusion on the stripes (`Locked`) and, from it, that what a worker read is still the
  state of its vehicle when it stores, unless the state was written late, by another
  replica, or expired (`ReadIsFresh`); hence the distance it computed is the distance to
  the state it replaces. Stripes, vehicles and replicas are arbitrary.
- `EnrichmentProofs!DeliveriesAreKept`: `Spec => []EveryDeliveryKept`. A message below
  `next` that is in no other place is in the hands of a worker, and the last write of
  each worker puts it into the batch stream, the buffer or among the counted or logged
  errors before the worker is free for another. A message is in the hands of one worker
  of its replica (`TakenOnce`), so what is known of its earlier writes is still true at the
  last (`Traced`: logged copies are in the realtime stream, counted ones are not).
- `GatewayProofs!BucketsBounded` and `RevokedNotServed`: a handler about to take a
  token has loaded a positive number (`SawToken`), and one that is past the blocklist with
  a token revoked before is `blind` (`PastBlocklist`).
- `GatewayProofs!RateIsRespected`: `Spec => []RateRespected`. The bound is over the clock,
  the refill is over the two stamps it divides, so `RateInv` follows what a bucket has
  earned by its last refill: before the first refill nothing was taken (`Untouched`), and
  a refill under way is worth no more than the time since the last one (`RefillDue`); two
  lemmas on `\div` say that the parts of an interval refill no more than the whole.
- `GatewayProofs!NothingTwice`: `FanoutSpec => []OfferedOnce`, for any number of gateways
  and over restarts and new connections, since the history of offers is never reset.
  What is in hand was delivered by the group, once, to one reader (`Apart`), and entries
  leave a hand at its head (`TailEntries`), so what was offered is behind the group and in
  no hand any more (`OnceOnly`).
- `GatewayProofs!OneGatewayReachesAll`: `FanoutReachesAll` when `Gateways = {g}`. Reading
  moves the group and fills the hand, or counts as missed, and passes over no entry but
  those cut (`Trimmed`); a new subscription or a new
  group starts with nothing delivered, because the group is never ahead of the stream;
  what leaves the hand is offered to every subscription, since all are on `g`. The last
  fact is what `FanoutTwo` lacks.
- `GatewayClientsProofs!OrgsAreIsolated`, `RemovedIsForgotten`, `CountsAreExact`:
  every message in a channel and every place a `Dispatch` still has to visit is of the org
  of its connection (`Addressed`, `Calls`); a removed connection is in no bucket and in no
  such place, because `RemoveAll` waits for the lock. The count is a second induction over
  the cardinality of the bucket (`Exactness`), for any request lists and repetitions.
- `GatewayClientsProofs!NoClientGoesBack`: `Spec => NeverBackwards`. Every channel rises
  from the position last written to the newest its org's reader has dispatched
  (`Rising`, `InOrder`). It does because an org has one reader: until its `Dispatch` ends
  no newer position is sent, by either bucket (`Newest`), whatever the goroutines of the
  connection put in between. The second half of the property is about the snapshot:
  `SnapInv` follows the one snapshot of a connection from the query to the socket
  (`OneSnapshot`): until it is there, a client has only live positions (`NotAhead`).
- `WorkerPoolProofs!BufferIsBounded` and `NothingIsLost`: `BufferBounded` and
  `NothingVanishes`. An event that is not gone has an owner: a channel, a queue of the
  buffer, a goroutine or the lists of the flusher (`Kept`); a goroutine has an event in
  hand exactly in the middle of a write (`Hands`), and a write without error left a copy
  (`Copies`), so the step that lets go of it loses nothing. `CritInv` adds that the two
  halves of the buffer hold what they are named for (`Sorted`), so that evictions are of
  normal events, and that the batch stream is tried second (`RealtimeFirst`). The lemmas on `Elements` say
  what `Append`, `Head`, `Tail`, `SubSeq` and `\o` do to the set of queued events.
- `WorkerPoolProofs!EventHasOneOwner` and `NoNeedlessCopies`: `OneOwner` and
  `DuplicateOnlyInDoubt`. `OneOwner` counts the places of an event, so the proof counts
  too: each step takes one from a place and adds one to another, by lemmas on the number
  of occurrences in `Append`, `Tail`, `SubSeq` and `\o` and on the cardinality of the set
  of goroutines that hold the event. What was written without doubt has no owner but the
  worker or flusher that has just written it (`Written`), hence no second copy.
- `ScalingProofs!StoppedIsWhatLeft` and `OverridesExplainUndoing`: `StopsWhatLeft` and
  `OnlyOverridesAreUndone`, for any number of calls that overlap. In `PoolInv`
  the slice holds each spawned process once (`Slice`), what a call has still to do is well
  formed (`Calls`), and a process is doomed just when it has left, unless an append
  overwrote its entry or put it there (`LeftIsDoomed`, with `Lost` and `Mistaken`).
  `EvalInv` adds that, while no request of an operator is under way since `evaluate` read
  the size, that size stays the size and the clamped target lies on the side of the
  decision (`Undisturbed`).
- `ScalingProofs!DecisionsAreHysteretic`: `Spec => HysteresisHolds`, however calls overlap
  and for every `Precision`. A weighted mean of values that are not low is not low
  (`MixStaysAbove`, `MixStaysBelow`): `Remembers` keeps `ewma >= (ScaleDownLag + 1) * scale`
  from a scale-up to the next sample at or below the threshold, and the like for high
  samples; no integer that truncation can give for a number that close is on the other
  side of a threshold (`Thresholds`).

Only model-checked: the liveness properties (`EverySettled` twice,
`EveryEntryDelivered`, `StatusCatchesUp`, `CrashedIsRestarted`, `CancelledIsFinal`,
`PortsAreTakenOver`, `SignalEndsIt`, `EveryoneGetsThrough`, `SlowClientsLeave`,
`EveryoneServed`), which need fairness and ENABLED; and what the two runs that expect a
violation refute.

## Not modelled

The MQTT client and the NMEA parser deliver a message that is good or malformed; JWT
validation has an outcome per request; the lag gauge is an input of `AutoScaler`; the
contents of ClickHouse rows do not matter to any property
(so the blank row that the retry of a rejected message inserts is not told apart from
another row). Retries inside the Redis client, which may apply an XADD twice, are left
out: a command is applied once or not at all. The end of the orchestrator by the panic of
the auto-scaler or of a watcher is followed in `PoolScaling` and `ReplicaSupervision`, not
in `Orchestrator`. A back-pressure buffer of capacity 0, which the code does not reject,
is excluded. The gauges `dlqDepth` and the connection counts influence no decision.
The buckets of the rate limiter are never evicted (`websocket-gateway/internal.go:679`),
which is memory and no behaviour. With `USE_GO_RUN` the process that SIGKILL ends is
`go run`, whose child may go on (`main.go:596`): the models have the compiled binary. The
end of a process under failing checks is followed in `ReplicaSupervision`, for one
replica, with its count of failures; `PoolScaling` has only its outcome. Health checks of
the services' own `/health` handlers are the external process of `ReplicaSupervision`.
Configuration, metrics, tracing, the schema and the shell scripts have no behaviour to
check beyond the values they give, which are constants.

## Differences between code and documentation

Found while modelling. Two are checked as runs that TLC refutes (`ScalingPorts`,
`FanoutTwo`); the others are read off the code, the models do what it does, and the
passing properties are stated with these facts in mind.

| code | what it does, and what is said of it |
|---|---|
| `batch-writer/main.go:575` | On SIGTERM main calls Stop, which only closes channels, and returns: messages read, waiting in the DLQ channel or being retried are discarded with the process. README.md:624 says of the drain window "This allows the service to flush all pending Redis stream messages to ClickHouse before exiting." |
| `batch-writer/internal.go:603` | XReadGroupArgs.Block 0 makes go-redis send BLOCK 0, which waits without limit for an entry. batch-writer/internal.go:603 says "non-blocking: return immediately if no messages". |
| `batch-writer/internal.go:186` | refresh puts every fresh key in known, also those whose XGroupCreateMkStream failed, so they are never fresh again. batch-writer/internal.go:177 says "don't add to known — retry next refresh cycle". |
| `main.go:547` | addReplica reads the index under the lock and appends under another acquisition of it: two concurrent ScaleTo give two replicas one index. README.md:706 says "Each replica binds to a unique port (`BasePort + replicaIndex`)." |
| `main.go:493` | ScaleTo compares with a size it read before releasing the lock: two concurrent calls both add. README.md:577 says "Replicas are clamped to `[MinReplicas, MaxReplicas]` silently." |
| `main.go:511` | The scale-down slices instances[n:] after the pool became shorter than n: the index panic is recovered by net/http with the pool mutex held, and the auto-scaler blocks on it. README.md:565 says of a manual override "The auto-scaler continues to run". |
| `main.go:731` | Above the threshold checkHealth sends SIGTERM only, again and again; a process that hangs without reacting is never killed, so watchProcess never restarts it. README.md:92 says of UNHEALTHY_THRESHOLD "Consecutive health failures before a replica is restarted". |
| `main.go:333` | watchProcess never sets StateStopped when a process crashes (only when its context ends), so allStopped is false and the gate waits for its timeout. main.go:324 says "Detect early: if every instance is in StateStopped, the processes crashed immediately — no point waiting for timeout." |
| `main.go:1304` | The signal cancels the root context that every exec.CommandContext was started with: all services are killed at once. README.md:620 says "the orchestrator tears down the pipeline in reverse dependency order". |
| `main.go:451` | Stop cancels the pool context first, on which os/exec kills the processes while they drain. main.go:448 says "It sends SIGTERM and waits up to timeout before SIGKILL." |
| `main.go:668` | The back-off is capped at RestartBackoffMax and then up to a quarter of it is added as jitter. README.md:93 says "Cap on exponential restart back-off". |
| `mqtt-consumer/main.go:360` | With no normal event to evict, Push appends a normal event to a buffer already holding capacity events. env.example:161 says "Backpressure: capacity of the local ring buffer." |
| `mqtt-consumer/main.go:349` | Push drops a critical event when critical events fill half of the capacity, whatever room the other half has. env.example:162 says "first (hot-path-first) when the buffer is full; critical events are retained." |
| `mqtt-consumer/main.go:486` | A slow write sets the degraded flag, but no write path consults it: the next event is still sent to Redis and only an error diverts it. env.example:157 says "Backpressure: Redis XADD wall-clock latency (milliseconds) above which events are diverted to the local in-memory ring buffer instead of Redis." |
| `mqtt-consumer/main.go:547` | Failed events are pushed back and flushBuffer returns only when the flag is set at that moment; drain and push can follow one another without a pause while Redis refuses every write. mqtt-consumer/main.go:548 says "if Redis is still degraded, stop the drain to avoid a busy-loop hammering a broken connection." |
| `mqtt-consumer/internal.go:515` | A failed XADD to the batch stream is logged and nothing retries it: the batch-writer never learns of the event. mqtt-consumer/internal.go:516 says "Not returned — batch errors don't trigger backpressure; the batch-writer has its own retry / DLQ path." |
| `mqtt-consumer/internal.go:474` | Every message replaces the state it is compared with, so a vehicle that drifts in small steps, with messages close in time, is never broadcast however far it gets; nor is its first message, the first after 30 s of silence, or one whose read failed. env.example:148 says "Movement filter: minimum displacement (metres) before an event is forwarded to the realtime stream." |
| `mqtt-consumer/internal.go:475` | Distance and time are alternatives: a vehicle that moves more than the distance is broadcast with every message. env.example:152 says "minimum seconds between successive broadcasts for the same vehicle regardless of distance." |
| `mqtt-consumer/internal.go:132` | Topics are subscribed to without a shared group: all replicas get every message and replace one state, behind locks of one process each. mqtt-consumer/main.go:470 says "stripedLock serializes concurrent enrichment for the same vehicleID so two workers can't both read stale state, compute wrong distance, and overwrite each other." |
| `mqtt-consumer/internal.go:150` | The error of the first connect is logged and nothing connects again: the client retries only connections it had. mqtt-consumer/internal.go:151 says "(will retry)". |
| `websocket-gateway/internal.go:701` | The refill stores the sum of what it loaded and the new tokens: takes in between are overwritten and two refills of one interval may both count. env.example:199 says "Per-IP connection rate limit." |
| `main.go:562` | A replica spawned but not yet appended, or just cut by a scale-down, is not in the slice when Stop signals and waits: the process outlives the orchestrator if it returns first. README.md:626 says "If any pool exceeds its drain window, surviving processes receive `SIGKILL`." |
| `main.go:803` | The first sample becomes the average unsmoothed, and with alpha 0.3 a sample above 3.4 times the threshold passes it alone: a single sample adds two replicas. main.go:752 says "EWMA prevents single-sample spikes from causing scale thrash." |
| `main.go:814` | evaluate computes currentMQTT + 2 from a count it read earlier: after an override in between, the scale-up decision removes replicas. README.md:598 says "lag > SCALE_UP_LAG → mqtt-consumer replicas += 2  (up to MaxReplicas)". |
| `main.go:843` | When no batch-writer answers sampleStreamLag returns 0, which is averaged like a measured lag. README.md:95 says of SCALE_DOWN_LAG "Redis stream lag below which a replica is removed". |
| `main.go:834` | targetWS is mqtt/3 + 1 in integer division, one more than ceil(mqtt/3) when three divides mqtt. README.md:603 says "WebSocket gateways scale as a trailing ratio: `ceil(mqtt_replicas / 3)`". |
| `websocket-gateway/main.go:513` | The gauge grows by len(toAdd) and shrinks by len(VehicleIDs), whether or not the vehicles were new or known, while the index and the count change by the new ones only. websocket-gateway/main.go:312 says "Active vehicle subscriptions per org". |
| `websocket-gateway/internal.go:449` | A connection in byVehicle and byOrgAll gets the position twice and is counted twice. websocket-gateway/internal.go:440 says "Returns the number of connections successfully reached." |
| `websocket-gateway/internal.go:286` | When closed is closed and writeChan has room, the select of Send may take either: a closed connection accepts the message and Send returns true. websocket-gateway/internal.go:283 says "Returns false if closed or the write buffer is full (slow client)." |
| `websocket-gateway/main.go:397` | MaxConnections is loaded and never compared with the number of connections. env.example:188 says "Maximum simultaneous WebSocket connections per replica." |
| `websocket-gateway/internal.go:547` | All gateways read with one consumer group, so an entry goes to one gateway, and clients connected to another never get it. websocket-gateway/main.go:9 says "INSTANCE_ID used as Redis consumer name: correct multi-replica fanout." |
| `websocket-gateway/internal.go:515` | Nothing calls StopOrg: the reader of an org goes on when its last connection has left, and takes entries out of the shared group. websocket-gateway/internal.go:471 says "Goroutine exits when ctx is cancelled (all connections for that org left)." |
| `websocket-gateway/internal.go:532` | On BUSYGROUP the reader goes on from the position of the existing group: after a restart it reads the positions published meanwhile to the clients that connected since. websocket-gateway/internal.go:531 says ""$" means only new messages from this point forward." |
| `websocket-gateway/internal.go:533` | An error of XGroupCreateMkStream is logged and the reader enters its loop, where every XREADGROUP fails with NOGROUP for ever. websocket-gateway/internal.go:530 says "Ensure consumer group — MKSTREAM creates the stream if it doesn't exist." |
| `batch-writer/internal.go:317` | InsertBatch logs a row whose Append failed and returns nil, after which the cold path acknowledges the whole batch (batch-writer/main.go:391): the row is lost and no DLQ sees it. batch-writer/internal.go:319 says "not abort the entire batch; the caller decides on DLQ routing." |
| `batch-writer/internal.go:522` | The error of json.Marshal is discarded; the retry finds an empty payload, which it cannot parse, acknowledges and drops at once (batch-writer/internal.go:638). env.example:180 says "Dead-letter queue: maximum retry attempts before an event is discarded." |
| `batch-writer/internal.go:136` | One XREADGROUP names the streams of all orgs, whose keys have no hash tag in common: a Redis Cluster answers CROSSSLOT, and with more than one org nothing is read (likewise of the DLQ streams, batch-writer/internal.go:598). README.md:39 lists "7.x (Cluster mode)" as "Hot-path streams + latest state". |
| `mqtt-consumer/main.go:359` | The oldest normal event is evicted without a log line or a counter. mqtt-consumer/main.go:352 says of the other half of the same buffer "was a silent drop — now logged and counted." |
| `mqtt-consumer/internal.go:516` | On the broadcast path a failed XADD to the batch stream is logged, on the filtered path it is counted too (mqtt-consumer/main.go:481): the counter does not have every event the batch-writer misses. mqtt-consumer/internal.go:501 says only "batch errors are logged separately". |
| `mqtt-consumer/internal.go:509` | The realtime stream is trimmed to about 5000 entries: a gateway that falls behind loses positions without an error on either side. mqtt-consumer/internal.go:499 says of it only who reads it. |
| `websocket-gateway/main.go:547` | The snapshot is queried and sent while live positions already are: it may set a vehicle back behind what the client has seen, and anyLast need not be the latest row, whose time max(recorded_at) gives. websocket-gateway/main.go:388 says "Initial position snapshot (async, via conn.Send)". |
| `main.go:453` | After a ScaleTo that panicked with the mutex of its pool held, Stop blocks on it, without a timeout, and the pools after this one are not stopped. README.md:626 says "If any pool exceeds its drain window, surviving processes receive `SIGKILL`." |
| `main.go:668` | RestartBackoffMax is not validated: below four nanoseconds, zero included, rand.Int63n(0) panics in a goroutine that recovers nothing. README.md:688 says "the orchestrator will not give up retrying". |
| `main.go:810` | int64 truncates the average after its rounding errors: a lag that is constantly SCALE_DOWN_LAG may come out below it and remove a replica. README.md:95 says "Redis stream lag below which a replica is removed". |
| `main.go:511` | toStop shares the array of the slice that was cut: an append by an overlapping call replaces one of its entries before the goroutines are started, so the new replica is stopped and the old one runs on. main.go:489 says "ScaleTo adjusts the pool to exactly n replicas (clamped to Min/Max)." |

## Plan

What is left, in this order:

1. A composition of **BatchWriter** with **StreamRegistry**: several processes and orgs on
   one group.
2. A composition of **Enrichment** with **WorkerPool**: the verdict of the filter as the
   input of the buffer, and the order in which copies of one vehicle leave it.
3. **DLQDepth**: the gauge of two goroutines with its floor at zero, against the true
   length of the stream.

Theorems worth adding: the type invariants of the modules that
have only their action invariants stated; the refinement of a promise for the
WebSocket connection (`Send`, closed, drained) like `EntryLifecycle` for the cold path.

## Running

    cd tla
    tlc -workers 2 -config BatchWriterAll.cfg MCBatchWriter    # likewise the other runs
    for m in *Proofs.tla; do tlapm $m; done

The module of each configuration is named in `PROJECT.json` under `runs`; the `map`
there gives the source lines of every definition, and `mutants` the change to the code
that makes each property fail.
