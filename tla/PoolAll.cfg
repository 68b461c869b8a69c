\* A worker and the flusher, normal, critical and malformed events, failing writes.
SPECIFICATION FairSpec
CONSTANTS
  w1 = w1
  flusher = flusher
  Flusher = flusher
  MaxEvents = 5
  Malformed = {1}
  Critical = {2, 5}
  Workers <- OneWorker
  DirectWrite = TRUE
  InputCap = 1
  Capacity = 2
  DrainBatch = 2
  MaxFaults = 3
INVARIANTS BufferBounded OneOwner NothingVanishes DuplicateOnlyInDoubt
PROPERTY EverySettled
CHECK_DEADLOCK FALSE
