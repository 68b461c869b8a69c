\* Two replicas register and read two streams of one slot or of two; one group
\* creation may fail.
SPECIFICATION FairRegistry
CONSTANTS
  r1 = r1
  r2 = r2
  org1 = org1
  org2 = org2
  Keys <- TwoKeys
  Slots <- TwoSlots
  Replicas <- TwoReplicas
  MaxEntries = 2
  MaxFaults = 1
INVARIANT ReadsNeverDeaf
PROPERTY EveryEntryDelivered
