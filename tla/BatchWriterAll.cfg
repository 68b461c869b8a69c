\* Retries, restarts and orderly stops of two entries, one of which may be malformed.
SPECIFICATION FairSpec
CONSTANTS
  e1 = e1
  e2 = e2
  Events <- TwoEntries
  Malformed <- OneBad
  BatchSize = 2
  DLQBatch = 2
  ChanCap = 1
  MaxRetries = 2
  StreamMaxLen = 1
  DLQMaxLen = 1
  MaxDowns = 1
INVARIANTS TypeOK AckedImpliesInserted RetryBudget DuplicateOnlyIfAmbiguous OneCopy
PROPERTIES ImplementsLifecycle EverySettled
CHECK_DEADLOCK FALSE
