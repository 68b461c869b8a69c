\* One replica: crashes, hangs, failed spawns, lost probes, shutdown.
SPECIFICATION FairSpec
CONSTANTS
  UnhealthyThreshold = 3
  PollLimit = 4
  MaxCrashes = 2
  MaxFaults = 2
  First = 4
  Caps = {0, 8}
INVARIANTS ReadyMeansServed BackoffBounded
PROPERTIES StatusCatchesUp CrashedIsRestarted CancelledIsFinal
CHECK_DEADLOCK FALSE
