\* Startup and shutdown with crashes, scaling and a signal at any moment.
SPECIFICATION FairSpec
CONSTANTS
  Scalable = {1, 3}
  MaxCrashes = 2
INVARIANTS StartOrder StoppedForGood
PROPERTY SignalEndsIt
CHECK_DEADLOCK FALSE
