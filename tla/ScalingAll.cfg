\* An override at any moment, overlapping the calls of the auto-scaler too.
SPECIFICATION FairSpec
CONSTANTS
  auto = auto
  http1 = http1
  Scaler = auto
  Callers <- AutoAndOperator
  MinReplicas = 1
  MaxReplicas = 3
  MaxUnderWay = 2
  MaxFaults = 1
  AlphaNum = 6
  AlphaDen = 10
  Precision = 1000
  ScaleUpLag = 5
  ScaleDownLag = 3
  WsMin = 1
  WsMax = 3
  Lags <- SomeLags
  Overrides <- SomeOverrides
  MaxTicks = 3
  MaxOverrides = 1
INVARIANTS StopsWhatLeft OnlyOverridesAreUndone
PROPERTIES HysteresisHolds PortsAreTakenOver
CHECK_DEADLOCK FALSE
