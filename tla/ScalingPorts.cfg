\* README: each replica binds to a unique port.
SPECIFICATION Spec
CONSTANTS
  auto = auto
  http1 = http1
  Scaler = auto
  Callers <- AutoAndOperator
  MinReplicas = 1
  MaxReplicas = 4
  MaxUnderWay = 2
  MaxFaults = 0
  AlphaNum = 6
  AlphaDen = 10
  Precision = 1000
  ScaleUpLag = 5
  ScaleDownLag = 3
  WsMin = 1
  WsMax = 3
  Lags <- SomeLags
  Overrides <- SomeOverrides
  MaxTicks = 1
  MaxOverrides = 1
INVARIANT UniqueIndices
CHECK_DEADLOCK FALSE
