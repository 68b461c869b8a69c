\* Two workers of one replica and one of another.
SPECIFICATION Spec
CONSTANTS
  w1 = w1
  w2 = w2
  w3 = w3
  r1 = r1
  r2 = r2
  bus1 = bus1
  bus2 = bus2
  s1 = s1
  None = None
  Failed = Failed
  Replicas = {r1, r2}
  Workers <- AllWorkers
  ReplicaOf <- WorkerReplica
  Vehicles = {bus1, bus2}
  Stripes = {s1}
  stripe <- OneStripe
  MaxMessages = 3
  First <- FromStartOrThird
  Feeds <- SomeFeeds
  MinDistance = 2
  MinTime = 5
  MaxFaults = 1
INVARIANTS BigMovesSeen EveryDeliveryKept
PROPERTY EveryoneGetsThrough
CHECK_DEADLOCK FALSE
