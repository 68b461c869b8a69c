\* One client, subscribed in up to two ways, with lists that repeat vehicles, and
\* two orgs that use the same vehicle IDs; closed after two drops.
SPECIFICATION FairSpec
CONSTANTS
  c1 = c1
  orgA = orgA
  orgB = orgB
  v1 = v1
  v2 = v2
  Conns = {c1}
  Orgs = {orgA, orgB}
  Vehicles = {v1, v2}
  OrgOf <- OneOrg
  Requests <- Lists
  MaxPerConnection = 2
  WriteBuf = 2
  MaxDrops = 2
  HasClickHouse = TRUE
  MaxPositions = 2
  MaxRequests = 2
INVARIANTS OrgIsolation CountIsExact ForgottenWhenGone
PROPERTIES NeverBackwards SlowClientsLeave
CHECK_DEADLOCK FALSE
