\* Two replicas, a client on each, no fault.
SPECIFICATION FanoutSpec
CONSTANTS
  orgA = orgA
  c1 = c1
  c2 = c2
  Gateways = {g1, g2}
  Clients = {c1, c2}
  Orgs = {orgA}
  OrgOf <- SameOrg
  Asked <- Both
  MaxLen = 3
  Malformed = {2}
  Batch = 2
  MaxEntries = 3
  MaxFaults = 0
INVARIANT FanoutReachesAll
CHECK_DEADLOCK FALSE
