\* One replica, two clients, one of them subscribed in both ways, two faults, and a
\* stream that keeps at least its last two entries.
SPECIFICATION FairFanout
CONSTANTS
  orgA = orgA
  c1 = c1
  c2 = c2
  Gateways = {g1}
  Clients = {c1, c2}
  Orgs = {orgA}
  OrgOf <- SameOrg
  Asked <- Both
  MaxLen = 2
  Malformed = {2}
  Batch = 2
  MaxEntries = 3
  MaxFaults = 2
INVARIANTS FanoutReachesAll OfferedOnce
PROPERTY EveryoneServed
CHECK_DEADLOCK FALSE
