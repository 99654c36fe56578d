SPECIFICATION Spec
CONSTANTS
  c1 = c1
  c2 = c2
  r1 = r1
  r2 = r2
  NoClient = NoClient
  Clients <- MCClients
  Requests <- MCRequests
  FirstIds <- MCFirstIds
  NWorkers = 5
  IdBase = 256
  MaxFrames = 2
  MaxOthers = 1
  MaxWire = 1
INVARIANTS
  ResponseIsWhole
  PoolIsExclusive
PROPERTIES
  ResponseComes
  EveryRequestTold
  WorkerGivenBack
CHECK_DEADLOCK FALSE
