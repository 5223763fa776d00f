SPECIFICATION ArbitrationSpec
CONSTANTS
  alice = alice
  bob = bob
  k1 = k1
  k2 = k2
  r1 = r1
  d1 = d1
  d2 = d2
  x1 = x1
  x2 = x2
  Users = {alice, bob}
  Clients = {alice}
  Keys = {k1, k2}
  Requests = {r1}
  Escrows = {1}
  DisputeRequests = {d1, d2}
  Evidence = {}
  Resolutions <- Decisions
  Amounts = {100}
  PLATFORM_FEE_BPS = 100
  Funds <- TwoDeals
  Faults <- NoFaults
  MaxAttempts = 2
  MaxStalled = 1
  Workers = 2
  Replay = TRUE
CHECK_DEADLOCK FALSE
PROPERTY ResolutionIsFinal
