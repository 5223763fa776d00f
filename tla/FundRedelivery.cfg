SPECIFICATION Spec
CONSTANTS
  alice = alice
  bob = bob
  k1 = k1
  k2 = k2
  k3 = k3
  k4 = k4
  r1 = r1
  r2 = r2
  Users = {alice, bob}
  Clients = {alice}
  Keys = {k1, k2}
  Requests = {r1}
  Escrows = {1}
  Amounts = {100}
  PLATFORM_FEE_BPS = 100
  Funds <- TwoDeals
  Faults <- OnlyWorkerCrash
  MaxAttempts = 3
  MaxStalled = 1
  Workers = 2
  Replay = TRUE
CHECK_DEADLOCK FALSE
PROPERTY SettledIsFinal
