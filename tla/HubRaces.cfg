SPECIFICATION HubSpec
CONSTANTS
  alice = alice
  bob = bob
  k1 = k1
  k2 = k2
  k3 = k3
  r1 = r1
  p1 = p1
  p2 = p2
  Users = {alice, bob}
  Clients = {alice}
  Keys = {k1, k2, k3}
  Requests = {r1}
  Callers = {p1, p2}
  Escrows = {1}
  Amounts = {100}
  PaymentAmounts = {100}
  PLATFORM_FEE_BPS = 100
  Funds <- Alice150
  Faults <- OnlyApiCrash
  MaxAttempts = 2
  MaxStalled = 1
  MaxCallbacks = 1
  Workers = 1
  Replay = TRUE
CHECK_DEADLOCK FALSE
SYMMETRY Symmetric
INVARIANTS HubInv NoOverdraft HubBooksBalance Solvent
PROPERTIES DebitTakesFreshKey HubLedgerSpec
