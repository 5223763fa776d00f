SPECIFICATION FairPayments
CONSTANTS
  alice = alice
  k1 = k1
  r1 = r1
  Users = {alice}
  Keys = {k1}
  Callers = {r1}
  PaymentAmounts = {100}
  MaxCallbacks = 2
  Funds <- Alice150
  Faults <- AllFaults
  MaxAttempts = 2
  MaxStalled = 1
  Workers = 1
CHECK_DEADLOCK FALSE
INVARIANTS PaymentsInv OncePerRun
PROPERTIES LedgerSpec PaymentsAreAnswered
