SPECIFICATION FairSpec
CONSTANTS
  x1 = x1
  x2 = x2
  h1 = h1
  ep1 = ep1
  r1 = r1
  r2 = r2
  Events = {x1, x2}
  Hooks = {h1}
  EventOf <- FirstEvent
  Endpoints = {ep1}
  Requests = {r1, r2}
  MaxSecret = 1
  Faults <- AllFaults
  MaxAttempts = 1
  MaxStalled = 1
  Workers = 1
CHECK_DEADLOCK FALSE
INVARIANTS DeliveriesInv HistoryTruthful
PROPERTIES ChangesTakeHold HooksEnd
