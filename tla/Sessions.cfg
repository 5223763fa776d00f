SPECIFICATION FairSpec
CONSTANTS
  m1 = m1
  u1 = u1
  u2 = u2
  r1 = r1
  r2 = r2
  Emails = {m1}
  UserIds = {u1, u2}
  Requests = {r1, r2}
  Crashing = {r2}
  MaxTokens = 3
CHECK_DEADLOCK FALSE
INVARIANTS SessionsInv SingleUsePerRequest
PROPERTIES RevokedBuysNothing RefreshIsAnswered
