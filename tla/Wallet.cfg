CONSTANTS
  a1 = a1
  c1 = c1
  c2 = c2
  f1 = f1
  f2 = f2
  g1 = g1
  l1 = l1
  m1 = m1
  p1 = p1
  s1 = s1
  t1 = t1
  Template = {t1}
  Service = {s1}
  TopUp = {c1, c2}
  Refund = {f1, f2}
  Adjust = {a1}
  Campaign = {g1}
  SetLimit = {l1}
  CampaignMsgs = {m1}
  Payments = {p1}
  Amounts = {2}
  Limits = {0, 2}
  Opening = 3
  OpeningLimit = 1
  Floor = 0
  LowThreshold = 2
  MaxRequests = 3
  Worth <- MCWorth
  Nobody = Nobody
SPECIFICATION FairSpec
INVARIANTS
  BalanceNonNegative
  Books
  CreditedOnce
  RefundedOnce
PROPERTIES
  Answered
CHECK_DEADLOCK FALSE
