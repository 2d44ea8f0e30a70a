CONSTANTS
  a1 = a1
  g1 = g1
  p1 = p1
  t1 = t1
  Template = {t1}
  Service = {}
  TopUp = {}
  Refund = {}
  Adjust = {a1}
  Campaign = {g1}
  SetLimit = {}
  CampaignMsgs = {}
  Payments = {p1}
  Amounts = {1, 2}
  Limits = {0, 2}
  Opening = 3
  OpeningLimit = 1
  Floor = 0
  LowThreshold = 2
  MaxRequests = 2
  Worth <- MCWorth
  Nobody = Nobody
SPECIFICATION Spec
INVARIANTS
  NothingLost
CHECK_DEADLOCK FALSE
