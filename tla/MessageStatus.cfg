CONSTANTS
  m1 = m1
  m2 = m2
  m3 = m3
  h1 = h1
  h2 = h2
  Campaign = {m1, m2}
  Service = {m3}
  ViaGupshup = {m2}
  Handler = {h1, h2}
  MaxSent = 1
  MaxReports = 2
  Faults = {"attach", "save", "refund", "timeout", "store", "crash"}
  MaxFaults = 2
  Nothing = Nothing
SPECIFICATION FairSpec
INVARIANTS
  PaidBackOnce
PROPERTIES
  NeverBack
  RefundSettles
  NamedIsRefunded
CHECK_DEADLOCK FALSE
