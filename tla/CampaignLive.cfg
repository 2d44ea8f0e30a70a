CONSTANTS
  c1 = c1
  c2 = c2
  s1 = s1
  s2 = s2
  l1 = l1
  l2 = l2
  Contact = {c1, c2}
  Server = {s1, s2}
  Loop = {l1, l2}
  Batch = 2
  Workers = 2
  Ops = {"start"}
  MaxOps = 1
  Faults = {"crash"}
  MaxFaults = 1
  None = None
SPECIFICATION FairSpec
PROPERTIES
  Finishes
CHECK_DEADLOCK FALSE
