CONSTANTS
  c1 = c1
  c2 = c2
  s1 = s1
  s2 = s2
  l1 = l1
  l2 = l2
  Contact = {c1, c2}
  Server = {s1, s2}
  Loop = {l1, l2}
  Batch = 2
  Workers = 2
  Ops = {"start", "pause", "resume", "cancel", "retry"}
  MaxOps = 2
  Faults = {"refuse", "autopause", "throw", "old"}
  MaxFaults = 1
  None = None
SPECIFICATION Spec
SYMMETRY Symmetry
INVARIANTS
  SendsBounded
  ChargedAtMostSent
  SentMeansMessaged
  CompletedMeansDone
  OutcomesWritten
CHECK_DEADLOCK FALSE
