SPECIFICATION Spec
CONSTANTS
  Triggers = {t1, t2}
  Replies = {r1}
  Workers = {w1, w2}
  NoRun = NoRun
  Steps <- Patient
  StopOnReply = TRUE
  Locked = TRUE
  Batch = 2
  MaxAttempts = 2
  MaxJobs = 4
  MaxUpsets = 1
SYMMETRY Symmetry
INVARIANTS OneRunnerEach JobOnce
CHECK_DEADLOCK FALSE
PROPERTY ImplementsRuns
