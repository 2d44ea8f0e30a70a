CONSTANTS
  r1 = r1
  r2 = r2
  r3 = r3
  Runs = {r1, r2, r3}
  NoRun = NoRun
  Ttl = 12
  RenewEvery = 3
  MaxLag = 1
  MaxMisses = 2
SPECIFICATION FairLockSpec
INVARIANTS
  WorkerHoldsLease
PROPERTIES
  OnlyHolderTouchesLease
  PickedUpAgain
  ImplementsSingleRunner
