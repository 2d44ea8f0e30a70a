CONSTANTS
  o1 = o1
  k1 = k1
  k2 = k2
  a1 = a1
  a2 = a2
  Pro = Pro
  Free = Free
  NoOrder = NoOrder
  Orders = {o1}
  NoAttempt = NoAttempt
  Attempts = {a1, a2}
  Calls = {k1, k2}
  Plans = {Pro}
  Days <- Lengths
  Price = 2
  MaxRedemptions = 1
  MaxTime = 2
  MaxOps = 3
  MaxUpsets = 1
SPECIFICATION Spec
SYMMETRY Symmetry
INVARIANTS
  ExtendedOnce
  PaidIsRecorded
  CouponCounted
  RefundNeverAhead
  CutOnlyByRace
CHECK_DEADLOCK FALSE
