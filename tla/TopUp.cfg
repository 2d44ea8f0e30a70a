CONSTANTS
  i1 = i1
  i2 = i2
  Cron = {i1, i2}
  Event = {"payment.captured"}
  NoOne = NoOne
  Window = 5
  MaxFaults = 2
SPECIFICATION FairOrderSpec
INVARIANTS
  OrderCreditedOnce
  CreditedIsPaid
PROPERTIES
  PaidIsCredited
CHECK_DEADLOCK FALSE
