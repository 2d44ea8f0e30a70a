\* One client and its payment, two states each.
SPECIFICATION Spec
CONSTANTS
  c = c
  m = m
  Client = {c}
  Money = {m}
  ClientOf <- MCClientOf
  Value = {"x", "y"}
  First = "x"
  Scheduled = {s}
  Backfill = {b}
  BatchSize = 2
  MaxBatches = 2
  MaxAttempts = 2
  MaxChanges = 2
  MaxFaults = 1
  Nothing = Nothing
INVARIANTS DeliveredIsThere NothingMissed
PROPERTIES Settles
