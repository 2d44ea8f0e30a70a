SPECIFICATION Spec
CONSTANTS
  d1 = d1
  d2 = d2
  d3 = d3
  m1 = m1
  m2 = m2
  Calls = {d1, d2, d3}
  Messages = {m1, m2}
  Of <- Delivered
  Flow <- Bot
  First = "hi"
  NoNode = "none"
  MaxDepth = 1
  Tries = 2
  MaxUpsets = 1
INVARIANTS TypeOK RoutedOnce SessionOwned AiInTurn
