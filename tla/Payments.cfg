SPECIFICATION FairSpec
CONSTANTS
  l1 = l1
  l2 = l2
  h1 = h1
  Links = {l1, l2}
  NoLink = NoLink
  Requests = {h1}
  Poller = Poller
  Batch = 1
  FollowUps <- Two
  MaxUpsets = 1
PROPERTIES TellsOnce PaidIsSeen
