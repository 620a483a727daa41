SPECIFICATION FairSpec
CONSTANTS
  c1 = c1
  c2 = c2
  c3 = c3
  Clients = {c1, c2}
  Sizes = {1, 2}
  Initial = 2
PROPERTY ResizeReturns
CHECK_DEADLOCK FALSE
