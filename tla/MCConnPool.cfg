SPECIFICATION FairSpec
CONSTANTS
  c1 = c1
  c2 = c2
  c3 = c3
  Clients = {c1, c2}
  Sizes = {0, 1, 2}
  Initial = 2
INVARIANTS TypeOK  CountersExact 
PROPERTIES GetReturns CloseReturns
CHECK_DEADLOCK FALSE
