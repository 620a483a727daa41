CONSTANTS
  Participants = {p1}
  Gate = gate
  Resolvers = {r1}
  MaxFaults = 1
  MaxRestarts = 1
SPECIFICATION FairSpec
CHECK_DEADLOCK FALSE
PROPERTY EventuallyResolved
