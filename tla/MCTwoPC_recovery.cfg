CONSTANTS
  Participants = {p1}
  Gate = gate
  Resolvers = {r1}
  MaxFaults = 0
  MaxRestarts = 1
SPECIFICATION Spec
CHECK_DEADLOCK FALSE
INVARIANT ConcludedIsCommitted
