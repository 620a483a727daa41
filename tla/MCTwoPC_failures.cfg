CONSTANTS
  Participants = {p1, p2}
  Gate = gate
  Resolvers = {r1}
  MaxFaults = 2
  MaxRestarts = 0
SPECIFICATION Spec
CHECK_DEADLOCK FALSE
SYMMETRY Symmetry
INVARIANTS CommitNeedsDecision AbortIsFinal ConcludedIsCommitted SuccessIsCommitted
