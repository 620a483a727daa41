CONSTANTS
  Participants = {p1, p2}
  Gate = gate
  Resolvers = {r1}
  MaxFaults = 1
  MaxRestarts = 1
SPECIFICATION Spec
CHECK_DEADLOCK FALSE
SYMMETRY Symmetry
INVARIANTS AppliedOnce CommitRecoverable
PROPERTIES DecisionIsFinal ImplementsAtomicCommit
