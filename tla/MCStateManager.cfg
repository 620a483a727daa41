SPECIFICATION FairSpec
CONSTANTS
  a1 = a1
  a2 = a2
  q1 = q1
  q2 = q2
  Callers = {a1, a2}
  Requests = {q1, q2}
  MaxCalls = 3
  MaxFaults = 2
INVARIANTS TransitionIsWanted PartsMatchState NotServingNoRequests GraceWillEnd NoForgottenTarget
PROPERTY Converges
