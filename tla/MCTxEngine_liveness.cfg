SPECIFICATION FairSpec
CONSTANTS
  Conns = {c1, c2}
  c1 = c1
  c2 = c2
  PoolSize = 1
  ReservedConns = TRUE
  DBAWorkload = FALSE
  TwoPCEnabled = FALSE
  GracePeriod = TRUE
  EnableTransactionLimit = FALSE
  MaxPerUser = 0
PROPERTIES
  TransitionEnds
