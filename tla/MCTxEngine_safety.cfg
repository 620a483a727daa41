SPECIFICATION Spec
CONSTANTS
  Conns = {c1, c2}
  c1 = c1
  c2 = c2
  PoolSize = 2
  ReservedConns = TRUE
  DBAWorkload = TRUE
  TwoPCEnabled = TRUE
  GracePeriod = TRUE
  EnableTransactionLimit = TRUE
  MaxPerUser = 2
SYMMETRY Symmetry
INVARIANTS
  TypeOK
  OneOwner
  NoSlotLeaks
  NotServingNoTx
  ReadOnlyNoWriter
