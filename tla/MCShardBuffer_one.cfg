SPECIFICATION Spec
CONSTANTS
  s1 = s1
  s2 = s2
  r1 = r1
  r2 = r2
  r3 = r3
  r4 = r4
  Shards = {s1}
  Requests = {r1, r2, r3}
  ShardOf <- MCShardOf
  Size = 2
  DryRun = {}
  Repeats = TRUE
SYMMETRY Symmetry
INVARIANTS TypeOK SlotsAccounted ClosedOnce InFlightBounded OneFailoverAtATime
PROPERTY ImplementsBoundedBuffer
CHECK_DEADLOCK FALSE
