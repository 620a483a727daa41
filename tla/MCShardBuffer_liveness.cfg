SPECIFICATION FairSpec
CONSTANTS
  s1 = s1
  s2 = s2
  r1 = r1
  r2 = r2
  r3 = r3
  r4 = r4
  Shards = {s1}
  Requests = {r1, r2}
  ShardOf <- MCShardOf
  Size = 1
  DryRun = {}
  Repeats = TRUE

PROPERTY EveryRequestReturns
CHECK_DEADLOCK FALSE
