SPECIFICATION FairSpec
CONSTANTS
  Txs = {t1, t2, t3, t4}
  Keys = {k1, k2}
  Queues = {q1, q2}
  concurrentTransactions = 1
  maxQueueSize = 3
  maxGlobalQueueSize = 3
  dryRun = FALSE
INVARIANTS SameQueue ConcurrencyBounded CountsExact ReturnNeverBlocks SlotsExact
PROPERTY EveryCallProceeds
