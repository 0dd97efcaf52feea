SPECIFICATION FairSpec
CONSTANTS
  Markets = {"spot", "futures"}
  MaxBuffered = 2
  kMaxRetries = 3
  PoolSize = 3
  MaxId = 5
  MaxLost = 1
  MaxDrops = 1
  MaxFailed = 1
  MaxLag = 1
INVARIANTS TypeOK BufferingAwaitsSnapshot CompleteUnlessDisturbed
PROPERTY Resyncs
CHECK_DEADLOCK FALSE
