SPECIFICATION Spec
CONSTANTS
  Markets = {"spot", "futures"}
  MaxBuffered = 2
  kMaxRetries = 3
  PoolSize = 3
  MaxId = 5
  MaxLost = 0
  MaxDrops = 0
  MaxFailed = 0
  MaxLag = 1
INVARIANT BookComplete
CHECK_DEADLOCK FALSE
