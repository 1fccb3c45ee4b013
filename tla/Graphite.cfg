SPECIFICATION FairSpec
CONSTANTS
  m1 = m1
  m2 = m2
  Metrics <- MCMetrics
  BatchLimit = 2
  MaxQueue = 3
  MaxRetries = 2
INVARIANTS TypeOK FlagsMatch NoIdleBacklog
PROPERTIES InOrder KeepsTrying
