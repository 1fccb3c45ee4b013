SPECIFICATION Spec
CONSTANTS
  r1 = r1
  r2 = r2
  n1 = n1
  n2 = n2
  none = none
  malformed = malformed
  None = none
  Malformed = malformed
  Ids <- OneId
  Names <- MCNames
  TopicLists <- Edited
  LogicConfigs <- OneLimit
  Messages <- ShortTopic
  MaxTopics = 2
  MaxSessions = 1
  MaxExpired = 1
INVARIANTS TypeOK WatchdogAlive SingleReceiver OfflineIsRemembered
