SPECIFICATION FairSpec
CONSTANTS
  r1 = r1
  r2 = r2
  n1 = n1
  n2 = n2
  none = none
  malformed = malformed
  None = none
  Malformed = malformed
  Ids <- OneId
  Names <- MCNames
  TopicLists <- Removed
  LogicConfigs <- EditedLimit
  Messages <- Heartbeat
  MaxTopics = 2
  MaxSessions = 1
  MaxExpired = 2
INVARIANTS OfflineBudget ReturnIsNews ReceiverAlive
PROPERTIES ReceivesForever RetiredDies SilentReported RetiredStaysDead
