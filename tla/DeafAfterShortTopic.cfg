SPECIFICATION FairSpec
CONSTANTS
  r1 = r1
  r2 = r2
  n1 = n1
  n2 = n2
  none = none
  malformed = malformed
  None = none
  Malformed = malformed
  Ids <- OneId
  Names <- MCNames
  TopicLists <- OneTopic
  LogicConfigs <- OneLimit
  Messages <- ShortTopic
  MaxTopics = 2
  MaxSessions = 0
  MaxExpired = 1
PROPERTIES ReceivesForever
