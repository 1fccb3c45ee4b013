SPECIFICATION FairSpec
CONSTANTS
  u1 = u1
  u2 = u2
  Users <- MCUsers
  UserLists <- MCLists
  MaxAlerts = 3
CHECK_DEADLOCK FALSE
INVARIANTS TypeOK QueueInOrder InboxInOrder StopIsPrompt WorkerStays StopCannotBlock NobodyPassedOver
PROPERTIES StopEnds AlertsAreTaken DeliveredInTurn
