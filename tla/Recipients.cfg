SPECIFICATION Spec
CONSTANTS
  u1 = u1
  u2 = u2
  Users <- MCUsers
  UserLists <- FixedList
  MaxAlerts = 1
CHECK_DEADLOCK FALSE
INVARIANTS EveryUserIsSent
