SPECIFICATION FairSpec
CONSTANTS
  Users = {u1, u2}
  UserSets = {{u1, u2}, {u1}}
  MaxPublishes = 3
  MaxReady = 4
INVARIANTS TypeOK LoopAlive WaitIsForAPing ToldIsStatus
PROPERTIES PingsForever
