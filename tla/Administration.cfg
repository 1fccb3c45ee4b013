SPECIFICATION FairSpec
CONSTANTS
  number = number
  name = name
  path = path
  admin = admin
  stranger = stranger
  None = None
  Malformed = Malformed
  Cut = Cut
  Cancel = Cancel
  Texts <- MCTexts
  Number <- MCNumber
  SecondLevel <- MCSecondLevel
  UIntSize = 128
  ULongSize = 256
  Users = {129}
  Admins = {admin}
  Strangers = {stranger}
  Inputs <- MCInputs
  InitConfigs <- MCInitConfigs
  MaxBatch = 2
  MaxUpdates = 4
  MaxRestarts = 1
INVARIANTS TypeOK FileIsMemory CanStartAgain ToldIsTrue
PROPERTIES UpdatesAreHandled
CHECK_DEADLOCK FALSE
