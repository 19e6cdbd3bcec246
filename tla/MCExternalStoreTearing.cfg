SPECIFICATION Spec
CONSTANTS
  LastComponent = 2
  Stores <- MCStore
  Values <- MCValues
  InitialValue = 0
  MaxMutations = 1
  MaxUpdates = 2
PROPERTIES
  EveryCommitIsWhole
CHECK_DEADLOCK FALSE
