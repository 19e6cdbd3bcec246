SPECIFICATION FairSpec
CONSTANTS
  LastComponent = 3
  Stores <- MCStores
  Values <- MCValues
  InitialValue = 0
  MaxMutations = 3
  MaxUpdates = 3
INVARIANTS
  IndInv
  NoChangeMissed
PROPERTIES
  CommitsAreWhole
  ScreenCatchesUp
CHECK_DEADLOCK FALSE
