SPECIFICATION FairSpec
CONSTANTS
  NumLanes = 2
  MaxActions = 3
  MaxUpdates = 2
INVARIANTS
  IndInv
  PendingIsShown
PROPERTIES
  ActionsAreBatched
  OptimisticUntilDone
  EverythingIsShown
CHECK_DEADLOCK FALSE
