SPECIFICATION Spec
CONSTANTS
  UpdateLanes <- SyncAndTransitions
  MaxUpdates = 2
  LastChild = 2
  DataSets <- NothingOrAll
INVARIANTS
  IndInv
  PendingLanesAreExact
  PingIsPending
  RootIsScheduled
  ScheduledTaskHasWork
  SyncWorkIsFlushed
  ScreenHasItsData
PROPERTIES
  TransitionsInOrder
CHECK_DEADLOCK FALSE
