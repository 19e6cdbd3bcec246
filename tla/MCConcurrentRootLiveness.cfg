SPECIFICATION FairSpec
CONSTANTS
  UpdateLanes <- SyncAndTransition
  MaxUpdates = 2
  LastChild = 1
  DataSets <- NothingOrAll
PROPERTIES
  EveryUpdateIsShown
CHECK_DEADLOCK FALSE
