SPECIFICATION Spec
CONSTANTS
  UpdateLanes <- MCUpdateLanes
  MaxUpdates = 4
INVARIANTS
  IndInv
  NoUpdateLost
  BatchIsWhole
PROPERTIES
  ImplementsUpdateHistory
