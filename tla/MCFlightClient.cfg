SPECIFICATION Spec
CONSTANTS
  Ids <- MCIds
  Root = 0
  Responses <- MCResponses
  MaxListeners = 2
INVARIANTS
  Consistency
  ReadValuesAreWhole
  NobodyWaits
PROPERTIES
  SettledForGood
CHECK_DEADLOCK FALSE
