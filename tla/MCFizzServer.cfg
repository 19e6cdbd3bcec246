SPECIFICATION FairSpec
CONSTANTS
  Leaves <- MCLeaves
  Boundaries <- MCBoundaries
  Pages <- MCPages
  MaxRoom = 2
INVARIANTS
  Consistency
  InstructionsHaveTargets
  PageIsWhole
PROPERTIES
  EveryRequestEnds
CHECK_DEADLOCK FALSE
