SPECIFICATION Spec
CONSTANTS
  Leaves <- MCLeaves
  Boundaries <- MCBoundaries
  Pages <- MCPages
  MaxRoom = 2
INVARIANTS
  NoInternalError
CHECK_DEADLOCK FALSE
