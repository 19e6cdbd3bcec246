CONSTANTS
  Ids <- MCIds
  SortIndices <- MCSortIndices

SPECIFICATION Spec

INVARIANT IndInv

PROPERTY ImplementsPriorityQueue
