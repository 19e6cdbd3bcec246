SPECIFICATION Spec
CONSTANTS
  UpdateLanes <- ThreeTransitions
  Queues = {q1, q2}
INVARIANTS
  QueueIsWhole
