CONSTANTS
  Timeout <- MCTwoTimeouts
  AlwaysYield = FALSE
  Delays <- MCOneDelay
  FrameIntervals <- MCFrameIntervals
  frameYieldMs = 1
  MaxTasks = 3
  MaxTime = 1
  MaxDrift = 1

SPECIFICATION FairSpec

INVARIANT IndInv
INVARIANT NoStall
INVARIANT TimerCovered
INVARIANT NoExpiredTaskLeft

PROPERTY StartsMostUrgent
PROPERTY ImplementsTaskExecution
PROPERTY EveryTaskRuns

CHECK_DEADLOCK FALSE
