SPECIFICATION FairSpec
CONSTANTS
  Objects = {o1, o2, o3}
  Wanted = {o1, o2}
  MaxBatch = 2
  Nil = Nil
INVARIANTS
  WaitsOnPreviousPhase
  Balanced
PROPERTIES
  RefinesTwoPhase
  PhasesAreQueues
  AllThrough
CHECK_DEADLOCK FALSE
