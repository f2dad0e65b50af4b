SPECIFICATION CancelSpec
CONSTANTS
  Objects = {o1, o2}
  MaxBatch = 2
  Nil = Nil
  Wanted = {o1, o2}
INVARIANTS
  WaitsOnPreviousPhase
