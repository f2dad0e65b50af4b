SPECIFICATION PipeFairSpec
CONSTANTS
  o1 = o1
  o2 = o2
  Objects = {o1, o2}
  Wanted = {o1, o2}
  MaxBatch = 2
  MayCancel = FALSE
  Nil = Nil
  Origin <- SameOrigin
  ReferenceHandling = "reference"
  Faults = {"ask", "skip", "copy", "timeout", "script", "nil"}
INVARIANTS
  CopiedIsAdded
  ReferenceIsReal
  GhostsUnheard
  AskedStands
PROPERTIES
  RefinesCopying
  EveryTrackDone
  AskAnswered
CHECK_DEADLOCK FALSE
