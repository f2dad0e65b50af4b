SPECIFICATION PipeFairSpec
CONSTANTS
  o1 = o1
  o2 = o2
  Objects = {o1}
  Wanted = {o1}
  MaxBatch = 1
  MayCancel = TRUE
  Nil = Nil
  Origin <- SameOrigin
  ReferenceHandling = "copy"
  Faults = {"copy", "timeout", "ask"}
INVARIANTS
  AddedOnce
  PausesEnd
PROPERTIES
  AskAnswered
