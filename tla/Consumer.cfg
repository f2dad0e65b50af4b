SPECIFICATION FairSpec
CONSTANTS
  Objects = {o1, o2}
  Wanted = {o1}
  Adders = {a1}
  Callers = {main}
  MaxBatch = 2
  Nil = Nil
INVARIANTS
  NoLostWakeup
  FetchInRange
  Accounted
PROPERTIES
  RefinesLooper
  RefinesWorkQueue
  AllWorkedOff
  AbortRests
