SPECIFICATION FairSpec
CONSTANTS
  Callers = {adder, main}
  MaxCalls = 2
  MaxHelpers = 2
  MaxCrashes = 1
  Nil = Nil
INVARIANTS
  BlocksUnlessShared
  ClientIsHeld
PROPERTIES
  CallEnds
  RefinesCalls
CHECK_DEADLOCK FALSE
