SPECIFICATION Spec
CONSTANTS
  Callers = {adder, main}
  MaxCalls = 1
  MaxHelpers = 1
  MaxCrashes = 0
  Nil = Nil
INVARIANTS
  BlocksUntilExecuted
CHECK_DEADLOCK FALSE
