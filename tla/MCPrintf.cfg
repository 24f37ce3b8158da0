SPECIFICATION Spec
CONSTANTS
  Programs <- PrintfPrograms
  Vars <- MCVars
  Fuel = 12
INVARIANT PrintsThroughLibc
CHECK_DEADLOCK FALSE
