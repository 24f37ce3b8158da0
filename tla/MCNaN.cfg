SPECIFICATION Spec
CONSTANTS
  Programs <- NaNPrograms
  Vars <- MCVars
  Fuel = 12
INVARIANT NoUndefinedLoad
CHECK_DEADLOCK FALSE
