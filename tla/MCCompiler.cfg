SPECIFICATION FairSpec
CONSTANTS
  Programs <- MCPrograms
  Vars <- MCVars
  Fuel = 12
INVARIANTS
  TypeOK
  AcceptedIsSafe
  ChecksReadTheTree
  NoUndefinedLoad
  MeaningPreserved
  EmittedVerifies
PROPERTY EndsAsMeant
CHECK_DEADLOCK FALSE
