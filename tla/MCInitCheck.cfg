SPECIFICATION FairWalkSpec
CONSTANTS
  Graphs <- MCGraphs
  Vars <- MCVars
INVARIANTS
  TypeOK
  QuietSweepSolved
  AcceptedRunsSafe
PROPERTIES
  ImplementsDataflow
  LatticesAscend
  Termination
CHECK_DEADLOCK FALSE
