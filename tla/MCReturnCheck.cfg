SPECIFICATION FairSpec
CONSTANTS
  Graphs <- MCGraphs
  Vars <- MCVars
INVARIANTS
  TypeOK
  SearchFrontier
  SearchSound
  SummariesExact
  VerdictCorrect
PROPERTY Termination
CHECK_DEADLOCK FALSE
