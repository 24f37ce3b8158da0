SPECIFICATION FairSpec
CONSTANTS
  Identifiers = {"x", "f", "main"}
  Numbers = {"1"}
  Sources <- MCSources
  Expr <- MCExpr
  Prefix <- MCPrefix
  Loop <- MCLoop
  Args <- MCArgs
  Ends <- MCEnds
INVARIANTS
  TypeOK
  NoErrorLost
  AcceptsGrammar
  ReadsSource
  GoodFunctionsSurvive
PROPERTY Termination
CHECK_DEADLOCK FALSE
