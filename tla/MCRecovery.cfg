SPECIFICATION Spec
CONSTANTS
  Identifiers = {"x", "f", "main"}
  Numbers = {"1"}
  Sources <- RecoverySources
  Expr <- MCExpr
  Prefix <- MCPrefix
  Loop <- MCLoop
  Args <- MCArgs
  Ends <- MCEnds
INVARIANT GoodStatementsSurvive
CHECK_DEADLOCK FALSE
