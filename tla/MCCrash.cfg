SPECIFICATION Spec
CONSTANTS
  Identifiers = {"x", "y", "p", "f", "main", "println"}
  Numbers = {"1", "huge"}
  OutOfRange = {}
  stod <- stod10
  Programs <- MCPrograms
  ResolveExpr <- ResolvedBy
  Subexprs <- SubexprsOf
  Height <- HeightOf
  SetValue <- MCSetValue
  FlowErrors <- MCFlowErrors
  Blocks <- BlocksOf
  Stmts <- StmtsOf
  Meant <- MeantBy
  Type <- TypeOf
  Elaborated <- ElaboratedBy
INVARIANT NeverCrashes
CHECK_DEADLOCK FALSE
