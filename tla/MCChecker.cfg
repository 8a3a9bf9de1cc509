CONSTANTS
  Names = {"main", "x"}
  NoName = NoName
  FnTypes <- PlainTypes
  StepsFlawed = FALSE
  MaxStmts = 6
  MaxFrames = 6

SPECIFICATION Spec
CHECK_DEADLOCK FALSE

INVARIANT TypeOK
INVARIANT VerdictRight
INVARIANT Diagnosed
INVARIANT LookupInnermost
INVARIANT CurrentFunctionFresh
