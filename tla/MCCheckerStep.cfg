CONSTANTS
  Names = {"main", "x"}
  NoName = NoName
  FnTypes <- PlainTypes
  StepsFlawed = TRUE
  MaxStmts = 6
  MaxFrames = 6

SPECIFICATION Spec
CHECK_DEADLOCK FALSE

INVARIANT UndeclaredRejected
