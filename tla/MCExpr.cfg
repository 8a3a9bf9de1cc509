CONSTANTS
  NoName = "none"
  NoType = NoType
  NoValue = NoValue
  PtrSize = 8
  SizeLimit = 256
  Byte = 1
  BasicSize <- MCBasicSize
  Signed <- MCSigned
  Table <- MCTable
  Contexts = {"local", "global", "count"}
  Vars <- MCVars
  Literals <- MCLiterals
  Ops = {"==", "<", "&&", "&", "<<", ">>", "-", "/", "%"}
  CastTypes <- MCCastTypes
  FieldNames = {"x", "y"}
  MaxOps <- MCMaxOps
  MaxOperands = 2
  AssignOperands = FALSE
  MixedBits = FALSE
  ArrayCasts = FALSE
  CastTargets = FALSE
  WideCounts = FALSE

SPECIFICATION Spec
CHECK_DEADLOCK FALSE

INVARIANT EvalRight
INVARIANT EvalTyped
INVARIANT CountRight
INVARIANT ConstKept
INVARIANT FitsObject
