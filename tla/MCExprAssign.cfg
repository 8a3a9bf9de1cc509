CONSTANTS
  NoName = "none"
  NoType = NoType
  NoValue = NoValue
  PtrSize = 8
  SizeLimit = 256
  Byte = 1
  BasicSize <- MCBasicSize
  Signed <- MCSigned
  Table <- MCTable
  Contexts = {"local"}
  Vars <- MCVars
  Literals <- MCLiterals
  Ops = {"==", "<", "&&", "&", "<<", ">>", "-", "/", "%"}
  CastTypes <- MCCastTypes
  FieldNames = {"x", "y"}
  MaxOps <- MCMaxOps
  MaxOperands = 2
  AssignOperands = TRUE
  MixedBits = FALSE
  ArrayCasts = FALSE
  CastTargets = FALSE
  WideCounts = FALSE

SPECIFICATION Spec
CHECK_DEADLOCK FALSE

INVARIANT TypedWhenAccepted
