CONSTANTS
  f = f
  g = g
  h = h
  NoName = "none"
  PtrSize = 8
  SizeLimit = 1024
  Structs = {"S", "T"}
  BasicSize <- MCBasicSize
  FieldNames <- MCFieldNames
  Signed = {"int8_t", "int32_t"}
  Specs <- MCSpecs
  ArgLists <- MCArgLists
  SelfFields = FALSE
  MaxFields = 3

SPECIFICATION Spec
SYMMETRY MCSymmetry
CHECK_DEADLOCK FALSE

INVARIANT ReferencesLive
