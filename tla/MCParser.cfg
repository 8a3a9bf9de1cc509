CONSTANTS
  Parts = {"expressions", "compounds", "statements", "loops", "declarations", "functions"}
  MaxNodes <- MCMaxNodes
  MaxStack <- MCMaxStack

SPECIFICATION Spec
CHECK_DEADLOCK FALSE

INVARIANT WholeForest
INVARIANT LabelsRight
INVARIANT CompoundRight
