CONSTANTS
  NodeIds <- MCNodeIds
  Data = {"even", "odd"}
  Given <- MCGiven
  Labels = {0, 1, 2}
  NoNode = NoNode
  MaxBuilt = 3
  MaxEdges = 3
  MaxCalls = 2
  LoopsErased = FALSE

SPECIFICATION Spec
CHECK_DEADLOCK FALSE

INVARIANT TypeOK
INVARIANT EraseDefined
INVARIANT IntegrityRight
PROPERTY ImplementsForest
PROPERTY Returns
