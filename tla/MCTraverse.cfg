CONSTANTS
  NoNode = NoNode
  Nodes <- MCNodes
  Graphs <- MCGraphs
  Starts <- MCStarts
  Types = {"DFS", "BFS"}

SPECIFICATION Spec
CHECK_DEADLOCK FALSE

INVARIANT TypeOK
INVARIANT VisitsReachable
INVARIANT EachEdgeOnce
INVARIANT ColoursRight
INVARIANT BFSOrder
PROPERTY Terminates
