CONSTANTS
  n1 = n1
  n2 = n2
  n3 = n3
  n4 = n4
  e1 = e1
  e2 = e2
  e3 = e3
  e5 = e5
  e4 = e4
  NoNode = NoNode
  NodeIds <- MCNodeIds
  EdgeIds <- MCEdgeIds
  SelfLoops = FALSE

SPECIFICATION Spec
SYMMETRY MCSymmetry

INVARIANT TypeOK
INVARIANT Integrity
INVARIANT EndsAlive
INVARIANT NoParallelEdges
INVARIANT CascadeLive
PROPERTY OrderKept
PROPERTY ImplementsDigraph
