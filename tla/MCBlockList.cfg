CONSTANTS
  e1 = e1
  e2 = e2
  e3 = e3
  e4 = e4
  e5 = e5
  b1 = b1
  b2 = b2
  b3 = b3
  NoElem = NoElem
  NoBlock = NoBlock
  blk_size = 2
  Elems <- MCElems
  BlockIds <- MCBlockIds
  ThrowsInNewBlock = FALSE
  ClearsStored = FALSE
  MaxCounted = 2

SPECIFICATION Spec
SYMMETRY MCSymmetry

INVARIANT TypeOK
INVARIANT BlocksSound
INVARIANT IteratorsStable
INVARIANT SizeExact
PROPERTY ImplementsStore
