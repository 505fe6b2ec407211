SPECIFICATION FairSpec
CONSTANTS
  N = 3
  x = x
  None = None
  MaxDepth = 4
  Leaf <- MCLeaf
  Designs <- MCDesigns
INVARIANTS CyclesReal Ordered MemoRight CyclesAreFields
PROPERTY Settles
CHECK_DEADLOCK FALSE
