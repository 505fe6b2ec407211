SPECIFICATION Spec
CHECK_DEADLOCK FALSE
CONSTANTS
  MaxDepth = 30
  Reserved = {"struct", "union"}
  Inputs = {"a", "b"}
  Outputs = {"o"}
  Programs <- SignedBit
  Roman <- MCRoman
INVARIANT Reparses
