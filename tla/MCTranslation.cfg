SPECIFICATION Spec
CHECK_DEADLOCK FALSE
CONSTANTS
  MaxDepth = 30
  Reserved = {"struct", "union"}
  Inputs = {"a", "b"}
  Outputs = {"o"}
  Programs <- MCPrograms
  Roman <- MCRoman
INVARIANTS KeepsMeaning Recovers
