SPECIFICATION Spec
CONSTANTS
  RepeatBudget = 4
  MaxRepeatChecks = 3
  MaxDepth = 3
  Strict = FALSE
  Projects <- MCProjects
  Top <- MCTop
CHECK_DEADLOCK FALSE
INVARIANTS
  Elaborates
  FlatMeansTree
  NoCombLoop
  CrossingsGuarded
