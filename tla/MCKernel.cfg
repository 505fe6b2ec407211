\* Six programs, three tick or tick_edge calls each.
SPECIFICATION FairSpec
CONSTANTS
  Clock = {"ck", "ck2"}
  Reset = {"rst"}
  Input = {"in"}
  Reg <- MCReg
  Mem = {"m"}
  RegClock <- MCRegClock
  RegEdge <- MCRegEdge
  ResetValue <- MCResetValue
  MemInit <- MCMemInit
  Depth <- MCDepth
  Width <- MCWidth
  MaxWidth = 2
  Var = {"i"}
  MaxBound = 3
  Unbound = Unbound
  Expr <- MCExpr
  BoundExpr <- MCBoundExpr
  AddrExpr <- MCAddrExpr
  Address = {0, 1, 2, 3}
  Eval <- MCEval
  Fails <- MCFails
  Body <- MCBody
  Nesting <- MCNesting
  Targets <- MCTargets
  MemTargets <- MCMemTargets
  Programs <- MCPrograms
  Asserts <- MCAsserts
  Cover = {"seq", "comb"}
  CombCover = {"comb"}
  CoverCond <- MCCoverCond
  RepeatBudget = 2
  MaxTicks = 3
INVARIANTS
  Scoped
  OrderIrrelevant
PROPERTIES
  OwnEdgeOnly
  ResetWins
  ImplementsNonBlocking
  CallReturns
CHECK_DEADLOCK FALSE
