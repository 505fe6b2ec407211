SPECIFICATION Spec
CONSTANTS
  Decls <- MCDecls
  IntWidth = 12
  Programs <- MCPrograms
  Targets <- MCTargets
  Inputs <- MCInputs
INVARIANTS SimulatedAsTyped HardwareAgrees KindsAgree NothingRefused
CHECK_DEADLOCK FALSE
