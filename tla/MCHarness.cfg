SPECIFICATION FairSpec
CONSTANTS
  None = None
  Clock <- MCClock
  Input <- MCInput
  Output <- MCOutput
  State <- MCState
  PowerOn <- MCPowerOn
  Driven <- MCDriven
  Ticked <- MCTicked
  Settled <- MCSettled
  Peek <- MCPeek
  Eval <- MCEval
  Fails <- MCFails
  Holds <- MCHolds
  DirectionOf <- MCDirectionOf
  Fallible <- MCFallible
  Level = {0, 1}
  Fps = 30
  MaxSimCycles = 12
  Words = 16
  Suites <- MCSuites
  Body <- MCBody
  Size <- MCSize
  Modes <- MCModes
INVARIANTS InStep FramePace Limit RunsAsWritten
PROPERTIES EndsOrAsks
