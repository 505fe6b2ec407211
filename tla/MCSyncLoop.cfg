SPECIFICATION FairSpec
CONSTANTS
  Lo = 2
  Hi = 8
  Counts <- MCCounts
  Input = {0, 1}
  Value <- MCValue
  InitVal = 0
  Body <- MCBody
  Loop <- MCLoop
PROPERTIES ServiceSpec RunEnds
