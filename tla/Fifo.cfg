SPECIFICATION Spec
CONSTANTS
  Item = {0, 1, 2}
  DEPTH = 3
  PtrWords <- ClogPtrWords
  CountWords <- ClogCountWords
PROPERTY QueueSpec
