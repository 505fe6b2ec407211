SPECIFICATION FairSpec
CONSTANTS
  CyclesPerBit = 3
  LogCap = 2
  FramingError = FramingError
  Payload <- SamplePayload
  MaxBytes = 3
INVARIANTS Lossless Synchronised OneWait
PROPERTIES StreamSpec Delivery
CHECK_DEADLOCK FALSE
