CONSTANTS
  Producers = {p1, p2}
  SoftCap = 2
  RingCap = 3
  RowGroup = 2
  MaxFileRows = 2
  AutoStart = FALSE
  ClientOps = {"start", "stop", "stop_nowait", "flush"}
  IoFaults = TRUE
  MaxRecords = 3
SPECIFICATION FairSpec
INVARIANTS Delivered
PROPERTIES FlushMakesReadable StopDrains EventuallyDrained
CHECK_DEADLOCK FALSE
