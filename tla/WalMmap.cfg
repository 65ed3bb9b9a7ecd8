CONSTANTS
  RingSegments = 3
  Cap = 2
  Sizes = {1, 2}
  RetryAfterError = FALSE
  MaxFaults = 1
  MaxAppends = 3
  MaxSessions = 2
SPECIFICATION FairSpec
INVARIANTS SlotSafe SessionKept
PROPERTIES StandbyReturns CloseReturns
CHECK_DEADLOCK FALSE
