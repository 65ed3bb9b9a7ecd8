CONSTANTS
  MaxRecs = 2
  MaxSegBytes = 5
  Sizes = {0, 2, 6}
  OptionSets <- TwoOptionSets
  SameMs = TRUE
  IoFaults = FALSE
  MaxAppends = 3
  MaxSegs = 3
  Parts = {"log"}
  StartSeq = 0
  SyncOptions <- FlushSync
  MaxWrites = 3
  MaxOpens = 2
SPECIFICATION WalSpec
INVARIANTS LogDurableReadable
CHECK_DEADLOCK FALSE
