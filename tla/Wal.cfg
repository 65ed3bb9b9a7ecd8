CONSTANTS
  MaxRecs = 2
  MaxSegBytes = 5
  Sizes = {0, 2}
  OptionSets <- TwoOptionSets
  SameMs = TRUE
  IoFaults = TRUE
  MaxAppends = 3
  MaxSegs = 3
  Parts = {"log", "manager"}
  StartSeq = 3
  SyncOptions <- AllSyncOptions
  MaxWrites = 4
  MaxOpens = 3
SPECIFICATION WalSpec
INVARIANTS LogKept LogContiguous UpsetOnly
PROPERTIES ManagerKeeps
CHECK_DEADLOCK FALSE
