CONSTANTS
  RowGroupSize = 2
  MaxFileRows = 3
  MaxPageRows = 3
  Options <- MCOptions
  Keys <- MCKeys
  Damages <- MCDamages
  Queries <- MCQueries
  Threads = {t1, t2}
  MaxRows = 3
  MaxWriters = 2
  MaxFaults = 1
  MaxFailed = 3
  MaxOpens = 1
  MaxQueries = 2
VIEW View
SPECIFICATION Spec
INVARIANTS RowsKept PointInTime
PROPERTIES FiledIsFinal
CHECK_DEADLOCK FALSE
