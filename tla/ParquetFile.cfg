SPECIFICATION Spec
CONSTANTS
  Cell <- MCCell
  Configs <- MCConfigs
  RowsFor <- MCRowsFor
  BatchesFor <- MCBatchesFor
  CsvInputs <- MCCsvInputs
  RowGroupSize = 2
  MaxRows = 4
  MaxDict = 4
  Buffer = 2
  MaxStep = 100
  MaxBlocks = 12
  MaxPageSize = 3
  MaxRatio = 2
  MaxValues = 3
  BuiltIn = {"SNAPPY", "ZSTD"}
INVARIANTS  DamagedIsError UnfinishedNeverOpens IndexDescribesPage
CHECK_DEADLOCK FALSE
