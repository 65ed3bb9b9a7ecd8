CONSTANTS
  I32Bits = 12
  I64Bits = 20
  MaxDepth = 8
  MaxFieldCount = 20
  MaxTotalFields = 2000
  MaxStringBytes = 130
  MaxCollection = 40
  MaxStructList = 20
  MaxTlvLength = 64
  MaxMetadataSize = 100
  OrdinalSpace = 2
  MaxInvocations = 4
  DiskFull = FALSE
  MaxModules = 1
  MaxGenerations = 3
  Parts = {"file", "keys", "cipher", "subjects", "metadata"}
  Places <- MCPlaces
  WriterConfigs <- MCWriterConfigs
  ReaderConfigs <- MCReaderConfigs
  FacadeOptions <- MCFacadeOptions
  ReaderOptions <- MCReaderOptions
  Masters <- MCMasters
  KeyIds <- MCKeyIds
  MasterKeys <- MCMasterKeys
  KeyMetas <- MCKeyMetas
  FileProps <- MCFileProps
  Subjects <- MCSubjects
  Deks <- MCDeks
  Aads <- MCAads
SPECIFICATION MCSpec
INVARIANTS PlaceBound NoKeyNoData KeysSurvive KeyLifeEnds
CHECK_DEADLOCK FALSE
