CONSTANTS
  I32Bits = 12
  I64Bits = 20
  MaxDepth = 8
  MaxFieldCount = 20
  MaxTotalFields = 2000
  MaxStringBytes = 130
  MaxCollection = 40
  MaxStructList = 20
  DeltaBits = 7
  BlockSize = 4
  MiniBlocks = 2
  MaxDictionary = 3
  HashBuckets = 8
  MaxRatio = 20
  MaxOutput = 400
  PackedSize = 4
  NaN = NaN
  Null = Null
  Blocks = 2
  WordsPerBlock = 3
  BitsPerWord = 4
  HashBits = 4
  ColumnBits = 4
  RleInputs <- MCRleInputs
  DeltaInputs <- MCDeltaInputs
  DictInputs <- MCDictInputs
  SplitInputs <- MCSplitInputs
  PageInputs <- MCPageInputs
  IndexInputs <- MCIndexInputs
  Hashes <- MCHashes
  ZValues <- MCZValues
  NarrowBits = 5
  CharBase = 4
  KeyChars = 2
SPECIFICATION Spec
INVARIANTS RoundTrip ReaderHonest OrderSound
CHECK_DEADLOCK FALSE
