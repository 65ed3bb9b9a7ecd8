CONSTANTS
  Capacity = 4
  Values = {v1, v2}
  NoValue = NoValue
  MaxBulk = 3
  MaxPush = 7
  Producers = {p1, p2}
  MpscCapacity = 2
  MpscMaxPush = 4
SPECIFICATION RingsSpec
INVARIANTS InOrder
PROPERTIES HonestAnswers ImplementsFifo MpscImplementsFifo MpscEventuallyDrained
CHECK_DEADLOCK FALSE
