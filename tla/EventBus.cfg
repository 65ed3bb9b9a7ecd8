CONSTANTS
  Producers = {p1, p2}
  Consumers = {c1, c2}
  Capacity = 1
  Values = {v1, v2}
  NoValue = NoValue
  MaxPush = 3
  BusCapacity = 2
  SinkCapacity = 1
  EnableTier3 = TRUE
  MaxCalls = 3
  MaxResets = 1
SPECIFICATION BothSpec
SYMMETRY Symmetry
INVARIANTS ExactlyOnce BusAccounts
PROPERTIES HonestAnswers ImplementsFifo
