SPECIFICATION FairReceiver
CONSTANTS
  Items = {i1, i2}
  Concurrency = 1
  MaxSize = 2
  HighWater = 1
  LastDay = 1
  MaxErrors = 0
  MaxSignals = 0
PROPERTY EveryRecordHandedOn
CHECK_DEADLOCK FALSE
