SPECIFICATION FairReceiver
CONSTANTS
  Items = {i1, i2, i3}
  Concurrency = 1
  MaxSize = 1
  HighWater = 1
  LastDay = 2
  MaxErrors = 1
  MaxSignals = 2
INVARIANT TypeOK
INVARIANT BooksBalance
INVARIANT FiledOnItsDay
INVARIANT PostgresAfterFile
 
PROPERTY RefusesOnlyWhenFull
PROPERTY BufferedReachesFile
PROPERTY AcceptedIsInserted
CHECK_DEADLOCK FALSE
