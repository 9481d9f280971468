CONSTANTS
  Thread = {t1, t2}
  BufferSize = 5
  kNumHeadPages = 3
  MutablePages = 2
  PageSize = 4
  RecordSize = 2
  kCacheLineBytes = 2
  MaxPage = 7
  Environments <- MCEnvironments
SPECIFICATION Spec
INVARIANTS RecordsStay EpochGuards
PROPERTIES PagesTurn
CHECK_DEADLOCK FALSE
