SPECIFICATION Spec
CONSTANTS
  Persistent = TRUE
  MaxOffers = 1
  MaxLegacy = 2
  RawSize <- MCRawSize
  ItemSize <- MCItemSize
  MetaSize = 2
  MaxBacklogSize = 5
  MinBatch = 1
  MaxBatch = 2
  BatchGrowth = 1
  MaxRetryAttempts = 1
  Reporting = FALSE
  MaxEnds = 1
INVARIANTS Conservation SizeAccounting QueueInOrder FileMirrorsQueue
PROPERTIES DeliversAtLeastOnce
CHECK_DEADLOCK FALSE
