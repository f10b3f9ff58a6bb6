SPECIFICATION FairSpec
CONSTANTS
  Persistent = FALSE
  MaxOffers = 2
  MaxLegacy = 0
  RawSize <- MCRawSize
  ItemSize <- MCItemSize
  MetaSize = 2
  MaxBacklogSize = 4
  MinBatch = 1
  MaxBatch = 2
  BatchGrowth = 1
  MaxRetryAttempts = 1
  Reporting = TRUE
  MaxEnds = 0
INVARIANTS NoLostWake
PROPERTIES QueueDrains StopCompletes AdmissionReopens
CHECK_DEADLOCK FALSE
