\* Five events, a queue of three, chunks of two and a wake-up at two.
CONSTANTS
  MaxAdds = 5
  MaxAgain = 2
  Limit = 3
  Mark = 2
  WriteBatch = 2
SPECIFICATION FairSpec
INVARIANTS EventsAccounted ShutdownDurable NoLostArchiveWake
PROPERTIES QueueArchived
CHECK_DEADLOCK FALSE
