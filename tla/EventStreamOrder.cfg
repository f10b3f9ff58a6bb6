CONSTANTS
  Streams = {s1}
  MaxEvents = 2
  RingSize = 2
  ScanLimit = 2
  ChanCap = 2
  MaxDrops = 1
SPECIFICATION Spec
INVARIANT OnlySlowStreamsMiss
CHECK_DEADLOCK FALSE
