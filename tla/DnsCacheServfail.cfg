CONSTANTS
  Keys = {k1}
  Queries = {q1}
  Capacity = 1
  MaxMissFlights = 1
  MaxRefreshes = 1
  MaxChanges = 1
  MaxClears = 1
SPECIFICATION Spec
INVARIANT ServfailExpires
