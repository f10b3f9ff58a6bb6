CONSTANTS
  Values = {0, 1}
  Seed = 0
  Kept = {"subscriptions", "rewrites", "clients", "rules", "upstreams", "routes", "settings"}
  Edited = {"subscriptions"}
  MaxEdits = 1
  MaxRequests = 0
  MaxFaults = 2
SPECIFICATION Spec
INVARIANT ReportsAppliedRevision
CHECK_DEADLOCK FALSE
