CONSTANTS
  Values = {0, 1}
  Seed = 0
  Kept = {"subscriptions", "clients", "routes"}
  Edited = {"subscriptions", "routes"}
  MaxEdits = 2
  MaxRequests = 1
  MaxFaults = 2
SPECIFICATION FairSpec
INVARIANTS RunsAppliedRevision RequestKept
PROPERTY ConfigConverges
CHECK_DEADLOCK FALSE
