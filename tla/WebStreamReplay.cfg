SPECIFICATION WebSpec
CONSTANTS
  LoginAddresses = {ad1}
  EventStreams = {es1}
  SessionLifetime = 2
  SessionIdle = 1
  MaxSessions = 1
  FailureMemory = 1
  BackoffCap = 1
  GlobalWindow = 1
  GlobalLimit = 1
  MaxTracked = 1
  MaxLogins = 1
  MaxFailures = 0
INVARIANT NothingAfterEnd
CHECK_DEADLOCK FALSE
