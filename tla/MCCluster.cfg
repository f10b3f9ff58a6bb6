SPECIFICATION ClusterSpec
CONSTANTS
  NodeIds = {n1, n2, n3}
  NodeNames = {x, y}
  NoStatus = NoStatus
  MaxNodeStatuses = 2
  NodeRequests = {r1, r2}
  MaxNodeFaults = 1
  MaxNodeRestarts = 1
  MagicSyncers = {m1, m2}
  MaxInventory = 3
  MaxMagicFaults = 2
  MaxMagicRestarts = 2
  Controllers = {c1, c2}
  Agents = {a1, a2}
  Foreign = 99
  LeafDays = 3
  RotationLead = 1
  MaxAuthorities = 3
  MaxTlsExits = 2
  LimitQueries = {l1}
  DnsClients <- MCDnsClients
  LimitKeys = {"lan", "wan1", "wan2", "net"}
  HostKey <- MCHostKey
  NetKey <- MCNetKey
  Internal = {"lan"}
  Loopback = {}
  DohPrivate = {"lan"}
  BearerRequired = FALSE
  LimitSettings <- MCLimitSettings
  PerSecond = 2
  MaxIdle = 2
  MaxBuckets = 2
  LoginAddresses = {ad1, ad2}
  EventStreams = {es1}
  SessionLifetime = 4
  SessionIdle = 2
  MaxSessions = 1
  FailureMemory = 3
  BackoffCap = 2
  GlobalWindow = 2
  GlobalLimit = 2
  MaxTracked = 1
  MaxLogins = 2
  MaxFailures = 3
SYMMETRY Symmetry
INVARIANTS DecommissionHolds NamesIndexed OneAuthority LimitsAsThoughKept OnlyFailuresWait
PROPERTIES RecordsNeverGoBack EndedIsSilent
CHECK_DEADLOCK FALSE
