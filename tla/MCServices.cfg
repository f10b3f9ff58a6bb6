SPECIFICATION ServicesSpec
CONSTANTS
  Streams = {s1}
  MaxEvents = 5
  RingSize = 3
  ScanLimit = 2
  ChanCap = 2
  MaxDrops = 1
  HourLength = 2
  StatsWindow = 3
  Retention = 3
  Delays = {0, 2}
  RowsPerPrune = 1
  RowsPerInsert = 2
  RowsPerPage = 1
  LegacyRows <- MCLegacyRows
  MaxHistoryClock = 5
  MaxRowId = 3
  MaxHistoryFaults = 1
  Names <- MCNames
  Above <- MCAbove
  Questions <- MCQuestions
  RuleUniverse <- MCRules
  RuleLists <- MCRuleLists
  SafeTarget <- MCSafeTarget
  PrivatePtrNames = {"c"}
  MagicHosts = {"sub"}
  Blockable = {"c"}
  Profiles <- MCProfiles
  DnsQueries = {q1}
  MaxChainDepth = 2
  MaxRuleEdits = 2
  MaxRuleFaults = 1
  MaxPipelineChanges = 1
CONSTRAINT OneReader
INVARIANTS StreamInOrder StreamComplete TotalsMatchRows EventsCountedOnce PagesComplete ChainSound StandingPolicyHolds RewritesMatchFile
CHECK_DEADLOCK FALSE
