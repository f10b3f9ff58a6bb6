CONSTANTS
  k1 = k1
  k2 = k2
  q1 = q1
  q2 = q2
  Keys <- MCKeys
  Queries <- MCQueries
  Capacity = 1
  MaxMissFlights = 1
  MaxRefreshes = 1
  MaxChanges = 1
  MaxClears = 1
  first = first
  second = second
  Upstreams = {first, second}
  Primaries <- MCPrimaries
  Fallbacks <- MCFallbacks
  Groups <- MCGroups
  Routed = {first}
  Modes = {"load_balance", "parallel"}
  Probed = {second}
  PoolQueries <- MCQueries
  Handlers = {h1}
  Threshold = 1
  MaxGroups = 1
  MaxUpsets = 2
  MaxAsking = 2
SPECIFICATION ResolverSpec
INVARIANTS EntriesCurrent AnswersFresh WaitersHaveLeader ResolversCurrent AsksSomeone PoolFollowsFile
CONSTRAINTS AloneBeyondCaches FewExchanges
SYMMETRY Symmetry
