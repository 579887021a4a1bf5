\* What pkg/proxy/router.go:49-51 says of tool discovery.
SPECIFICATION GatewaySpec
CONSTANTS
  repo = repo
  read = read
  wild = wild
  empty = empty
  Missing = Missing
  Names <- MCNames
  Wild = wild
  Malformed = {empty}
  NoScope = empty
  Adapters <- MCAdapters
  BundleConfigs <- NoBundles
  BundleNames = {}
  TaskIDs = {t1}
  Callers = {c1}
  ApiCallers = {c1}
  Revokers = {v1}
  ToolCalls = {r1}
  Humans = {"human:jane"}
  Requests <- ListingRequests
  MaxTTL = 1
  MaxDelegationDepth = 1
  TicksPerSecond = 1
  MaxClock = 0
INVARIANTS
  ShownToolsAreCallable
CHECK_DEADLOCK FALSE
