\* Access: two requests with the credentials of a few tasks, as time goes on.
SPECIFICATION GatewaySpec
CONSTANTS
  repo = repo
  read = read
  wild = wild
  empty = empty
  Missing = Missing
  Names <- MCNames
  Wild = wild
  Malformed = {empty}
  NoScope = empty
  Adapters <- MCAdapters
  BundleConfigs <- NoBundles
  BundleNames = {}
  TaskIDs = {t1}
  Callers = {c1}
  ApiCallers = {}
  Revokers = {}
  ToolCalls = {r1, r2}
  Humans = {"human:jane"}
  Requests <- MCRequests
  MaxTTL = 1
  MaxDelegationDepth = 1
  TicksPerSecond = 1
  MaxClock = 2
SYMMETRY Interchangeable
INVARIANTS
  StaleCredentialIsPowerless
CHECK_DEADLOCK FALSE
