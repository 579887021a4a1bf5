\* Audit: one tool call, one API creation and one API revocation, no time.
SPECIFICATION GatewaySpec
CONSTANTS
  repo = repo
  read = read
  wild = wild
  empty = empty
  Missing = Missing
  Names <- MCNames
  Wild = wild
  Malformed = {empty}
  NoScope = empty
  Adapters <- AuditAdapters
  BundleConfigs <- NoBundles
  BundleNames = {}
  TaskIDs = {t1, t2}
  Callers = {c1}
  ApiCallers = {c1}
  Revokers = {v1}
  ToolCalls = {r1}
  Humans = {"human:jane"}
  Requests <- MCRequests
  MaxTTL = 1
  MaxDelegationDepth = 1
  TicksPerSecond = 1
  MaxClock = 0
SYMMETRY Interchangeable
INVARIANTS
  GatewayTypeOK
  EffectWithinAuthority
  AuditTellsTheTruth
  AuditCarriesProvenance
CHECK_DEADLOCK FALSE
