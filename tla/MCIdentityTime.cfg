\* Time: two ticks to the second, lifetimes below and across a second.
SPECIFICATION Spec
CONSTANTS
  repo = repo
  read = read
  wild = wild
  bad = bad
  Missing = Missing
  Names <- MCNames
  Wild = wild
  Malformed = {bad}
  BundleConfigs <- MCBundles
  BundleNames <- MCBundleNames
  TaskIDs = {t1, t2}
  Callers = {c1}
  Humans = {"human:jane"}
  Requests <- TimeRequests
  MaxTTL = 3
  MaxDelegationDepth = 2
  TicksPerSecond = 2
  MaxClock = 5
SYMMETRY Interchangeable
INVARIANTS
  DatesInOrder
  OutlivesOnlyByPause
  LifetimeWithinLimit
PROPERTIES
  ExpiryEndsDelegation
CHECK_DEADLOCK FALSE
