\* Refinement: the concurrent calls against atomic delegation, one generation deep.
SPECIFICATION Spec
CONSTANTS
  repo = repo
  read = read
  wild = wild
  bad = bad
  Missing = Missing
  Names <- MCNames
  Wild = wild
  Malformed = {bad}
  BundleConfigs <- MCBundles
  BundleNames <- MCBundleNames
  TaskIDs = {t1, t2, t3}
  Callers = {c1, c2}
  Humans = {"human:jane"}
  Requests <- RefinementRequests
  MaxTTL = 1
  MaxDelegationDepth = 1
  TicksPerSecond = 1
  MaxClock = 0
SYMMETRY Interchangeable
INVARIANT
  OperationsOnlyShrink
PROPERTIES
  ImplementsDelegation
CHECK_DEADLOCK FALSE
