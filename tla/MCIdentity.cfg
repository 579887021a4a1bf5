\* Structure: three tasks, two concurrent calls, one-second steps.
SPECIFICATION Spec
CONSTANTS
  repo = repo
  read = read
  wild = wild
  bad = bad
  Missing = Missing
  Names <- MCNames
  Wild = wild
  Malformed = {bad}
  BundleConfigs <- MCBundles
  BundleNames <- MCBundleNames
  TaskIDs = {t1, t2, t3}
  Callers = {c1, c2}
  Humans = {"human:jane"}
  Requests <- StructureRequests
  MaxTTL = 1
  MaxDelegationDepth = 2
  TicksPerSecond = 1
  MaxClock = 0
SYMMETRY Interchangeable
INVARIANTS
  TypeOK
  NoEscalation
  ProvenanceChain
  DepthBudget
  CredentialOnRecord
  StatusMatchesIndex
  UnflaggedLinkKeepsAuthority
PROPERTIES
  RevocationEndsDelegation
CHECK_DEADLOCK FALSE
