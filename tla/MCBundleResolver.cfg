\* Every request of up to three names over nine bundles.
SPECIFICATION FairSpec
CONSTANTS
  name = name
  wild = wild
  Names <- MCNames
  Wild = wild
  Malformed = {}
  BundleConfigs <- MCBundles
  BundleNames <- MCBundleNames
  Questions <- MCQuestions
INVARIANTS
  TypeOK
  ExpansionIsExact
  RefusalIsJust
  DepthBounded
PROPERTIES
  Terminates
CHECK_DEADLOCK FALSE
