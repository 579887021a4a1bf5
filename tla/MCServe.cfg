SPECIFICATION FairSpec
CONSTANTS
  Procs = {"g1", "g2", "cli"}
  Gateways = {"g1", "g2"}
  Requests = {"r1"}
INVARIANTS
  TypeOK
  KeysAgree
  RefusedOnlyAfterRace
  GracefulStopLosesNothing
PROPERTIES
  SignalStops
  WaitsOnlyForItsPeers
CHECK_DEADLOCK FALSE
