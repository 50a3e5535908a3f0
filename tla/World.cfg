CONSTANTS
  MaxPort = 65535
  Procs <- FirstTwo
  PortRange = 42
  Scenarios <- AllSpecs
  MaxSpecs <- ThreeAndOne
  Versions = {"v0", "v1"}
SPECIFICATION WSpec
INVARIANTS
  WTypeOK
  ProcessesIsolated
  SpecPortsDistinct
  DialsReachTheirOwn
  EmittersWatchOwnCell
CHECK_DEADLOCK FALSE
