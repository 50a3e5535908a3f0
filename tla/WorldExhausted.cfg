CONSTANTS
  MaxPort = 65535
  Procs <- OnlyOne
  PortRange = 950
  Scenarios <- GardenSpec
  MaxSpecs <- WholeSuite
SPECIFICATION Spec
INVARIANT ClaimsAreServed
CHECK_DEADLOCK FALSE
