CONSTANTS
  MaxPort = 15
  StartingPorts <- SomePorts
  EndingPorts <- TopRange
  ClaimSizes <- Sizes
  MaxClaims = 6
SPECIFICATION Spec
INVARIANT ClaimsInRange
CHECK_DEADLOCK FALSE
