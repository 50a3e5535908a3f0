CONSTANTS
  MaxPort = 15
  StartingPorts <- SomePorts
  EndingPorts <- SomeEndings
  ClaimSizes <- Sizes
  MaxClaims = 6
SPECIFICATION Spec
INVARIANTS
  TypeOK
  ClaimsDisjoint
  ClaimsInRange
  NothingLost
PROPERTIES
  ErrorIffShort
  ImplementsPool
CHECK_DEADLOCK FALSE
