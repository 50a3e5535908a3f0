CONSTANTS
  Containers = {c1, c2}
  Test = test
  None = none
  Ports = {61}
  Others = 1
  MaxSpecs = 2
SPECIFICATION FairSpec
INVARIANTS
  TypeOK
  NoDataRace
  ReadsAreFresh
  NoForeignAnnouncements
PROPERTIES
  RequestsAnswered
  ImplementsBoard
CHECK_DEADLOCK FALSE
