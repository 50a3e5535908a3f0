CONSTANTS
  Contexts <- CellContexts
  FileOf <- CellFileOf
  BeforeEach <- CellBeforeEach
  AfterEach <- CellAfterEach
  Resets <- ResettingFiles
  ClientAfter = "bbs"
  Restarted = {"garden", "bbs"}
  InProcess = {}
  Containers <- OneContainer
  Blocks = 4
  FaultKinds = {"hang", "crash", "start", "destroy"}
  MaxFaults = 2
  MaxSpecs = 3
SPECIFICATION Spec
INVARIANTS
  TypeOK
  NoOrphans
  PassedMeansClean
  NoSilentLeak
PROPERTIES
  DependantsStopFirst
CHECK_DEADLOCK FALSE
