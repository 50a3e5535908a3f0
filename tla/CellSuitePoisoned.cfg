CONSTANTS
  Contexts <- KeepingContexts
  FileOf <- CellFileOf
  BeforeEach <- CellBeforeEach
  AfterEach <- CellAfterEach
  Resets <- NoFiles
  ClientAfter = "bbs"
  Restarted = {}
  InProcess = {}
  Containers <- NoContainers
  Blocks = 4
  FaultKinds = {"hang"}
  MaxFaults = 1
  MaxSpecs = 3
SPECIFICATION Spec
INVARIANT AfterEachCleansUp
CHECK_DEADLOCK FALSE
