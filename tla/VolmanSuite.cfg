CONSTANTS
  Contexts <- VolmanContexts
  FileOf <- VolmanFileOf
  BeforeEach <- VolmanBeforeEach
  AfterEach <- VolmanAfterEach
  Resets <- NoFiles
  ClientAfter = "garden"
  Restarted = {"syncer"}
  InProcess = {"syncer"}
  Containers <- OneContainer
  Blocks = 3
  FaultKinds = {"hang", "crash", "start", "destroy"}
  MaxFaults = 2
  MaxSpecs = 3
SPECIFICATION FairSpec
INVARIANTS
  AfterEachCleansUp
PROPERTY SpecsEnd
CHECK_DEADLOCK FALSE
