CONSTANTS
  Procs = {1, 2}
  MaxSpecs = 2
  MaxFaults = 1
  Suites = {"cell", "executor", "volman"}
SPECIFICATION FairSpec
INVARIANTS
  TypeOK
  CertsOutliveSpecs
  ArchiveServedWhileProcess1Runs
  CleanSlate
  LeftoversReported
  NoFaultNoFailure
  ConnectionsBounded
PROPERTY RunEnds
CHECK_DEADLOCK FALSE
