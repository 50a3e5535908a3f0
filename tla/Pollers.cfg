CONSTANTS
  Watches = {"routes", "records"}
  Instances = 2
  Counts = {1, 2}
  Requests = 3
  MaxGuids = 3
SPECIFICATION Spec
INVARIANTS
  TypeOK
  PollIsSound
  PollIsExact
  CrashSeenIsItsOwn
CHECK_DEADLOCK FALSE
