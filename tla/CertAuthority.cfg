CONSTANTS
  Threads = {t1, t2, t3}
  None = None
SPECIFICATION FairSpec
INVARIANTS
  SigningExclusive
  LocksMatchSections
PROPERTY CallsReturn
