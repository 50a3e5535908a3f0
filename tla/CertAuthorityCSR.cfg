CONSTANTS
  Threads = {t1, t2}
  None = None
SPECIFICATION Spec
INVARIANT CSRExclusive
