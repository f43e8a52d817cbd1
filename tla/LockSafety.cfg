\* Three threads, at most two readers; four sections wrap the version.
CONSTANTS
  t1 = t1
  t2 = t2
  t3 = t3
  Threads = {t1, t2, t3}
  MAX_SHARED = 2
  VERSION_LIMIT = 4
  MaxVersion = 4
SPECIFICATION Spec
INVARIANTS
  TypeOK
  Exclusion
  AssertionsHold
  ReleaseLosesNoUpdate
  CountsAtMostOneTooMany
PROPERTIES
  ExactUntilTheWrap
  ImplementsReadWriteLock
