\* Two writers and two readers, one operation each; room for both readers.
CONSTANTS
  w1 = w1
  w2 = w2
  r1 = r1
  r2 = r2
  Threads = {w1, w2, r1, r2}
  Writers = {w1, w2}
  NO_OPS = 1
  MAX_SHARED = 2
  VERSION_LIMIT = 8
SPECIFICATION FairSpec
INVARIANTS
  TypeOK
  CounterCountsIncrements
  OneRestartPerSection
PROPERTIES
  CommittedReadsAreCurrent
  Termination
