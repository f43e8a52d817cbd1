\* Three threads, two pointers, three epochs.
CONSTANTS
  p1 = p1
  p2 = p2
  Ptrs = {p1, p2}
  no_threads = 3
  MaxEpoch = 2
  MAX_VALUE = 9
  RetireAt = {"inside"}
SPECIFICATION Spec
INVARIANTS
  TypeOK
  GracePeriod
  EveryPointerOnce
PROPERTY NoOutdatedLeftBehind
SYMMETRY Symmetry
