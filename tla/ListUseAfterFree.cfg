\* Two threads that look up and delete, and reclaim between their calls.
CONSTANTS
  n1 = n1
  n2 = n2
  n3 = n3
  n4 = n4
  d1 = d1
  d2 = d2
  Data = {d1, d2}
  Absent = Absent
  Torn = Torn
  null = null
  Keys = {1, 2, 3}
  MAX_VALUE = 9
  InitialHeap <- OneAndThree
  Nodes = {n1, n2}
  no_threads = 2
  MaxEpoch = 2
  NO_OPS = 2
  CallsOf <- EverybodyDeletes
  Kinds = {"optimistic"}
SPECIFICATION ReclaimSpec
INVARIANT NoUseAfterFree
