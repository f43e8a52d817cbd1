\* A reader and two writers, one call each.
CONSTANTS
  n1 = n1
  n2 = n2
  n3 = n3
  n4 = n4
  d1 = d1
  d2 = d2
  Data = {d1, d2}
  Absent = Absent
  Torn = Torn
  null = null
  Keys = {1, 2, 3}
  MAX_VALUE = 9
  InitialHeap <- OneAndThree
  Nodes = {n1, n2, n3, n4}
  no_threads = 3
  MaxEpoch = 0
  NO_OPS = 1
  CallsOf <- ReaderAndWriters
  Kinds = {"optimistic"}
SPECIFICATION Spec
INVARIANT ResultOnlyIfFound
