\* One thread that inserts at the head.
CONSTANTS
  n1 = n1
  n2 = n2
  n3 = n3
  n4 = n4
  d1 = d1
  d2 = d2
  Data = {d1, d2}
  Absent = Absent
  Torn = Torn
  null = null
  Keys = {1, 2, 3}
  MAX_VALUE = 9
  InitialHeap <- OneAndThree
  Nodes = {n1, n2, n3}
  no_threads = 1
  MaxEpoch = 0
  NO_OPS = 1
  CallsOf <- InsertAnywhere
  Kinds = {"mutex", "optimistic"}
SPECIFICATION Spec
INVARIANT NoCrash
