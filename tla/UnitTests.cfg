\* Four tests, every filter of up to five characters, one failed allocation.
CONSTANTS
  Registered <- Names
  Filters <- AnyFilter
  CommandLines <- Lines
  NoFilter = NoFilter
  Garbage = Garbage
  MaxLost = 1
  MaxFilter = 5
SPECIFICATION Spec
INVARIANTS
  TypeOK
  EveryTestOnce
  ReportIsRight
  FilterIsSound
  ListedNameRunsItsTest
