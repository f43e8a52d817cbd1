\* Three pessimistic and three optimistic deposits, with up to two failures.
CONSTANTS
  p1 = p1
  p2 = p2
  p3 = p3
  o1 = o1
  o2 = o2
  o3 = o3
  u1 = u1
  u2 = u2
  NoRow = NoRow
  nobody = nobody
  Pess = {p1, p2, p3}
  Opt = {o1, o2, o3}
  Users = {u1, u2}
  Inserted = {u1}
  Username <- UserOf
  Programs <- InTurnAndAtOnce
  MaxFaults = 2
SPECIFICATION FairSpec
INVARIANTS
  TypeOK
  RowCountsDeposits
  AppliedOnce
PROPERTY DepositsReturn
