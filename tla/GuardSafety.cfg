\* Optimistic guards are moved; locks stay with the guard that took them.
CONSTANTS
  g1 = g1
  g2 = g2
  g3 = g3
  alice = alice
  bob = bob
  Guards <- MCGuards
  Owner <- MCOwner
  MoveModes = {"OPTIMISTIC", "MOVED"}
  MAX_SHARED = 2
  VERSION_LIMIT = 4
  MaxVersion = 3
SPECIFICATION Spec
INVARIANTS
  TypeOK
  AssertionsHold
  LockMatchesGuards
