\* An exclusive guard is moved.
CONSTANTS
  g1 = g1
  g2 = g2
  g3 = g3
  alice = alice
  bob = bob
  Guards <- MCGuards
  Owner <- MCOwner
  MoveModes = {"EXCLUSIVE", "MOVED"}
  MAX_SHARED = 2
  VERSION_LIMIT = 4
  MaxVersion = 3
SPECIFICATION Spec
INVARIANT AssertionsHold
