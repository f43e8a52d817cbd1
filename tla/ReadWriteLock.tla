--------------------------- MODULE ReadWriteLock ----------------------------
(***************************************************************************)
(* What HybridLock promises its callers: a reader-writer lock with upgrade *)
(* and downgrade, whose version counts the exclusive sections that ended,  *)
(* modulo the width of the counter.  Every operation is one atomic step;   *)
(* an attempt that fails is no step at all.                                *)
(***************************************************************************)
EXTENDS Integers, FiniteSets

CONSTANTS
  Threads,
  MAX_SHARED,
  VERSION_LIMIT

VARIABLES
  writers,   (* The threads that hold the lock exclusively.                 *)
  readers,   (* The threads that hold the lock shared.                      *)
  version    (* Exclusive sections ended so far, modulo VERSION_LIMIT.      *)

rwVars == <<writers, readers, version>>

Init ==
  /\ writers = {}
  /\ readers = {}
  /\ version = 0

EndSection == version' = (version + 1) % VERSION_LIMIT

AcquireExclusive(t) ==
  /\ writers = {} /\ readers = {}
  /\ writers' = {t}
  /\ UNCHANGED <<readers, version>>

ReleaseExclusive(t) ==
  /\ writers = {t}
  /\ writers' = {}
  /\ EndSection
  /\ UNCHANGED readers

AcquireShared(t) ==
  /\ writers = {} /\ t \notin readers
  /\ Cardinality(readers) < MAX_SHARED
  /\ readers' = readers \union {t}
  /\ UNCHANGED <<writers, version>>

ReleaseShared(t) ==
  /\ t \in readers
  /\ readers' = readers \ {t}
  /\ UNCHANGED <<writers, version>>

Upgrade(t) ==
  /\ writers = {} /\ readers = {t}
  /\ writers' = {t} /\ readers' = {}
  /\ UNCHANGED version

Downgrade(t) ==
  /\ writers = {t} /\ readers = {}
  /\ writers' = {} /\ readers' = {t}
  /\ EndSection

Next ==
  \E t \in Threads :
    \/ AcquireExclusive(t) \/ ReleaseExclusive(t)
    \/ AcquireShared(t)    \/ ReleaseShared(t)
    \/ Upgrade(t)          \/ Downgrade(t)

Spec == Init /\ [][Next]_rwVars
=============================================================================
