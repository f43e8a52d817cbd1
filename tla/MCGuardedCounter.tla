-------------------------- MODULE MCGuardedCounter --------------------------
EXTENDS GuardedCounter
=============================================================================
