SPECIFICATION FairSpec
CONSTANTS
  Threads = {t1, t2}
  Mutexes = {m1, m2}
  NULL = NULL
  Waits <- SomeWaits
  MaxHeld = 2
  Faults = {"malloc", "create", "lock", "unlock", "signal"}
INVARIANTS
  TypeOK
  DataLivesWithItsThread
  SuccessIsEarned
PROPERTIES
  EveryThreadEnds
