SPECIFICATION FairSpec
CONSTANTS
  Threads = {t1, t2, t3}
  Mutexes = {m1, m2}
  Blocks = {b1, b2, b3}
  NULL = NULL
  NoThread = NoThread
  Faults = {"create", "obtain", "lock", "release", "unlock"}
INVARIANTS
  TypeOK
  OwnsData
PROPERTIES
  SuccessIsTrue
  EveryThreadReturns
CHECK_DEADLOCK FALSE
