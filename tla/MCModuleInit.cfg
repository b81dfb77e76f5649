CONSTANTS
  Threads = {t1, t2, t3}
  NoThread = NoThread
  StartIds = {1, 2}
  MaxId = 3
SPECIFICATION FairSpec
INVARIANTS
  TypeOK
  LockIsInitializedOnce
PROPERTIES
  IdsAreNotReused
  LoadReturns
