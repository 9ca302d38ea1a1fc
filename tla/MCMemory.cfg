SPECIFICATION FairSpec
CONSTANTS
  t1 = t1
  t2 = t2
  Thread = {t1, t2}
  NoThread = NoThread
  Block = {b1, b2, b3, b4, b5, b6}
  b1 = b1
  b2 = b2
  b3 = b3
  b4 = b4
  b5 = b5
  b6 = b6
  Settings <- AllSettings
  HeldMax = 2
INVARIANTS
  TypeOK
  BlocksOwnedOnce
  MutualExclusion
  PoisonedOnlyIfUnfillable
  PoisonedPoolIsEmpty
  PoolBounded
PROPERTIES
  ImplementsPool
  LockReleased
