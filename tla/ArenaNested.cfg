SPECIFICATION Spec
CONSTANTS
  A1 = A1
  A2 = A2
  I1 = I1
  I2 = I2
  T1 = T1
  T2 = T2
  h1 = h1
  h2 = h2
  h3 = h3
  h4 = h4
  b1 = b1
  b2 = b2
  b3 = b3
  b4 = b4
  b5 = b5
  None = None
  Arena = {A1, A2}
  Thread = {T1}
  Owner <- OneThread
  Block = {b1, b2, b3, b4}
  Item = {I1, I2}
  Handle = {h1, h2, h3, h4}
  BlockRooms = {3}
  MinFree = 1
  MaxFree = 1
  ListMax = 2
  MayHold <- Mutual
  MayPanic <- FirstItem
  MayUse = {I1, I2}
  Anchored = {A1, A2}
  ChainMax = 2
SYMMETRY SymmetryButItems
CHECK_DEADLOCK FALSE
INVARIANTS
  RefCounts
  HandlesKeepMemory
  NoStaleAccess
  DroppedOnce
  DroppedBeforeReclaim
PROPERTIES
  NoResurrection
  CycleKeepsAlive
