SPECIFICATION FairSpec
CONSTANTS
  A1 = A1
  A2 = A2
  I1 = I1
  T1 = T1
  T2 = T2
  h1 = h1
  h2 = h2
  h3 = h3
  b1 = b1
  b2 = b2
  b3 = b3
  None = None
  Arena = {A1, A2}
  Thread = {T1}
  Owner <- OneThread
  Block = {b1, b2, b3}
  Item = {I1}
  Handle = {h1, h2, h3}
  BlockRooms = {4}
  MinFree = 1
  MaxFree = 1
  ListMax = 2
  MayHold <- Downward
  MayPanic = {}
  MayUse = {}
  Anchored = {}
  ChainMax = 1
CHECK_DEADLOCK FALSE
PROPERTIES
  LeakFree
