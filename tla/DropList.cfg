SPECIFICATION FairSpec
CONSTANTS
  l1 = l1
  l2 = l2
  l3 = l3
  i1 = i1
  i2 = i2
  i3 = i3
  i4 = i4
  i5 = i5
  None = None
  List = {l1, l2, l3}
  Item = {i1, i2, i3, i4, i5}
  ListMax = 2
CHECK_DEADLOCK FALSE
INVARIANTS
  TypeOK
  NoGap
  EndsAtEmptySlot
PROPERTIES
  ImplementsQueue
  ExecutionEnds
