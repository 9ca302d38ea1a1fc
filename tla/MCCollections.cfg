SPECIFICATION Spec
CONSTANTS
  v1 = v1
  v2 = v2
  v3 = v3
  Garbage = Garbage
  None = None
  Value = {v1, v2, v3}
  MayPanic = {v1}
  Largest = {2, 4}
  SegMax = 2
  MinCap = 1
  Caps = {0}
  Hints = {0, 3}
  Sources = {"exact", "fixed", "dying", "list", "panics"}
  Regions = {1, 3}
  CountMax = 4
  EntryBytes = 2
  MaxKinds = 2
SYMMETRY Symmetry
CHECK_DEADLOCK FALSE
INVARIANTS
  TypeOK
  ReadsLive
  OutlivesOrder
  DroppedExactly
  TextFaithful
  FaultsExplained
PROPERTIES
  ListImplements
  ArrayImplements
  FixedImplements
