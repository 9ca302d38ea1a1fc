SPECIFICATION Spec
CONSTANTS
  BlockSizes = {64, 69, 72}
  Header = 24
  Bases = {1, 8, 16}
  Values <- SomeValues
  Arrays <- SomeArrays
  Width = 8
INVARIANTS
  TypeOK
  InsideBlock
  NoOverlap
  OnlyBaseMisaligns
  PanicsOnlyForPadding
