SPECIFICATION Spec
CONSTANTS
  BlockSizes = {72}
  Header = 24
  Bases = {16}
  Values <- SomeValues
  Arrays <- SomeArrays
  Width = 8
INVARIANTS
  NeverPanics
