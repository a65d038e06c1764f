SPECIFICATION Spec
CONSTANTS
  Symbols = {s1, s2}
  Intervals <- TwoIntervals
  Sizes = {1, 2}
  Ttl <- TwoTtls
  Levels = {0, 1, 3}
  Normal = 1
  Alert = 3
  MaxSymbolsHot = 1
  RamLimit = 4
SYMMETRY SymbolSymmetry
INVARIANTS
  RamInv
PROPERTIES
  PutStays
  Lossy
