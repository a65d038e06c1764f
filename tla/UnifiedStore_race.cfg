SPECIFICATION Spec
CONSTANTS
  Keys = {k1, k2}
  Times <- MCTimes
  Values <- MCValues
  Batches <- OneBarBatches
  Limits = {}
  WarmBars = {}
  Readers = {r1}
  MaxPuts = 2
  FlushBatchMax = 1
  Tiers <- MCTiers
  Faults = {}
SYMMETRY KeySymmetry
PROPERTIES
  ReadKeepsBars
CHECK_DEADLOCK FALSE
