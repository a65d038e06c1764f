SPECIFICATION Spec
CONSTANTS
  Keys = {k1, k2}
  Times <- MCTimes
  Values <- MCValues
  Batches <- OneBarBatches
  Limits = {}
  WarmBars = {}
  Readers = {}
  MaxPuts = 2
  FlushBatchMax = 1
  Tiers <- MCTiers
  Faults = {"restart"}
SYMMETRY KeySymmetry
INVARIANTS
  HistorySurvives
