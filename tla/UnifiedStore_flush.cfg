SPECIFICATION FairSpec
CONSTANTS
  Keys = {k1, k2}
  Times <- MCTimes
  Values <- TwoValues
  Batches <- RivalBatches
  Limits = {}
  WarmBars = {}
  Readers = {}
  MaxPuts = 2
  FlushBatchMax = 1
  Tiers <- MCTiers
  Faults = {"save_error", "tmp_vanishes", "cancel_midflush"}
INVARIANTS
  FlushInv
  HistorySurvives
PROPERTIES
  BarsStable
  DiskNeverRegresses
  AbstractSpec
  EventuallyFlushed
CHECK_DEADLOCK FALSE
