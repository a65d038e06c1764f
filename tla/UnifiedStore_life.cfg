SPECIFICATION Spec
CONSTANTS
  Keys = {k1, k2}
  Times <- MCTimes
  Values <- MCValues
  Batches <- LongOrShort
  Limits = {1}
  WarmBars = {1}
  Readers = {r1}
  MaxPuts = 2
  FlushBatchMax = 1
  Tiers <- MCTiers
  Faults = {"redis_error", "ram_drop", "restart"}
SYMMETRY KeySymmetry
INVARIANTS
  PendingIsQueued
  NewestKept
PROPERTIES
  ExitIsDurable
