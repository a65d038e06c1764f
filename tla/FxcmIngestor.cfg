SPECIFICATION Spec
CONSTANTS
  Labels <- GateLabelsOnly
  Values <- MarketOnly
  OpenIn = {}
  Closes = {1, 2}
  MaxNow = 0
  InboxSize = 1
  MaxBackoff = 1
  Pairs = {p1}
  AllowedPairs = {p1}
  LastBar = 3
  Full = 2
  Secret = TRUE
  Required = FALSE
  Queued = 1
  Habits = {"history", "loss", "bad_payload", "put_fails"}
INVARIANTS
  LiveBarsKept
  CompleteWins
  IngestInv
