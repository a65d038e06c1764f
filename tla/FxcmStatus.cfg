SPECIFICATION FairStatus
CONSTANTS
  Labels <- MCLabels
  Values <- MCValues
  OpenIn = {0, 5}
  Closes = {2}
  MaxNow = 1
  InboxSize = 2
  MaxBackoff = 2
INVARIANTS
  FollowsStatus
  
PROPERTIES
  CatchesUp
