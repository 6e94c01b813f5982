SPECIFICATION BumpFairSpec
CONSTANTS
  Threads = {t1, t2}
  MaxSize = 4
  Increments <- MCIncrements
  MaxResets = 1
  Requests <- MCRequests
  Align = 2
  PageSize = 2
  WordSize = 16
  NoThread = NoThread
  NoRequest = NoRequest
INVARIANTS RegionsDisjoint BreakFollowsGrants BlocksHoldRequests BlocksStayMapped
PROPERTY RequestsReturn
CHECK_DEADLOCK FALSE
