SPECIFICATION FairSpec
CONSTANTS
  Clients = {c1, c2}
  Requests = {r1}
  Digest = digest
  Feeds <- MCFeeds
  Tokens = {right, wrong}
  Token = right
  Window = 2
  MaxPerIp = 1
  MaxGlobal = 2
  Cap = 2
  MaxCost = 1
  MaxIterations = 2
  MonthLength = 3
  LastTime = 4
  MaxHits = 3
INVARIANTS BudgetIsBounded BurstIsBounded
PROPERTY TurnsEnd
CHECK_DEADLOCK FALSE
