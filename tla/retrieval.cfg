CONSTANTS
  r1 = r1
  Memories = {1, 2, 3}
  Blocks = {0, 1, 2, 3, 4, 5, 6}
  Protected = {0, 1}
  Facts = {2, 3}
  Tokens <- MCTokens
  ReserveTokens = 2
  NoticeTokens = 1
  NoticeOf <- MCNoticeOf
  Traits <- MCTraits
  Here = "here"
  Requests = {r1}
  StrategiesOf <- MCStrategiesOf
  Budgets = {5}
  Hits = {2}
  Leads <- MCLeads
  Always = {1}
  Disputes = {}
  TopK = 2
  MaxHops = 1
  GraphHops = 1
  StaleWarning = TRUE
  Floor = FALSE
  Changes = 2
SPECIFICATION Spec
INVARIANTS
  WithinBudget
  UsedIsPacked
  NothingForgotten
  SafeContext
  RetiredStaysOut
  ServedIsLogged
  ReplayAgrees
CHECK_DEADLOCK FALSE
