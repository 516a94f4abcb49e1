CONSTANTS
  Requests = {1, 2, 3}
  Keys = {"k1", "k2", "k3"}
  Workspaces = {"w", "v"}
  Names = {"ann", "bob"}
  Claims <- MCClaims
  Workloads <- MCWorkloads
  Units = {"write_event"}
  Caps = {0, 1, 2}
  Lens = {1, 2}
  Horizon = 1
  MaxFaults = 1
  Steps = {1, 2}
  Subtree <- MCSubtree
  Items = {1, 2, 3}
  NodeOf <- MCNodeOf
  Project = {3}
  Threshold = 1
SPECIFICATION Spec
INVARIANTS
  AnsweredWhereGranted
  CredentialsHold
  LimitsHold
  UpsertsSettle
  OneSummary
  BranchStaysOut
PROPERTIES
  SummarisedEventually
CHECK_DEADLOCK FALSE
