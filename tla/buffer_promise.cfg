CONSTANTS
  e1 = e1  e2 = e2  e3 = e3  d1 = d1  d2 = d2  d3 = d3  w1 = w1  w2 = w2
  p1 = p1  p2 = p2
  Candidates = {e1, e2, e3}
  Workspaces = {w1, w2}
  Processes = {p1, p2}
  Drainers = {d1, d2, d3}
  WorkspaceOf <- MCWorkspaceOf
  ProcessOf <- MCProcessOf
  ScopeOf <- ByWorkspace
  Everything = Everything
  Faults = {"append", "detach", "pop"}
SPECIFICATION Spec
PROPERTY QueueSpec
CHECK_DEADLOCK FALSE
