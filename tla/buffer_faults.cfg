CONSTANTS
  e1 = e1  e2 = e2  e3 = e3  d1 = d1  d2 = d2  d3 = d3  w1 = w1  w2 = w2
  p1 = p1  p2 = p2
  Candidates = {e1, e2, e3}
  Workspaces = {w1, w2}
  Processes = {p1, p2}
  Drainers = {d1, d2}
  WorkspaceOf <- MCWorkspaceOf
  ProcessOf <- MCProcessOf
  ScopeOf <- Mixed
  Everything = Everything
  Faults = {"append", "append_reply", "index", "detach", "detach_reply", "pop", "pop_reply", "restore", "crash"}
SPECIFICATION Spec
INVARIANTS Discoverable Exclusive
CHECK_DEADLOCK FALSE
