CONSTANTS
  s1 = s1  s2 = s2  t1 = t1  t2 = t2  m1 = m1  m3 = m3  m2 = m2  r1 = r1  f1 = f1
  Steps = {s1, s2}
  Events = {t1}
  Workers = {w1}
  Flushers <- NoRequests
  Retrievals <- NoRequests
  Rollbacks = {r1}
  Finishes = {f1}
  Closers <- NoRequests
  StepOf <- BranchStepOf
  KindOf <- MCKindOf
  ModesOf <- Deferred
  Verdicts = {"completed", "cancelled"}
  Subtree <- MCSubtree
  MayFail = TRUE
SPECIFICATION Spec
INVARIANTS RollbackIsolation
CHECK_DEADLOCK FALSE
