CONSTANTS
  s1 = s1  s2 = s2  t1 = t1  t2 = t2  m1 = m1  m2 = m2  m3 = m3  r1 = r1  f1 = f1
  Steps = {s1, s2}
  Events = {t1, t2}
  Workers <- NoRequests
  Flushers = {fl}
  Retrievals = {q1}
  Rollbacks <- NoRequests
  Finishes <- NoRequests
  Closers = {c1}
  StepOf <- BranchStepOf
  KindOf <- MCKindOf
  ModesOf <- FlushModes
  Verdicts = {"completed", "cancelled"}
  Subtree <- MCSubtree
  MayFail = FALSE
SPECIFICATION Spec
INVARIANTS DrainedOnce NoSilentLoss
CHECK_DEADLOCK FALSE
