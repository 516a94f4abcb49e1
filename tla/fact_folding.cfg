CONSTANTS
  s1 = s1  s2 = s2  t1 = t1  t2 = t2  m1 = m1  m2 = m2  m3 = m3  r1 = r1  f1 = f1
  Steps = {s1, s2}
  Events = {m1, m3}
  Workers = {w1, w2, w3}
  Flushers <- NoRequests
  Retrievals <- NoRequests
  Rollbacks <- NoRequests
  Finishes <- NoRequests
  Closers <- NoRequests
  StepOf <- BranchStepOf
  KindOf <- MCKindOf
  ModesOf <- FactModes
  Verdicts = {"completed", "cancelled"}
  Subtree <- MCSubtree
  MayFail = FALSE
SPECIFICATION Spec
INVARIANT FactStaysLive
SYMMETRY WorkerSymmetry
CHECK_DEADLOCK FALSE
