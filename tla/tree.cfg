CONSTANTS
  x1 = x1  x2 = x2  x3 = x3  w1 = w1  f1 = f1  r1 = r1  r2 = r2
  Root = Root  NoNode = NoNode
  Starts = {x1, x2, x3}
  Writes = {w1}
  Finishes = {f1}
  Rollbacks = {r1}
  Verdicts = {"completed", "failed", "cancelled"}
  Careful = {"update", "start"}
  MayDie = TRUE
SPECIFICATION Spec
INVARIANTS Rooted RecoveryOutside RolledBackOffPath BranchRolledBack StepNodeAgree
SYMMETRY Alike
CHECK_DEADLOCK FALSE
