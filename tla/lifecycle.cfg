CONSTANTS
  u1 = u1  u2 = u2  m1 = m1  m2 = m2  b1 = b1  old = old  new = new
  Updaters = {u1, u2}
  Movers = {m1, m2}
  Bumpers = {b1}
  Bodies = {old, new}
SPECIFICATION Spec
SYMMETRY Alike
INVARIANTS HistoryIsRow NoAccessLost PinRemembersStatus
PROPERTIES NoReactivation SchedulerSparesPins
CHECK_DEADLOCK FALSE
