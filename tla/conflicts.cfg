CONSTANTS
  Memories = {1, 2}
  a = a  b = b  w1 = w1  w2 = w2  s1 = s1  d1 = d1  r1 = r1
  Values = {a, b}
  Standing <- MCStanding
  Trust <- MCTrust
  Writers = {w1, w2}
  Scanners = {s1}
  Cleaners = {d1}
  Reviewers = {r1}
  Read = {1}
  Ageing = {1}
  MaxClock = 1
SPECIFICATION Spec
INVARIANT SuccessionEnds
PROPERTIES StaleConflictsClosed LiveConflictReported
CHECK_DEADLOCK FALSE
