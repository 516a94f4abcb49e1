CONSTANTS
  r1 = r1  h1 = h1  h2 = h2
  Runs = {r1}
  Handlers = {h1, h2}
  LastOp = 2
  Redeliveries = 2
  Faults = {"enqueue", "enqueue_reply", "acquire", "release", "run_row", "attempt_row", "operation", "expiry", "death"}
SPECIFICATION FairSpec
INVARIANTS AtMostOnce InOrder CompletedMeansAll
PROPERTIES RunSettles
CHECK_DEADLOCK FALSE
