SPECIFICATION Spec
CONSTANTS
  w1 = w1  w2 = w2  k1 = k1  bad = bad
  Workers = {w1, w2}
  Keys = {k1}
  Malformed = bad
  Bodies = {k1}
  Concurrency = 1
  LongHandlers = TRUE
  Budgeted = FALSE
  MaxPerWindow = 1
  ReclaimCount = 1
  MaxLen = 2
  MaxDeliveries = 2
  MaxCrashes = 1
  MaxStops = 0
  MaxFaults = 1
  MaxRetryAnswers = 1
SYMMETRY Replicas
INVARIANTS OneHandlerPerKey DoneAtMostOnce LossNeedsRedelivery
CHECK_DEADLOCK FALSE
