SPECIFICATION FairSpec
CONSTANTS
  w1 = w1  w2 = w2  k1 = k1  bad = bad
  Workers = {w1, w2}
  Keys = {k1}
  Malformed = bad
  Bodies = {k1, bad}
  Concurrency = 1
  LongHandlers = FALSE
  Budgeted = TRUE
  MaxPerWindow = 1
  ReclaimCount = 1
  MaxLen = 1
  MaxDeliveries = 5
  MaxCrashes = 1
  MaxStops = 1
  MaxFaults = 1
  MaxRetryAnswers = 1
PROPERTY EventuallySettled
CHECK_DEADLOCK FALSE
