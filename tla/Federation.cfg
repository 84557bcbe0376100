SPECIFICATION FairSpec
CONSTANTS
  e1 = e1  e2 = e2
  Envelopes = {e1, e2}
  Kind <- Kind2
  BatchSize = 2
  MaxAttempts = 2
  MaxFaults = 1
INVARIANTS EveryWaiterResolvable AckedIsAccounted 
PROPERTY EventuallySettled
CHECK_DEADLOCK FALSE
