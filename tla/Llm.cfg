SPECIFICATION RouterSpec
CONSTANTS
  c1 = c1  c2 = c2  c3 = c3
  Calls = {c1, c2, c3}
  Breakers = {0, 1}
  Local = {2}
  Priced = {c1, c2}
  MaxCost = 1
  Hard = 2
  Threshold <- TwoFailures
  Window = 1
  Probe = 1
  Day = 1
  MaxRestarts = 1
INVARIANT OverrunByInFlight
PROPERTY FirstTierIsTriedAgain
