SPECIFICATION Spec
CONSTANTS
  e1 = e1  e2 = e2  r1 = r1  r2 = r2
  Runs = {r1, r2}
  Events = {e1, e2}
  Urls <- OneUrl
  DailyCap = 1
  ResidentialTier = "bright-data-residential"
  MaxStarts = 3
  MaxFaults = 1
  RepairAfter = 2
  Window = 1
  MaxProposals = 1
  MaxRows = 1
INVARIANTS PublishedOnce EachCutLosesOne CriticalNeedsSignOff
PROPERTY DecisionIsFinal
CHECK_DEADLOCK FALSE
