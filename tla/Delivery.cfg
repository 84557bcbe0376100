SPECIFICATION Spec
CONSTANTS
  e1 = e1  e2 = e2  conac = conac  minfi = minfi
  Bodies = {conac, minfi}
  Recommended = {conac}
  Derived = {minfi}
  Conac = conac
  NoBody = NoBody
  DevUnsigned = "yes"
  Escalations = {e1, e2}
  MaxRefs = 3
  MaxUpsets = 1
SYMMETRY Events
INVARIANTS ManifestIsTrigger DeliveredWasSent PrintedForRecipient BelowMeansOvertaken
PROPERTY OperatorWins
CHECK_DEADLOCK FALSE
