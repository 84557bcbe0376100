SPECIFICATION Spec
CONSTANTS
  e1 = e1  e2 = e2  q1 = q1  q2 = q2  d1 = d1  acme = acme  rccm = rccm  beta = beta
  Events = {e1, e2}
  Aliases = {acme, rccm, beta}
  AliasesOf <- Named
  Textless = {}
  Federated = {e2}
  Requests = {q1, q2}
  Documents = {d1}
  DocumentOf <- SameDocument
  EventOf <- OneEvent
  NameOf <- Names
  RegistrationOf <- Registry
  Unregistered = "none"
  Foldable = {acme, beta}
  Seeds <- Seeded
  ModelClusters <- Given
  MaxClusters = 1
  MaxFaults = 1
INVARIANTS AckedIsResolved StoredIsDispatched TwinsNeedOverlap NoMergeByName StoredIsAnnounced
SYMMETRY AnyRequest
CHECK_DEADLOCK FALSE
VIEW Seen
