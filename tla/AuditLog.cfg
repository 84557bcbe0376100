SPECIFICATION Spec
CONSTANTS
  e1 = e1  e2 = e2  e3 = e3  d1 = d1  known = known  fresh = fresh
  Events = {e1, e2, e3, d1}
  Direct = {d1}
  Actors = {known, fresh}
  ActorOf <- OneFirstEvent
  Known = {known}
  Earlier = Earlier
  None = None
  MaxAttempts = 2
  MaxFaults = 1
INVARIANTS ChainLinked RowPerCommit NoDarkPeriod
PROPERTY LinearHistory
CHECK_DEADLOCK FALSE
