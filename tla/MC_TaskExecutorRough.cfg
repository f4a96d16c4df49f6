CONSTANTS
  e1 = e1
  e2 = e2
  e3 = e3
  a1 = a1
  a2 = a2
  a3 = a3
  r1 = r1
  r2 = r2
  r3 = r3
  Exec = {e1, e2}
  Owner = {a1, a2}
  Resource = {r1, r2, r3}
  NoLock = NoLock
  NoSession = NoSession
  OwnerOf <- TwoOwnerOf
  NeedOf <- TwoNeedOf
  LeaseMs = 2
  HeartbeatInterval = 1
  MaxCreate = 3
  TimerSlack = 1
  MaxTime = 5
  ReuseAllowed = TRUE
  CloseAllowed = TRUE
  MalformedAllowed = TRUE
SPECIFICATION Spec
INVARIANTS
  AllOrNothing
  EndedHoldsNothing
  ResultMatchesWorkspace
PROPERTIES
  OnlyRunsRenew
CHECK_DEADLOCK FALSE
