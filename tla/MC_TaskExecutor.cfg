CONSTANTS
  e1 = e1
  e2 = e2
  e3 = e3
  a1 = a1
  a2 = a2
  a3 = a3
  r1 = r1
  r2 = r2
  r3 = r3
  Exec = {e1, e2, e3}
  Owner = {a1, a2, a3}
  Resource = {r1, r2}
  NoLock = NoLock
  NoSession = NoSession
  OwnerOf <- MCOwnerOf
  NeedOf <- MCNeedOf
  LeaseMs = 3
  HeartbeatInterval = 1
  MaxCreate = 1
  TimerSlack = 0
  MaxTime = 4
  ReuseAllowed = FALSE
  CloseAllowed = TRUE
  MalformedAllowed = TRUE
SPECIFICATION Spec
INVARIANTS
  MutualExclusion
PROPERTIES
  ImplementsExclusiveExecution
CHECK_DEADLOCK FALSE
