CONSTANTS
  Plan <- ConflictPlan
  InitialStatus = {"READY"}
  MaxConcurrent = 2
  Denied = {}
  NoTask = NoTask
SPECIFICATION Spec
INVARIANT ConflictsApart
CHECK_DEADLOCK FALSE
