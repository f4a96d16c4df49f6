CONSTANTS
  Plan <- BranchPlan
  InitialStatus = {"READY", "SUPERSEDED"}
  MaxConcurrent = 2
  Denied = {3, 5}
  NoTask = NoTask
SPECIFICATION FairSpec
INVARIANTS
  WorkOnApproved
  LocksApart
PROPERTIES
  ApprovedStays
  AllSettle
CHECK_DEADLOCK FALSE
