CONSTANTS
  Workflow = {w1}
  Task = {1}
  Gate = {g1}
  Opening <- Designing
  Target <- DesignLoop
  Reports = {}
  NoTask = NoTask
  MaxEvents = 5
  MaxVersion = 2
  MaxExecutions = 1
  MaxClock = 0
SPECIFICATION Spec
INVARIANT
  TransitionsAudited
CHECK_DEADLOCK FALSE
