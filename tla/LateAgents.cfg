CONSTANTS
  LoopTask = {x1, x2}
  MaxAttempts = 2
SPECIFICATION AttemptsSpec
INVARIANTS OneAgentPerWorktree
CHECK_DEADLOCK FALSE
