CONSTANTS
  Subject = {"bug", "scope", "size"}
  Topic = {}
  StartPhases = {"PRD_REVIEW"}
  Results <- FormAndFlaws
  Good <- Passes
  MaxFaulty = 2
  MaxRounds = 4
SPECIFICATION IssueSpec
PROPERTIES
  FlawsAreRechecked
CHECK_DEADLOCK FALSE
