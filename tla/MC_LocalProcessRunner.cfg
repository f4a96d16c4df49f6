CONSTANTS
  Call = {c1, c2}
  Id = {"run"}
  IdOf <- OneId
  Timed = {c2}
  NoCall = NoCall
SPECIFICATION FairSpec
INVARIANTS
  SettledIsDead
  ActiveIsExact
  StatusIsExplained
PROPERTIES
  AskedEnds
CHECK_DEADLOCK FALSE
