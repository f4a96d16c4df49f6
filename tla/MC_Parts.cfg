CONSTANTS
  InitialPhases <- MCInitialPhases
  MaxTransitions = 20
  Resource = {q1, q2}
  Owner = {a1, a2}
  NoLock = NoLock
  LeaseLengths = {1, 2}
  MaxTime = 3
  MaxLeases = 3
  Id = {1, 2, 3}
  Declarations <- MCDeclarations
  External = {"brief"}
  Path <- MCFiles
  Contract <- MCContract
  Workflow = {f1, f2}
  Task = {t1, t2}
  Gate = {g1}
  Opening <- Designing
  Target <- DesignLoop
  Reports <- AcceptAndRelease
  NoTask = NoTask
  MaxEvents = 11
  MaxVersion = 1
  MaxExecutions = 2
  MaxClock = 1
  LogicalKey = {k1, k2}
  MaxArtifacts = 3
  Project = {p1, p2}
  MaxMaps = 4
  MaxContexts = 3
  Integration = {i1, i2}
  Place = {w1, w2}
  Branch = {b1, b2}
  MaxCommits = 2
  MaxChecks = 2
  NoTree = NoTree
  MaxCommands = 2
  Call = {c1, c2, c3}
  Moment = {m1, m2}
  PerMoment = 2
  NoFile = NoFile
  RunId = {r1, r2}
  TaskName = {n1}
  Idle = Idle
  Torn = Torn
  CodeFile = {app}
  TestFile = {spec}
  MaxDeliveries = 3
  MaxCutShort = 1
  NoWorktree = NoWorktree
  Subject = {"bug", "scope", "size"}
  Topic <- MCTopics
  StartPhases = {"TESTING"}
  Results <- MCResults
  Good <- Passes
  MaxFaulty = 2
  MaxRounds = 3
  LoopTask = {x1, x2}
  MaxAttempts = 2
SPECIFICATION MCSpec
SYMMETRY RunsAlike
INVARIANTS
  ReleasedOnlyVerified
  ToldIsHeld
  OrderIsRunnable
  InputsComeFirst
  SharedWritesExplained
  RecoveryIsExact
  SupersessionIsTraced
  ContextsFollowMaps
  VerifiedInPlace
  RollbackIsTrue
  RecordsAreWhole
  ReadyIsSettled
  RootIsIntegrated
  SystemFailuresBlock
  SomeoneWorks
  JudgedWhenEnded
PROPERTIES
  QuestionsStopTheLoop
  AskedOnce
  TaskChangesAreJournaled
  PointersPreserved
  CodeIsKept
  LeftTreesStay
CHECK_DEADLOCK FALSE
