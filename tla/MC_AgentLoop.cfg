CONSTANTS
  InitialStates <- MCInitialStates
  FoundSets <- MCFoundSets
  ForcedPhases <- MCForcedPhases
  MaxRuns = 2
  MaxCrashes = 1
SPECIFICATION FairSpec
INVARIANTS
  StatesAreSound
PROPERTIES
  ArchiveIsAcceptedUnlessMixed
  SplitHeals
  ReconcileFinishes
