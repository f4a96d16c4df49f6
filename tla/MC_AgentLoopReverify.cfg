CONSTANTS
  InitialStates <- MCReverifiedStates
  FoundSets <- MCFoundSets
  ForcedPhases = {}
  MaxRuns = 2
  MaxCrashes = 1
SPECIFICATION Spec
PROPERTIES
  ArchiveIsAccepted
