SPECIFICATION VersionsSpec
CONSTANTS
  Actors <- MCActors
  Scenarios <- MCScenarios
INVARIANTS
  BumpIsSeen
  ConfigSurvives
  ResolvedWithinLimit
PROPERTY
  ResolutionEnds
CHECK_DEADLOCK FALSE
