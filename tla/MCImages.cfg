SPECIFICATION Spec
CONSTANTS
  Commands <- MCCommands
  Scenarios <- MCScenarios
  Units <- MCUnits
  Tags <- MCTags
  Name <- MCName
  Dockerfiles = {"a", "b"}
  MaxEdits = 2
  MaxFailures = 2
INVARIANT CustomImageIsBuilt ScriptsAreToldTheTruth OutputListsPushed
CHECK_DEADLOCK FALSE
