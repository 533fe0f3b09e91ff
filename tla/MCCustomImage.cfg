SPECIFICATION Spec
CONSTANTS
  Commands <- MCCommands
  Scenarios <- MCScenarios
  Units <- MCUnits
  Tags <- MCTags
  Name <- MCName
  Dockerfiles = {"a", "b"}
  MaxEdits = 2
  MaxFailures = 2
INVARIANT RunsItsDockerfile
CONSTRAINT OneAtATime
CHECK_DEADLOCK FALSE
