SPECIFICATION Spec
CONSTANTS
  Processes <- MCProcesses
  Scenarios <- MCScenarios
  Branches <- MCBranches
  Steps <- MCSteps
  Image <- MCImage
  RootImage = "none"
  LinuxImages = {"alpine"}
  ImageValue <- MCImageValue
  Script <- MCScript
  Project <- MCProject
  StepName <- MCStepName
  MaxIdLength = 2
  Skipped <- MCSkipped
  MaxFailures = 1
  MaxDeaths = 1
INVARIANT NoContainerForgotten SuccessMeansRan ContainerStays EnvironmentIsKept
CHECK_DEADLOCK FALSE
