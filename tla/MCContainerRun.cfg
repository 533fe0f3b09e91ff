CONSTANTS
  Runs = {1, 2}
  Procs = {1, 2}
  RunIDs = {"a", "b"}
  Hashes = {1, 2}
  Settings <- MCSettings
  MaxFaults = 1
  MaxSignals = 1
SPECIFICATION Spec
INVARIANTS OwnContainerRemoved NotRemovedUnderCommands LeftoversDoNotPileUp
