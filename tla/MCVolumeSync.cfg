SPECIFICATION Spec
CONSTANTS
  a1 = a1
  a2 = a2
  project = project
  other = other
  src = src
  lib = lib
  Actors <- MCActors
  ProjectIDs <- MCProjectIDs
  Paths <- MCPaths
  Settings <- MCSettings
  MaxFaults = 1
  MaxSignals = 1
INVARIANTS
  CommandsSeeVolumes
  SessionsOutliveUse
  ChangesReachHost
  NoSessionLeft
PROPERTIES
  CallsEnd
