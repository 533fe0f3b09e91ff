SPECIFICATION Spec
CONSTANTS
  Runs <- MCRuns
  Configs <- MCConfigs
  Settings <- MCSettings
  Leaves <- MCLeaves
  FileVolumes = {"lone"}
  Renamed = {"lone"}
  ReadOnly = {"fixed"}
  Entries <- MCEntries
  EntryOf <- MCEntryOf
  Written = {"a", "fixed"}
  Edited = {"b", "lone"}
  NumCommands = 1
  MaxWrites = 2
  MaxFlakes = 1
INVARIANT RunsStartFromHost WritesReachHost
PROPERTY RunsKeepHost
CHECK_DEADLOCK FALSE
