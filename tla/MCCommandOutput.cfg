SPECIFICATION OutputSpec
CONSTANTS
  NumCommands = 2
  MaxChunks = 3
INVARIANTS
  OutputIsTrue
  NobodyLeftBehind
PROPERTIES
  ReturnsUnlessGivenUp
