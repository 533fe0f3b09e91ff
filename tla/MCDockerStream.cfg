CONSTANTS
  NumTags = 2
  MaxItems = 2
SPECIFICATION Spec
INVARIANTS DigestsCompleteAfterListen NobodyLeftBehind
PROPERTIES FeedSpec ListenReturns
