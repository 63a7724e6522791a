\* A home page with both creators, one of them in scope.
CONSTANTS
  Creators <- Two
  Scope <- One
  Baseline = 1
  PageSize = 2
  FilterPages = 1
  PagDedup = TRUE
  MaxPosts = 2
  MaxStories = 1
  MaxQueue = 2
  MaxFaults = 1
  MaxRestarts = 0
SPECIFICATION FairSpec
PROPERTIES Detected
