\* Pages of one post, two failures and a restart anywhere.
CONSTANTS
  Creators <- Two
  Scope <- One
  Baseline = 1
  PageSize = 1
  FilterPages = 1
  PagDedup = TRUE
  MaxPosts = 2
  MaxStories = 1
  MaxQueue = 2
  MaxFaults = 2
  MaxRestarts = 1
SPECIFICATION Spec
INVARIANTS TypeOK   StoriesAccounted
