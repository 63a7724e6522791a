\* The store: one entity of each kind, a version, two troubles.  Stash: two files
\* in three posts of two creators, three moves of the server.  The program ends.
CONSTANTS
  Parts = {"store", "stash"}
  h1 = h1
  m1 = m1
  v1 = v1
  w1 = w1
  p1 = p1
  a1 = a1
  x1 = x1
  Hashtags = {h1}
  Medias = {m1, v1, x1}
  Accounts = {a1}
  Walls = {w1}
  Posts = {p1}
  Variants = {v1}
  Avatars = {x1}
  MaxVersions = 1
  MaxTroubles = 2
  Foci = {{m1, v1}, {p1, h1, w1}, {a1, x1}}
  f1 = f1
  f2 = f2
  i1 = i1
  i2 = i2
  i3 = i3
  Files = {f1, f2}
  Pictures = {f2}
  Items = {i1, i2, i3}
  Media <- MCMedia
  Title <- DistinctTitles
  Creators <- MCCreators
  MaxMoves = 3
SPECIFICATION MirrorSpec
INVARIANTS NotForgotten
PROPERTIES EarnedKept TagsKept  NoSelfSplit
CONSTRAINT InFocus
CHECK_DEADLOCK FALSE
