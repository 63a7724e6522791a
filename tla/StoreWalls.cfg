\* One entity of each kind, a version, two troubles.  The program ends.
CONSTANTS
  h1 = h1
  m1 = m1
  v1 = v1
  w1 = w1
  p1 = p1
  a1 = a1
  x1 = x1
  Hashtags = {h1}
  Medias = {m1, v1, x1}
  Accounts = {a1}
  Walls = {w1}
  Posts = {p1}
  Variants = {v1}
  Avatars = {x1}
  MaxVersions = 1
  MaxTroubles = 2
  Foci = {{m1, v1}, {p1, h1, w1}, {a1, x1}}
SPECIFICATION StoreSpec
PROPERTY WallPostsKept
CONSTRAINT InFocus
CHECK_DEADLOCK FALSE
