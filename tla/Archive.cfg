\* Two creators, one stream of them a variant, up to two files from earlier
\* releases, three passes, one file removed by the user, one failure or crash
\* anywhere.  Eight items in three runs under eight choices of limits, two
\* threads.  The program ends.
CONSTANTS
  None = None
  v = v
  p = p
  s = s
  t = t
  X = X
  Y = Y
  image = image
  stream = stream
  Items = {v, p, s, t}
  Creators = {X, Y}
  Owner <- OwnerMC
  Content <- ContentMC
  Streams = {s, t}
  Varied = {s}
  Previews = {p}
  RepairModes = {TRUE, FALSE}
  Inherited <- InheritedMC
  Breakable <- BreakableMC
  MaxInherited = 2
  MaxPasses = 3
  MaxDeletes = 1
  MaxFaults = 1
  Parts = {"library", "fetch"}
  Offers <- OffersMC
  LimitChoices <- LimitsMC
  Workers = {1, 2}
  SegmentChunks = 2
  MaxFetchRuns = 3
SPECIFICATION ArchiveSpec
INVARIANTS ArchiveTypeOK   BytesBounded
   
CHECK_DEADLOCK FALSE
