SPECIFICATION FairSpec
CONSTANTS
  N = 3
  Contents <- Lines
  None = None
  Locked = Locked
  Maxes = {0, 1, 2}
  GlobMax = 2
  ItemBytes <- ThreeItems
  Quotes = 1
  MaxResponse = 14
  Reserve = 4
  Envelope = 2
  Changes = 1
  Worlds = {"quiet", "shared"}
INVARIANTS TypeOK NothingMissing NothingInvented TruncatedMeansMore RefusalIsTrue
PROPERTIES SearchesEnd
