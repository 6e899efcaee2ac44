SPECIFICATION MCSpec
CONSTANTS
  None = None
  Absent = Absent
  Designs <- MCDesigns
  Slug <- MCSlug
  Committed <- MCCommitted
  VERSION = "0.5.1"
  PREV_VERSION = "0.3.1"
  Counts = {}
  Words <- MCWords
  MaxPending = 2
  Arrivals <- MCArrivals
  MockRepos <- MCMockRepos
  MockFilters <- MCFilters
  Summaries <- MCSummaries
  Rests <- MCRests
  MaxVersion = 1
  MaxMounts = 2
  MaxFetches = 2
INVARIANTS
  WebTypeOK
  NoOrphanSocket
  ConsoleCurrent
  VisitorSeesChoice
CHECK_DEADLOCK FALSE
