SPECIFICATION MCSpec
CONSTANTS
  old = old
  middle = middle
  new = new
  undated = undated
  first = first
  second = second
  Article = {old, middle, new, undated}
  SearchDate <- SearchDates
  PageDate <- PageDates
  Cycle = {first, second}
  NoUrl = ""
  Lists <- ResultLists
  Queries <- QueryLists
  Known <- KnownUrls
  Times <- CycleTimes
  MaxAges <- Ages
  TopKs = {0, 1, 2}
  MinNear = 2
  MaxQueries = 2
  Jitter = 15
  Intervals <- PollIntervals
  Remaining <- TimesLeft
  Bits = 6
  Domains <- ArticleDomains
  Tables <- SourceTables
  Signals <- SignalValues
INVARIANTS TypeOK LateOnlyInFlight QueriesDiffer SelectsTheClosest TiersReached
           StorageKeepsDistance ScoredBySource
CHECK_DEADLOCK FALSE
