SPECIFICATION PartsSpec
CONSTANTS
  Items = {i1, i2}
  Users = {u1, u2}
  Requests = {r1, r2}
  MaxDate = 3
  Callers = {c1, c2}
  Lists <- MCLists
  Defaults <- MCDefaults
  Patches <- MCPatches
  Scalar = {"light", "dark"}
  DefaultScalar = "light"
  Unusable = {"?"}
  Operators = {o1, o2}
  SeedTopics = {"news", "linux"}
  SeedSources <- MCSeedSources
  Commands <- MCCommands
  MaxChanges = 2
  Kind <- MCKind
  Days = {1, 2}
  Feeds = {"bbc", "lwn"}
  Topics = {"news", "linux"}
  Profiles <- MCProfiles
  Filters <- MCFilters
  PageSize = 1
  Omitted = Omitted
  Lexeme <- MCLexeme
  Pasted <- MCPasted
  Capital <- MCCapital
  Address <- MCAddress
  Invalid = Invalid
  Links = {"feed", "moved", "cdn", "http", "literal"}
  FeedLinks = {"feed", "http"}
  Supported = {"feed", "moved", "cdn", "literal"}
  HostOf <- MCHostOf
  Addresses = {"10.0.0.1", "1.1.1.1", "2.2.2.2"}
  Public = {"1.1.1.1", "2.2.2.2"}
  MaxRedirects = 2
  Timeout = 3
  MinInterval = 1
  MaxBytes = 2
  Horizon = 4
  EntryLinks = {"u1", "u2"}
  NoLink = NoLink
  NoDate = NoDate
  EntryDates = {0, 1, 4}
  FetchedAt = 2
  OldestAllowed = 1
  Skew = 1
  MaxEntries = 2
  MaxElements = 3
  Piece <- MCPiece
  Descriptions <- MCDescriptions
  Ransomware = "R"
  Dues = {"D1", "D2"}
  SentenceWidth = 3
  MaxSummary = 14
  MaxDescription = 5
  NoDue = NoDue
  Probers = {p1, p2, p3}
  MaxProbes = 3
  Exporters = {e1, e2}
  Jobs <- MCJobs
  Documents = {"monday", "tuesday"}
  MaxReplaced = 2
  Screens = {"off", "all", "unread"}
  Pages = 3
  NoMore = NoMore
  MaxSteps = 7
INVARIANTS
  TypeOK
  RowsNameItems
  ListingsAreWhole
  MutesWhatWasMeant
  RequestsStayGuarded
  EntriesCostOnlyThemselves
  KevFactsSurvive
  AnswersAreFresh
  SnapshotsAreWhole
  ListIsOfOneListing
PROPERTIES
  DatesStay
  TimelyBookmarksStay
  PatchReplacesItsLists
  SeededExactlyOnce
  CommandsTouchOnlyTheirOwn
