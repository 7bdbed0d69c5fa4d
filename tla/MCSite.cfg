SPECIFICATION SiteSpec
INVARIANTS SiteTypeOK ListsEverything OwnChangesShow OwnWriteShows NeverSkipsUnseen LineIsWhole ArrowsFindTheirCall ChartAgrees StockChartAgrees
PROPERTIES ImplementsSession ColoursAreStable TableStaysClosed PollersFinish
CONSTANTS
  v1 = v1
  v2 = v2
  aapl = aapl
  msft = msft
  tsla = tsla
  \* refresh button
  RbMaxJobs = 3
  \* channel page
  ChVideos = {1, 2}
  ChPageSize = 1
  ChMaxSize = 2
  ChInitRows <- MCChannelRows
  ChFilters = {"all", "skipped"}
  ChMaxPolls = 2
  ChMaxMoves = 2
  ChMaxCalls = 1
  \* inbox
  InVideos <- MCVideos
  InShort <- MCShort
  InGroups <- MCGroups
  InInitRows <- MCInboxRows
  InMaxMoves = 1
  InMaxCalls = 2
  \* pipeline page
  PvVideos = {v1}
  PvFilters <- MCDrawerFilters
  PvNoFilter <- MCNoFilter
  PvMaxMoves = 1
  \* video page
  VpMaxMoves = 1
  VpMaxPosts = 2
  \* dialogs
  DgTickers = {aapl, msft}
  DgMaxCalls = 2
  \* paged lists
  PgPageSize = 2
  PgItems = {1, 2, 3, 4}
  PgNarrow = {1, 2, 4}
  PgStart <- MCLists
  PgMaxSize = 3
  PgMaxMoves = 2
  \* track record
  TrDays = {1, 2, 3, 4, 5}
  TrInputs <- MCStocks
  NoTicker = NoTicker
  TcWorlds <- MCWorlds
  TcSlotCount = 2
  TcDefaultN = 1
  TcYear = 2
  TcMaxMoves = 1
  \* stock page
  SpRanges = {"3m", "1d"}
  SpIntraday = {"1d"}
  SpBars <- MCBars
  SpStances <- MCStances
  SpMentions <- MCMentions
  SpEarnings = {3, 7}
  SpMaxSnap = 1
  SpLinks <- MCLinks
CHECK_DEADLOCK FALSE
