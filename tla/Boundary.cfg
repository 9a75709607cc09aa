SPECIFICATION BoundarySpec
CONSTANTS
  \* AdminPull
  LastDay = 4
  MaxVersion = 2
  MaxBuckets = 1
  HistoryDays = 2
  Overlap = 2
  PageDays = 2
  PageCap = 6
  NoCursor = NoCursor
  \* RelayStream
  Request = {r1}
  MaxTokens = 1
  MaxLines = 3
  ChunkLines = 2
  Plain = Plain
  Null = Null
  Bad = Bad
  Cut = Cut
  NoEvent = NoEvent
  \* CodexLog
  Session = {s1}
  Snapshot = {p1, p2}
  CodexModel = {m1}
  ReportDays = 0
  Recent = 0
  LastDate = 1
  MaxLogLines = 2
  Total = {1, 2}
  Unknown = Unknown
  Partial = Partial
  NoEntry = NoEntry
  \* LegacyMigration
  MaxStarts = 3
  \* KimiLogin
  Code = {d1, d2}
  Caller = {a1, a2}
  NoCode = NoCode
  TimeToLive = 2
  MaxTime = 3
  \* AppServer
  MaxNoise = 2
  \* RelayPull
  Ident = {i1, i2}
  NoIdent = NoIdent
  Shape = {h1, h2}
  LastListed = 2
  MaxUses = 3
  \* DesktopSetup
  NewVersion = 2
  MaxEdits = 1
  MaxRuns = 3
  \* SnapshotView
  LastConn = 2
  w1 = w1
  w2 = w2
  Window = {w1, w2}
  ShownDays = 2
  Batch <- MCBatch
  MaxCommits = 3
INVARIANTS
  NoDaySkipped
  StreamedAsWhole
  CacheIsReplay
  ReportIsFresh
  OpensWithItsLog
  TokensReachTheirCall
  HearsItsServer
  CountsEachOnce
  CommandsConverge
  ShowsWhatIs
PROPERTIES
  PullIsFresh
CHECK_DEADLOCK FALSE
