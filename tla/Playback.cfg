\* The HTTP handlers, HLS packaging and its child process, meters and media filters.
\* Each of them comes to an end.
SPECIFICATION PlaySpec
CONSTANTS
  \* StreamApi
  Callers = {r1}
  Wanted <- MCWanted
  Lower <- MCLower
  Offers <- MCOffers
  Lessees = {t1}
  Networks = {"ace", "other"}
  MaxBorn = 2
  MaxSegs = 2
  Retained = 1
  FeedLen = 4
  ChannelCap = 1
  MaxAsked = 1
  \* LiveHls
  HlsModes = {"native", "checked", "child"}
  HlsWindow = 2
  HlsCeiling = 4
  HlsPrefix = 2
  HlsTarget = 1
  HlsStartup = 1
  RecoveryLimit = 2
  HlsSegments = 3
  HlsGenerations = 3
  \* HlsAudio: the child
  Kids = {"k1", "k2"}
  ChildSlots = 1
  Stall = 2
  StartupTicks = 1
  InputBudget = 2
  InputQueue = 1
  ProbeSteps = 1
  ProbeTicks = 1
  PreflightTicks = 1
  \* HlsAudio: the probe
  PesHeader = 2
  FrameHeader = 2
  FrameSizes = {3}
  FrameCount = 3
  PesSizes = {1, 3}
  Optionals = {0, 1}
  MaxCut = 2
  MaxFaults = 1
  \* LiveStats
  StatsWindow = 2
  StatsSamples = 3
  StatsEnd = 4
  StatsBytes = 3
  \* StartupBuffer
  UnitsPerPacket = 2
  BufferTarget = 2
  BufferMax = 5
  BufferTimeout = 2
  StreamLength = 8
  \* TsMedia
  PacketBytes = 3
  StreamBytes = 10
  ScanBudget = 3
  Versions = 4
  MaxPackets = 7
  \* OutputCredits
  PacketLen = 2
  TailMax = 4
  PieceLens = {2, 3, 5}
  MaxPieces = 3
CHECK_DEADLOCK FALSE
INVARIANTS
  PlaybackIsSound
PROPERTIES
  AnswersAreHonest
