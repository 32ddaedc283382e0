\* Discovery, resolution, port mapping, the process, leases and file reads, each
\* with the fairness its tasks have.  Every one of them comes to an end.
SPECIFICATION NodeSpec
CONSTANTS
  \* Discovery
  Trackers = {1}
  Boots <- MCBoots
  Contacts <- MCContacts
  Swarm = {"p", "q"}
  Threads = 1
  Queued = 2
  Parallel = 1
  BatchSize = 1
  FrontierCap = 2
  PeerTarget = 1
  PeerCap = 2
  InflightTtl = 1
  Budget = 1
  MaxQueries = 2
  \* Resolution
  Askers = {"r1", "r2"}
  Asked <- MCAsked
  Hashes = {"h"}
  OwnIds <- MCOwnIds
  Aliases = {"a"}
  Hosts = 2
  CacheTtl = 1
  FailureTtl = 1
  MaxEntries = 1
  MaxPending = 1
  MaxWaiters = 2
  IndexCap = 1
  FailureCap = 1
  AskEnd = 1
  \* PortMap
  Choice = "auto"
  Announcers = {a1}
  Lease = 1
  Interval = 1
  HintAfter = 1
  MaxSeen = 1
  LastHour = 1
  \* Daemon
  Environments <- MCEnvironments
  DefaultTracker = "public"
  MaxTrackers = 1
  VodLength = 2
  Word = 65536
  ObjectLimit = 32767
  PoolCeiling = 10000
  MaxUpstreams = 1
  MaxConnect = 1
  MaxAdvance = 1
  MaxAhead = 1
  MaxStarts = 3
  MaxClients = 1
  \* AceLeases
  DirectTokens = {d1}
  JsonTokens = {j1}
  HlsTokens = {h1}
  Capacity = 1
  Ttl = 1
  Horizon = 3
  \* VodReads
  VodReaders = {r1, r2}
  VodIds = {v}
  VodBytes = 4
  PieceBytes = 3
  BlockLimit = 1
  SegmentBytes = 2
  VodSlots = 2
  VodGrace = 1
  Wishes <- MCWishes
  MaxAsks = 1
  MaxHandles = 2
  VodTicks = 1
CHECK_DEADLOCK FALSE
INVARIANTS
  NodeIsSound
  LeasesAreSound
PROPERTIES
  NodeEnds
