\* A broadcast and its ingest, seeding, and peers on the way in.  Each of them comes
\* to an end.
SPECIFICATION NetSpec
CONSTANTS
  \* Broadcast: one producer over HTTP, a crash and a failing write
  ProducerKinds = {"put"}
  Interval = 1
  MaxNumber = 2
  MaxIdentity = 2
  MaxAttempts = 2
  MaxCrash = 1
  MaxFaults = 1
  \* RtmpIngest
  RtmpSessions = {"c1", "c2"}
  MaxClaims = 2
  MaxDeletes = 1
  MaxOut = 4
  CounterMod = 2
  \* PieceFlow: reassembly
  PieceLen = 4
  ChunkLen = 2
  SigLen = 1
  StreamLen = 7
  Reach = 2
  Keys = {TRUE, FALSE}
  MaxFaulty = 2
  MaxSkips = 1
  \* PieceFlow: the store
  StorePieces = {1, 2, 3}
  PieceChunks = 2
  StoreMax = 3
  Retention = 1
  MaxOpenPieces = 1
  StoreBudget = 3
  \* SeedRegistry
  Leechers <- MCLeechers
  Broadcasters <- MCBroadcasters
  Inbound = {x1, x2}
  MaxInbound = 2
  MaxPerStream = 1
  MaxLeases = 3
  \* PeerAdmission
  Peer = {"a", "b", "c"}
  Policies <- MCPolicies
  Hints = {"a", "b"}
  Findable = {"c"}
  Rumours <- MCRumours
  MaxCandidates = 2
  MaxSources = 1
  MaxParallel = 2
  PoolSize = 2
  Second = 1
  ConnectTicks = 1
  LastTick = 1
  MaxTurns = 1
  MaxPanics = 1
  MaxNews = 1
  \* WarmPeers
  Caches = {c1, c2}
  Sightings <- MCSightings
  OldRows <- MCOldRows
  Ttl = 0
  SwarmCap = 2
  RowCap = 3
  HostCap = 2
  SourceCap = 1
  WarmEnd = 1
  MaxRecords = 2
  MaxCrashes = 1
  \* PeerSession
  Roles = {"dial", "accept"}
  Protocols = {"ace", "bt"}
  Forms = {"full", "short", "deferred", "alien", "other"}
  Talks <- MCTalks
  Blocks = 2
CHECK_DEADLOCK FALSE
INVARIANTS
  BroadcastIsDurable
  TransportsAreOwned
  OneWriter
  NetworkIsSound
PROPERTIES
  PublishersAreFenced
  SeedingIsSound
