\* Trackers, upstream workers and attempts, bencode, descriptors, gossip and the
\* configuration of an origin.  Documents and configurations end, and so do the bounded
\* exchanges, the pools of a session and the cohorts of attempts.
SPECIFICATION WireSpec
CHECK_DEADLOCK FALSE
CONSTANTS
  \* TrackerExchange
  Announces = {"c1", "c2"}
  Wanted <- MCWanted
  Seeds <- MCSeeds
  Sockets = {"s1", "s2", "s3"}
  IpOf <- MCIpOf
  SwarmHashes = {"h"}
  Ports = {1}
  BufferPeers = 1
  MaxJournal = 2
  \* Upstreams
  MaxActive = 2
  MaxParallel = 1
  SlotCeiling = 9
  MaxPeerId = 4
  MaxPools = 2
  Attempts = {a1, a2}
  LastMoment = 1
  \* WireFormats: bencode
  Ints = {1}
  Strings = {1, 2}
  InfoKey = 2
  MaxDepth = 2
  MaxValues = 5
  MaxTokens = 6
  \* WireFormats: descriptors
  OperatorFiles <- MCFiles
  AliasesUsed = {1, 2}
  BadAlias = 0
  BlockLength = 2
  PieceCeiling = 4
  ChunkCeiling = 2
  DigestLength = 2
  MaxMetaTrackers = 2
  GoodUrls <- Urls
  MaxText = 2
  MaxCategories = 1
  MaxDeclared = 2
  MaxOffered = 2
  \* PeerGossip
  Nodes = {"n1", "n2"}
  LastPiece = 2
  WindowLength = 2
  PieceChunks = 2
  MaxBtRequest = 3
  Requests <- MCRequests
  Records <- MCRecords
  MaxRecords = 2
  Unknown32 = 9
  \* OriginConfig
  OriginNames <- Names
  BadNames <- Nameless
  Environments <- MCEnvironments
  MaxProfiles = 2
  MaxMapBytes = 5
  LeastPiece = 2
  GreatestPiece = 4
  UsualBitrate = 1
  BitrateCeiling = 3
  SignatureLength = 1
  SourceLimit = 30
  WordBits = 4
  CursorInterval = 1
  CursorEnd = 3
  OldNames <- MCOldNames
  MaxBoots = 3
  MaxFailures = 6
INVARIANTS
  TrackerIsSound
  UpstreamsAreSound
  ExchangeIsSound
PROPERTIES
  IdentityIsKept
  SlotsProgress
