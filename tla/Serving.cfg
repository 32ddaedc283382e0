\* A source pulled against a publisher over RTMP, a detach and a stop; two peers
\* of a seeder with one slot; a download of two pieces from two addresses.
SPECIFICATION UpSpec
CONSTANTS
  \* Broadcast
  ProducerKinds = {"rtmp", "pull"}
  Interval = 1
  MaxNumber = 1
  MaxIdentity = 1
  MaxAttempts = 2
  MaxCrash = 0
  MaxFaults = 1
  \* SeedServing
  ServedPeers = {p, q}
  MaxUnchoked = 0
  Period = 2
  LastPiece = 1
  \* VodDownload
  VodPeers = {a, b}
  VodEnd = 2
  VodWindow = 1
  VodAttempts = 1
  VodWorkers = 2
CHECK_DEADLOCK FALSE
INVARIANTS
  SourceIsFenced
  SharingIsSound
PROPERTIES
  EveryoneIsServed
