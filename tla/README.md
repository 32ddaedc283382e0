# A TLA+ model of outpace

This directory specifies, model-checks and proves properties of outpace, a Rust
implementation of the Acestream live path. It models the code of `src/crates/`
as it is; docs and tests were read for intent only.

Contents

1. [The system](#1-the-system)
2. [The modules and the code](#2-the-modules-and-the-code)
3. [What the runs check](#3-what-the-runs-check)
4. [Bounds](#4-bounds)
5. [Fairness](#5-fairness)
6. [What is proved](#6-what-is-proved)
7. [Findings and notes](#7-findings-and-notes)
8. [What is not modelled](#8-what-is-not-modelled)
9. [Plan](#9-plan)

Parse with `tlasany M.tla`, check with `tlc -workers 2 -config X.cfg M`, prove
with `tlapm M.tla`. `PROJECT.json` maps every definition to the lines it models.

## 1. The system

outpace is one process. An HTTP request (or a support declaration, or the CLI)
asks the *stream manager* for a session of a `(network, id)` key; the manager
opens one source per key through a *provider*, and fans its bytes out to
viewers, HLS packagers and support pins. The Ace provider's source runs a *live
session* of `ace-swarm`, which finds peers, builds a pool of them, asks them for
pieces, reassembles, authenticates, publishes (stores for seeding) and outputs
them in order, and rebuilds the pool when it is lost.

| Component | State it keeps | Operations | Talks to |
|---|---|---|---|
| Session registry (`manager.rs`, `session.rs`, `admission.rs`, `start_failure.rs`) | maps of sessions and packagers, pending generations, start locks, admission counter, completions of retired workers | get_or_subscribe, acquire_support, get_or_start_hls, stop, release_support, reap, shutdown | provider (open), pump and HLS workers (cancel, completion watch), support |
| Support declarations and supervisor (`support.rs`, `support_control.rs`) | per declaration: intent (epoch, running), status, fault flag, one worker with a pin and a backoff | start, stop, status, shutdown | manager (acquire_declared_support, release_support), watch channels |
| Live pool session (`live_session/`, `scheduler.rs`, `ace-wire/reassembly.rs`) | reassembler, cursor, live edge, scheduler, timers, peer slots, publication operation, output state, startup evidence | follow_live, pool turns, peer messages, refill, activation, output, drain, resume | peer workers (bounded command queues), piece store, consumer channel |
| Peer admission (`activation.rs`, `reconnect.rs`, `warm_peers.rs`, `discovery.rs`) | candidates, leases, warm peers | refill, activate, retry | pool actor, peer sessions |
| Playback leases (`http/leases.rs`) | lease map with deadlines, cancel watches, one reaper task | issue, playback, revoke, reap | manager, HTTP bodies |
| VOD (`vod.rs`, `vod/coordinator.rs`, VOD cache of `manager.rs`) | piece cache, single-flight downloads, idle entries | read, cancel, evict | peers, store |
| Broadcast (`broadcast*.rs`) | registered broadcasts, publisher, pull state, persisted identity | create, ingest, pull, delete, reload | seeding, disk |
| Seeding (`seed.rs`, `store.rs`, `store/disk.rs`, `listen.rs`, `peer_policy.rs`) | retained window of pieces, connection and upload slots | put, get, accept, choke | leechers, live session |
| HLS packaging (`hls.rs`, `hls_audio*.rs`, `startup_buffer.rs`) | segment ring, media sequence, waiters, transcoder | push, playlist, segment | session, HTTP |
| Discovery (`dht.rs`, `discover.rs`, `resolver.rs`, `resolve.rs`, `portmap.rs`, `ace-tracker`) | routing and candidate tables, leases | find, announce, resolve, map | network |
| RTMP ingress (`rtmp.rs`, `rtmp_ts.rs`) | accepted streams, tombstones, muxers | publish, frame, unpublish, disconnect | broadcast registry |
| HTTP (`http.rs`, `http/`, `server_api.rs`) | requests in flight, tokens | play, segment, status, delete, control | manager, packagers, leases |
| Process (`runtime.rs`, `config.rs`, `main.rs`) | settings, owned directories, tasks | start, serve, shut down | everything |
| Wire formats, media filters, statistics (`ace-wire`, `ace-media`, `live_stats.rs`) | reassembler, chunkers, resync tails, gates, meters | push, take, sample | live session, HLS |

What is hard in it:

* *Interleaving and atomicity.* A start crosses four critical sections (generation,
  start lock, admission, finalization) and can be overtaken between any two of
  them by a stop, a reap, a release, a shutdown or the caller's disappearance.
* *Stale reads.* The supervisor's status, intent and fault flag are three reads;
  the pool's snapshot of queue slots is used after a worker may have closed.
* *Partial failure.* A source whose shutdown fails or panics keeps its slot; a
  cleanup that is not confirmed must never be reported as done.
* *Ordering and recovery.* Publication is asynchronous, the consumer may be slow,
  the cursor may skip, peers may be lost and pools rebuilt, and still pieces must
  leave in order, once, with every gap marked.
* *Liveness.* Waits on watch channels (lost wake-ups), joins of workers nobody
  cancels, and the pool's rule that nothing is requested while playback holds.

`PROJECT.json` lists the hazards at the line where each bites, with the
properties that would notice.

## 2. The modules and the code

### StreamManager (MCStreamManager, StreamManagerProofs)

A *call* is one request of a viewer (`subscribe`), an undeclared pin (`pin`), a
declared support owner (`support`), a native (`hls`) or a compatibility HLS
reader (`compat`). It moves through the steps of the owned initializer:
`begun` (generation registered), `locking` (start lock of the key), `opening`
(slot reserved, provider called), `final` (before the finalization mutex),
`dispose` (closing a source that may not be published), `returned` and `done`.
Each step between two awaits or two lock acquisitions is one action. A session
and its source are named by the call that opened the source, a packager by the
call that made it; numbers of subscribers and pins are sets of calls.

Workers: `PumpEnds`, `SourceCloses`, `SourceFails` and the two joins model the
pump with its cleanup coordinator; a completion is a watch channel that is true,
or dropped while false (`broken`). `StopBegin`/`StopReturns`, the `Reap`
actions, `ReleaseReturns` and `ShutBegin`/`ShutDone` retire sessions under the
finalization mutex and join outside it, as the code does. The provider's open and
a source's shutdown are external and may fail.

Consequences of the code worth knowing, which the model shows:
a stop that arrives during shutdown finds empty maps and answers *absent* without
waiting; a DELETE during the opening of a declared support leaves the declaration
in `error` ("cancelled") until it is started again.

### SupportService (SupportServiceProofs)

One worker per declaration. `seen` is the version of the intent its watch
receiver has consumed; since every change takes a new epoch, version and epoch
are one number. `start` is two actions: it checks the declaration and borrows the
status before it awaits the manager, and changes the intent after
(`StartRead`, `StartApply`);
`status()` is read piecewise into `view`. The manager is seen through the calls
the worker makes (`ManagerOpens`, `ManagerFails`, `SourceEnds`).
The runtime stops this service before the manager; the two are modelled apart.

### LivePool (MCLivePool, OrderedFeed, LivePoolProofs)

One session of `follow_live`. The pool actor is a task; `pc` says where in its
loop it stands and `ret` where `advance_pool_requests`, which several places call,
returns to.

| State | Code |
|---|---|
| `next, filled, complete, plain` | `PieceReassembler`: cursor, chunks, complete pieces, pieces unfit for publication |
| `needed, op` | pieces that need publication, the operation in progress |
| `ceiling, reserved, pending, disc` | output in progress, permit, segments cut but not sent, pending discontinuity |
| `head, floor, startup` | live edge, request floor shared with workers, uncorroborated start |
| `win, unchoked, inflight` | `ActivePeers` |
| `requested, at` | scheduler reservations, request timers |
| `wk, cmds` | peer workers and the fill of their queues; `closing` is a queue that closes between snapshot and send |
| `taken, gap, sent, bare` | history: what the consumer saw |

`Advance` is `advance_pool_requests`, with `Batches` the set of batches
`assign_with_queue_slots` can select (lowest piece first, most spare capacity
first, newest peer on a tie); `Retransmit`/`Release` are
`retransmit_stalled_requests`; `ChunkSkipped`, `ChunkRefused`, `ChunkTaken` are the
three outcomes of `on_piece`; `FinishOutput` is `finish_output_step`;
`DrainTurn`, `Drained`, `Reconnect` are `drain_retained` and the resume of a
session in a new pool. Every duration is a free choice at the place where the
code reads the clock. Worker steps happen while the actor waits: within a turn
the actor sees of a worker only the slots of its queue.
`OrderedFeed` is the abstract specification: what the consumer is promised,
without peers, pools or publication. `SessionIsFeed` is its specification under
the mapping of `LivePool` (the cursor, what was taken, sent and left out).
The corroboration-deadline check of `drain_retained` is not an action because it
cannot fire: `CorroborationFirst` shows that a drain with work is never
uncorroborated.

### A node's other parts

Components that share no state are instantiated side by side. In `MCServing`,
`MCNode`, `MCPlayback`, `MCNetwork` and `MCWire` a variable `part` (`side` in
`MCWire`), chosen initially, says which one a behaviour is about; the others stay as they began. The
instance is the disjoint union of the components' state spaces, not their product.

*MCServing: what a node gives and fetches.*

| Module | Code | State and actions |
|---|---|---|
| `Broadcast` (also in MCNetwork; `BroadcastProofs`) | `broadcast*.rs`, `http/broadcast*.rs` | one name: registry entry, the locks of its cursor and ingest, the record on disk and what a crash leaves of it, producers from claim to release, the pulled source and its detach, deletion with its job. A crash is possible between any two steps and a write may fail |
| `SeedServing` (`ServingProofs`) | `seed.rs`, `seed/protocol.rs` | the choker's interest list and turn; every operation changes the list under the lock and recomputes under the lock *again* (`recompute` holds the operations between the halves); one serve loop per connection follows its watch channel |
| `VodDownload` (`ServingProofs`) | `vod.rs`, `vod/coordinator.rs` | the coordinator's loop step by step (`vstep`), credits per piece, one worker per address, completions on their way, a consumer that may be slow or gone |

*MCNode: the node around the streams.*

| Module | Code | State and actions |
|---|---|---|
| `Discovery` | `discover.rs`, `dht.rs`, `resolver.rs`, `ace-tracker` | tracker announces and the DHT walk with its frontier, in-flight queries and budget; the shared resolver threads; datagrams late, lost, repeated or forged |
| `Resolution` | `ace_provider/`, `resolve.rs` | caches from id to descriptor, shared catalog attempts with generations and waiters, the failure cache, the opt-in fallback |
| `PortMap` | `portmap.rs`, `announce.rs`, reachability of `runtime.rs` | the mapper, the relay of the mapped port and the announcers; the gateway changes before and independently of its answer |
| `Daemon` | `config*.rs`, `runtime.rs`, `main.rs` | start-up checks in order, what they change on disk, tasks, shutdown, restarts on the files left behind |
| `AceLeases` (`LeaseProofs`) | `http/leases.rs`, `http/compat.rs` | the lease map, cancel channels, bodies and polls, the one reaper with its deadline and wake-up generation |
| `VodReads` | `http/vod.rs`, `ace_provider/vod.rs`, VOD cache of `manager.rs` | handles, ranges, the prefix in the store, the detached tee, trimming of both ends |

*MCPlayback: what a player gets.*

| Module | Code | State and actions |
|---|---|---|
| `StreamApi` | `http.rs`, `http/streams.rs`, `http/compat.rs`, `server_api.rs` | requests from parsing to answer, re-checks after a wait, feeding of a continuous client |
| `LiveHls` | `hls.rs`, `hls_audio.rs` | the packager, its window and generations, the worker in its three modes, a waiting client |
| `HlsAudio`, first part | `hls_audio/process.rs` | process slots, supervisor and pumps, stall clock, fence, reaping, preflight |
| `HlsAudio`, second part | `hls_audio.rs` | the constant-space validator against a reference parse of the whole stream |
| `LiveStats` | `live_stats.rs` | rate meter, sampler, overtaking samples |
| `StartupBuffer` | `startup_buffer.rs` | queue of the start, resets, timeout |
| `TsMedia` | `mpegts.rs` and its stages | resync, keyframe gate, audio selection |
| `OutputCredits` | `live_session/continuity.rs` | ranges of producers through resync and gate |

*MCNetwork: broadcast, seeding and peers on the way in.*

| Module | Code | State and actions |
|---|---|---|
| `RtmpIngest` (`PeerProofs`) | `rtmp.rs`, `rtmp_ts.rs` | callbacks of connections, producer claims, barrier, tombstones, deletion, continuity counters |
| `PieceFlow`, first part | `ace-wire`: chunkers, `live_auth.rs`, `reassembly.rs` | a stream cut, signed, delivered in any order or damaged, and put together again |
| `PieceFlow`, second part | `store.rs`, `store/disk.rs` | both backends, the actor's command queue, publications that outlive their callers |
| `SeedRegistry` (`PeerProofs`) | `listen.rs` | stores by key, leases, construction outside the lock, inbound caps |
| `PeerAdmission` (`PeerProofs`) | `live_session/` (candidates, rounds, refill, activation) | candidates and cooldowns, connect rounds, refill of a pool with room or, during the corroboration of a start, of a full one, activation and replacement. A connect task may panic: the round forgets its endpoint, the pool keeps it in `learned_pending` for its life (`leaked`) |
| `WarmPeers` (`PeerProofs`) | `warm_peers.rs` | the cache with its limits, its writer thread, and a write step by step: temporary file, sync, rename, sync of the directory. Any of them may fail. The process may crash anywhere, and the machine with it: `safe` is the file that a power loss leaves |
| `PeerSession` | `ace-peer/src/session.rs`, handshake, `ut_metadata` | both sides of a handshake over a stream cut anywhere, framing, metadata fetch |

*MCWire: what a node exchanges with others.*

| Module | Code | State and actions |
|---|---|---|
| `TrackerExchange` (`ExchangeProofs`) | `ace-tracker/src/client.rs`, `codec.rs`, `swarmtest/src/tracker.rs` | two announces over UDP, their sockets, the datagrams in flight (lost, repeated, late, meant for an earlier owner of the address), the tracker's connection ids, registrations and journal |
| `Upstreams`, first part (`ExchangeProofs`) | `worker_ownership.rs`, `pool/activation.rs`, the end of `PoolActor::run` | permits of the semaphore, the activation that holds or waits for one, registered, retired and aborted workers, over several pools |
| `Upstreams`, second part (`ExchangeProofs`) | `connect_diagnostics.rs`, `peer.rs` | the phases of an attempt with their clocks, the total timeout at any await, the summary of a cohort |
| `WireFormats`, first part | `bencode.rs`, `metainfo.rs` | documents of tokens; the permissive and the strict reader, the writer |
| `WireFormats`, second part | `metainfo.rs`, `transport.rs`, `disk_envelope.rs`, `infohash.rs`, `local_descriptors.rs` | transport and torrent files and departures from them, their identities, the operator's map |
| `PeerGossip` | `extended.rs`, `live.rs`, `peer_exchange.rs`, `identity.rs`, `seed/protocol.rs` | what two live peers tell each other: signed handshakes, windows and the head they offer, requests and the replies of the three kinds of server (every refusal, and the BitTorrent block, included), ranked gossip |
| `OriginConfig` | `broadcast_options.rs`, `broadcast_pull.rs`, start-up of `broadcast.rs` | the operator's maps over several starts, records on disk (of older releases too), the checks before any broadcast is touched, the initialisation one by one with the cursor it reserves and a save that may fail, the reload of other records, the backoff of a source |

## 3. What the runs check

| Run | Instance | Properties | What it shows |
|---|---|---|---|
| `stream_faults` | one key, an HLS request, a declared support, a stop, reaper, shutdown, drops, failures | `TypeOK StartIsSingle PackagerMatchesSession StopsAreTrue ShutdownHolds` | no race of start, stop, reap and shutdown publishes what was stopped, opens twice, leaves a stale packager, or reports a cleanup that did not happen |
| `stream_slots` | two keys, one slot, three calls, failing cleanups | `AdmissionExact DemandKeepsSession` | the counter is the number of sources that exist; nobody's session is reaped under him |
| `stream_live` | one key, fairness | `ManagerProgresses` | no initializer, stop or shutdown waits for ever; idle sessions go |
| `support` | one declaration, four epochs, failures, a panic, fairness | `TypeOK NothingIsLeft LossIsRemembered RetriesAreDelayed SupportProgresses` | "stopped" and "clean" are true when said; no start or stop is lost; no hot retry loop; an unconfirmed cleanup, however it is learned of, ends in an error and in no further source |
| `pool_peers` | two peers, one slot each, queues of one, two pools, fairness | `TypeOK RequestsAreTracked HoldEnds` | no piece is orphaned by timeouts, losses, closing queues or skips; limits hold; the rule "no requests while playback holds" cannot stop the stream |
| `pool_rebuild` | one upstream at a time, two pools, two chunks, all chunk kinds | `PublicationIsHeld GapsAreMarked CorroborationFirst OutputIsKept SessionIsFeed` | order, marks and retained media survive skips, replacement and rebuild; the session implements `OrderedFeed` |
| `pool_requests` | one peer, two slots; expected violation | `NeverDoubleRequests` | see section 7 |
| `serving` | MCServing, fairness | `SourceIsFenced SharingIsSound EveryoneIsServed` | one producer at a time and no admission past a detach; the choke follows the choker, a piece has one owner, nobody gives up early; stops settle, every peer gets its turn, a download ends unless its own consumer does not read |
| `node` | MCNode, fairness | `NodeIsSound LeasesAreSound NodeEnds` | each part keeps its promise at every moment (its own invariant, named in `MCNode`), leases are bounded and their end reaches the bodies, and everyone who waits is answered |
| `playback` | MCPlayback | `PlaybackIsSound AnswersAreHonest` | playlists are coherent, children contained, what reaches a player decodes, and answers are about what exists when they are given |
| `network` | MCNetwork | `BroadcastIsDurable TransportsAreOwned OneWriter NetworkIsSound PublishersAreFenced SeedingIsSound` | piece numbers and deletions survive crashes; a transport has one owner and a file one writer; what is put together is what was cut, stores account for what they hold, candidates are dialled by the policy, the file of known peers is whole after any crash and holds no more than its limits allow; replaced publishers are fenced; lessees of a stream share one store and leechers are counted once |
| `wire` | MCWire, fairness of the workers | `TrackerIsSound UpstreamsAreSound ExchangeIsSound IdentityIsKept SlotsProgress` | an announce that succeeds is its own, whatever datagrams arrive; permits are conserved and whoever waits for one gets it or its pool ends; an attempt is accounted for wherever it is cut off; both bencode readers agree, an identity binds its file, a reply is the piece that was asked for, a start that stops half way has told why, and a broadcast that ran before runs again only under its key and past the piece numbers it may have used |

A composed property is the conjunction of the parts' own (`SharingIsSound` is
`ChokeIsCurrent` of `SeedServing` and `DownloadIsSound` of `VodDownload`), so a
violation says in which part.

Every property of a passing run has a mutant: a definition of the model changed
the way a plausible bug would change the code, under which the run must fail.
The mutated forms stand next to the definitions, marked *Variant*. Most
composed properties have one for several of their parts, among them parts that have a
theorem of their own.

## 4. Bounds

* Calls and stops are one-shot; `MaxSessions`, `MaxEpoch` and `Events` choose
  what an instance may do. Two calls and a stop on one key are the smallest
  instance with a joiner, an opener and an overtaking stop; two keys and one slot
  the smallest with contention between keys.
* Four epochs allow start, stop, start and stop while an attempt of the first
  epoch is still in flight.
* `MaxPiece = 2` gives a piece behind, at and ahead of the cursor. Two windows,
  overlapping (`MCWindows`) or with an evicted piece between them
  (`MCFarWindows`), make a peer that lags, a catch-up and an evicted gap possible.
  `Prefetch = 0` in `pool_rebuild` makes every move of the edge a jump.
  `MaxSegments = 2` leaves a segment pending; `MaxPools = 2` gives one rebuild;
  queues of one command are full after one request.
* LivePool runs say `CHECK_DEADLOCK FALSE`: a session really may stop (its
  consumer is gone), and the bounds on pools and generations end behaviours.
* The instances of MCServing, MCNode, MCPlayback, MCNetwork and MCWire are the smallest in
  which a component's races can happen: two askers, readers, peers or
  connections; a capacity, queue or slot of one, so that the limit is met; a
  counter or horizon long enough for one expiry and one restart. Each `.cfg` is
  grouped by component. They say `CHECK_DEADLOCK FALSE` because clients, crashes
  and clocks are bounded, so every behaviour ends.
* `Period` in `SeedServing` stands for the tick modulo a common multiple of the
  lengths it is divided by, which leaves the rotation as it is.
* `PoolSize = 2` and three peers let a pool be full while a third endpoint is dialled,
  received and replaces one of the two; one panic is enough for a leak.
* `Ttl = 0` lets a row expire within `WarmEnd = 1`; `HostCap = 2`, `SourceCap = 1` and
  `RowCap = 3` are each met by the sightings of `MCSightings` or by the rows an earlier
  process left (`MCOldRows`).
* `MCEnvironments` are the good maps in every combination and each bad one beside good
  ones: a bad map stops a start before anything else is read. `CursorEnd = 3` is reached
  within three starts (`MaxBoots`), and one record (`MCOldNames`) is of the release
  without a reserved cursor. Retries of sources (`pull`) are looked at in the first start.
* `Foreign` in `Resolution` is a sound descriptor of a swarm outside `Hashes`.
* Byte counts are scaled: a piece is a few units long, a continuity counter
  counts modulo 2, a window holds two or three samples. The ratios that the code's
  comparisons depend on are kept.
* The theorems of section 6 hold for every value of these constants.

## 5. Fairness

* `StreamManager`: tasks are scheduled, tokio's mutexes are FIFO (strong fairness
  on the steps that take a start lock or the finalization mutex), a provider's
  open and a source's shutdown return or fail. Requests, drops, accesses and the
  natural end of a source are not promised.
* `SupportService`: the worker's task, the manager's initializer and the owner of
  the service run; operators, readers and the end of a source are not promised.
* `LivePool`: weak fairness of the actor's loop and of the drain; strong fairness
  of `PublicationDone` and `FinishOutput`: the store finishes what it was given
  and the consumer reads, and the code polls both in every turn, so a
  possibility that recurs is taken. Nothing is assumed of peers.
  `HoldEnds` allows the session to reach `connect` with the hold: with no pool
  left the hold moves into the next pool, which may never come.
* `MCServing` and `MCNode` ask the fairness of each component, guarded by `part`:
  tasks, jobs and tickers of the process are scheduled (weak fairness), every wait
  that has a deadline in the code reaches it, and a `select!` that polls its
  branches at random does not starve one for ever (strong fairness of
  `AdvanceLiveEdge`). Peers, gateways and operators promise nothing. Clients promise
  nothing either, with one exception. A download waits for its consumer without a
  deadline (`vod/coordinator.rs` sends into a bounded channel), so `EveryoneIsServed`
  allows it to wait as long as that channel is full. The exception is in `MCNode`: a
  body whose lease was revoked or has run out is polled again (`BodyMustEnd` with
  `BodyEnds`). hyper polls a body when there is room to write, so for a
  client that neither reads nor closes its connection `NodeEnds` does not say that its
  body ends. What `LeasesAreSound` says does not depend on this: a body without a lease
  was told or is past its deadline.
* `MCWire` asks fairness of the workers' part only: the runtime destroys a task that
  was aborted, the pool's loop polls the retired workers in every turn and its end
  awaits the rest, and a free permit goes to the activation that waits for it. A
  worker or a pool that was not told to stop may run for ever.
* `MCPlayback` and `MCNetwork` check safety only and assume none.

## 6. What is proved

TLAPS proves, for all values of the constants (the assumptions are the named
ASSUMEs of each module: finite sets of calls, limits that are naturals, a
`MaxAhead` of at least `MaxInFlight` as `LivePool` is configured):

* **StreamManagerProofs.** `RegistryInv` is the inductive core: the start lock is
  held exactly by the call past the queue (`LockInv`), where a call is decides
  what it can own (`SourceInv`), a generation stays registered until finalization
  (`PendingInv`, which also relates the reaper's snapshot to it), a key being
  opened has no session (`MapInv`), a packager belongs to the session in the map
  (`PackagerInv`). From it follow `FinalizationFindsSource`, `StartsAreSingle`,
  `PackagerFollowsSession` and `ShutdownFence`. `AdmissionCorrect` counts sources;
  `FenceInv` (a doomed call that could still publish is fenced or acts for a past
  epoch) gives `StopFenceHolds`; `StopInv` (a running source is published or a
  stop of its key finds its completion) gives `StopAnswersTruthfully`; `ShutInv`
  gives `ShutdownIsTruthful`. `DemandIsRespected` is the action property on reaping.
* **SupportServiceProofs.** `SupportInv`: what may be open at each place of the
  worker, when workers may leave, and that a status saying "stopped" for the
  current epoch is true, in the channel and in a reader's hands. It gives
  `StoppedMeansReleased` and `ShutdownMeansClean`. `LossInv` says where news of an
  unconfirmed cleanup may still be on its way and that otherwise the declaration is
  marked faulty; with it `LossesAreRemembered` proves the action property. `RetriesWait` proves that a retry waits out its backoff, from `WaitInv`:
  a worker that opens again has waited, or its intent has changed since it failed.
* **LivePoolProofs.** `LivePoolTypes`, which needs that a batch fits the queues
  (`BatchFits`, by looking at the greatest piece a peer was given). `SafeInv`
  strengthens the media invariants: the cursor is past what was played and not
  past what is complete (`Ahead`), and a jump since the last segment is marked,
  segments waiting only behind one that was sent (`Marked`). Almost every action
  is shown `Steady`, one relation that keeps `SafeInv`; only taking a chunk and
  playing a piece need arguments of their own. From it: `PublicationHeld`,
  `FloorBehind`, `Corroborated`, `GapsMarked`, and the action properties
  `PlaysInOrder`, `KeepsAccepted`. `RequestsInvariant` and `SlotsBounded`: every
  step but an assignment `Yields` slots and leaves owners and timers to what stays
  requested; an assignment asks only for unowned pieces within the spare slots.
  `RequestsTracked` gathers these for the property the run checks. `SessionFeeds`
  is the refinement: initial states of the session are initial states of
  `OrderedFeed`, and every step is a step of the feed or a stutter.
* **BroadcastProofs.** `BroadcastInvariant` is inductive as a conjunction: types;
  `Coordinated` (which lock each task holds, and that jobs, stops and detaches
  exclude each other where they must); `Owned` (who holds the producer's authority
  and that nobody else is past its admission); `Recorded` (the record on disk, or
  the one a crash would leave, is at or past the reservation in use); `Identified`
  (identities in use are minted and not deleted); `Numbered` (no number exposed is
  ahead of where a restart would resume). From it `BroadcastSurvives`, which is
  `BroadcastIsDurable`: no piece number is exposed twice under an identity and a
  deleted broadcast stays deleted, for any number of crashes and failing
  writes; and `ProducersExclude`, which is `SourceIsFenced`.
* **ServingProofs.** The choker: `ListInv` (interest is a list of members, each of
  them once) makes a joining connection one that is not chosen; whoever changed
  list or turn is in `recompute` until it has recomputed, so `ChokeIsCurrent` holds
  whenever nobody is. The facts about the list that `Withdrawn` leaves are a lemma
  on removing one place of a sequence. The download: `Agreed` (job and owner name
  each other), `Employed` (a verified piece on its way is still the job of the one
  worker that sent it), `Scheduled` (at the hand-out the crew is full or nobody is
  left to connect, which is what makes giving up final). `SharingHolds` is
  `SharingIsSound`, for every set of connections and addresses, window, crew and
  budget.
* **LeaseProofs.** `LeaseInv`: a lease leaves the map only with its cancel
  channel, so a request that opens or streams has its lease or was told
  (`OpenIsTold`); an HLS lease that enters while the reaper sleeps leaves a wake-up
  behind. The reaper's deadline is the least of a set of naturals, from the
  well-foundedness of `<`. `LeasesHold` is `LeasesAreSound`, for every set of
  tokens, capacity and lease life.
* **PeerProofs**, four components.
  *PeerAdmission*: `TransportInv` says where an endpoint may be (dialled,
  connected by a round, received by the pool, held for activation, active, or leaked by
  a connect task that panicked), that it is in at most one of these places, and that what
  the pool has reserved is what it dials, has received or has leaked. The limits count
  the leaked ones too. An aborted round leaves attempts behind, which is why a place
  is given up only when the attempt is over. `TransportsHold` is
  `TransportsAreOwned`, for every set of peers and every limit.
  *WarmPeers*: `WarmInv` relates the caches of a directory, the slot that the writer
  thread owns and the thread: a cache that is dropped keeps the slot until its
  thread has flushed, and only the thread that is active touches the file, in each of the
  steps of a write. `WritersHold` is `OneWriter`.
  *RtmpIngest*: `RtmpInv` says who owns a stream and who is its producer, that a frame
  past validation was accepted under the claim it started with, and that a severed claim
  is retired. `PublishersHold` is `PublishersAreFenced`, an invariant and an action property.
  *SeedRegistry*: `LeaseInv` (an entry that is leased is neither reaped nor replaced
  and keeps its store; the lease count is the number of lessees; the two keys of a
  broadcast name each other) and `ConnInv` (a connection that is served counts for
  one stream, to which the key it asked for stays bound). `SeedingHolds` is
  `SeedingIsSound`, for every set of sessions, broadcasts and connections.
* **ExchangeProofs**, three components.
  The permits: `SlotInv` says which activation, worker and task may hold a permit
  at which phase of a pool, that ids are never reused within one, and that free,
  held and retired permits add up to the capacity; the cardinalities are kept by one
  lemma per way a permit moves. The account of attempts: `TraceInv` says
  which phases have been left and since when the current one runs; the sum of the
  durations is spelt out over the four phases, so no induction is needed.
  `UpstreamsHold` is `UpstreamsAreSound`, of the two side by side.
  The tracker: `TrackerInv` gives for every datagram in flight the step of the
  announce it belongs to, though a late or repeated one may belong to an earlier announce
  from the same address; transaction ids are what tells them apart.
  `TrackerHolds` is `TrackerIsSound`.

Only model-checked:

* every liveness property (`ManagerProgresses`, `SupportProgresses`, `HoldEnds`,
  `EveryoneIsServed`, `NodeEnds`, `SlotsProgress`): fairness and `ENABLED` are out of the
  prover's reach;
* `NodeIsSound`, `PlaybackIsSound`, `AnswersAreHonest`, `NetworkIsSound`,
  `ExchangeIsSound` and `IdentityIsKept`. Most of their parts need induction over
  data, which is out of reach too: `StreamsAreContinuous` of `RtmpIngest` filters
  a sequence, `ReadIsSound` of `VodReads` sorts a set, `HlsAudio`, `TsMedia`,
  `PieceFlow` and `WireFormats` compare with a reference over whole sequences or
  documents, `StatsAgree` of `Upstreams` sums over a set, and `OriginConfig` and
  `PeerGossip` read values that are built recursively. The others are in the plan;
* `NeverDoubleRequests`, which does not hold.

## 7. Findings and notes

**Finding** (`pool_requests`). `scheduler.rs:6` says the scheduler "never
double-requests a piece". `on_complete` drops a completed piece from `requested`
and `assign` scans from the playback cursor without asking the reassembler, so a
piece that is complete *ahead* of the cursor is requested again once the hold is
over. Its chunks, if they arrive, end in the same `on_complete`. If the cursor
passes the piece by output first, its late chunks are behind the cursor and are
not looked at, and the slot in `in_flight` stays taken until a skip
(`prune_below`), the loss of the peer or the stale teardown.

The model also states formulas that the code does *not* keep. They are next to the
properties of their modules and no run checks them; each takes several steps of
several actors and none contradicts a property of section 3.

| Formula | Code | What happens |
|---|---|---|
| `LiveHls!RunHasTables` | `hls.rs` 543-546, `mpegts.rs` 363-389 | a forced emission expects a table prefix that an access point does not guarantee, and would panic |
| `Daemon!CacheDirIsForDisk` | `ace_provider.rs` 463-472 | the cache directory is used in memory mode too, against README.md 390-394 |
| `PortMap!AbandonedIsUnmapped` | `portmap.rs` 316-317 | a shutdown during discovery may leave a mapping at the gateway until its lease ends |
| `VodReads!NeverFetchedTwice` | `ace_provider/vod.rs` 43-44 | the range lock is per handle, so two handles of one file fetch a piece twice |
| `PieceFlow!FilledIsWritten` | `reassembly.rs` 51-57 | a chunk counts once per index, whatever part of its place it filled |
| `WireFormats!LiveIffNoPieces` | `transport.rs` 50, 205 | a transport whose `pieces` is empty, no byte string or no multiple of 20 bytes is decoded as live |
| `RtmpIngest!UnpublishIsReusable` | `rtmp.rs` 50-52 | a connection that ends a publication no deletion touched may be buried by another's publish meanwhile |

Other things the models made visible: an empty first peer discovery stays cached
for the life of a VOD handle; a detached tee does not own its admission
reservation; a live-statistics snapshot reads the clock before the lock;
the second stale-window check of `follow_live` cannot fire; a panic of a pool's connect
task keeps its address in `learned_pending` and one of the pool's connect slots with it
for the life of the pool; a crash leaves the temporary file of the warm peers behind and
nothing removes it; one stale row makes the warm-peer file
unreadable; the resolver queries the same address twice if it is known under two
distances; a late peer id after both grace periods fails the session; a live
signature does not cover the piece number, so the reassembler's place for a piece
rests on the message that carried it.

## 8. What is not modelled

* In the registry: provider panics, the test-only `get_or_start`, the limit of eight
  support registrations.
* In the supervisor: attempt numbers, byte and time counters, log text.
* In the pool: signatures (a piece is `good`, `odd` or `bad`), the alignment of
  transport packets (a piece yields 0 to `MaxSegments` segments; `OutputCredits` and
  `TsMedia` have it), the content of replies to leechers, and blocks shorter than their
  chunk (`reassembly.rs` 189-192): a chunk that arrives fills its place.
* In admission: the moments between the consumer's leaving and the end of the session,
  which are one step.
* In warm peers: which of a taken path, an unusable one and the limit on identities of a
  process leaves a cache in memory only; it is a free choice.
* In discovery: `discover_peers_from_sources`, `announce_seeder` and
  `dht_announce_peer`; the waiter limit of a resolution is not met with two askers.
* In statistics: position, coverage and recovery counters.
* Bytes on the wire, cryptography, JSON, headers and page rendering; logging. The
  components with status `partly` or `not_modelled` in `PROJECT.json` say what and why.
* Parts that share no state are not composed. Where they interact, one module has the
  other as a free choice: the manager sees a provider that opens or fails,
  `LivePool` receives the peers `PeerAdmission` chooses, `StreamApi` sees sessions and
  packagers come and go.

## 9. Plan

Built: the registry, the supervisor and the live session with their proofs; then
broadcast, seeding and download, leases, HLS and media, HTTP, discovery,
resolution, port mapping, the process, admission, warm peers, sessions, trackers, the
permits and accounts of upstream workers, and wire formats; the refinement of
`OrderedFeed`; proofs of broadcast, seeding, download, leases, admission, warm
peers, RTMP, the seed registry, worker permits, attempts and announces.

Left to prove, in this order:

1. `PortIsHonest` of `PortMap`: what is announced was mapped, whatever the gateway,
   the relay and the announcers do between two readings.
2. `MeterIsOrdered` and `IdleIsZero` of `LiveStats`; `BodiesDecode` of `StreamApi`.
3. `AdmissionIsSound` of `PeerAdmission`: counts of candidates against sets.
4. `IdentityIsKept` of `OriginConfig`; the maps it reads are built recursively, so
   the steps that keep a record have to be stated over an abstract verdict first.
