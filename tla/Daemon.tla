------------------------------- MODULE Daemon -------------------------------
(***************************************************************************)
(* The life of an outpace process: what it reads, checks and changes on    *)
(* disk before it serves (config_from_env and build_runtime), what it      *)
(* starts and in which order, and how it shuts down (serve_http_until).    *)
(* The process is started again after it exits or crashes, with whatever   *)
(* environment the operator gives it, on the files the last one left.      *)
(*                                                                         *)
(* A setting is abstracted to whether it parses and passes its checks.     *)
(***************************************************************************)
EXTENDS Integers, Sequences, FiniteSets

CONSTANTS
  Environments,  \* what the operator may start a process with
  DefaultTracker,\* DEFAULT_BROADCAST_TRACKERS
  MaxTrackers,   \* tracker URLs kept of OUTPACE_TRACKERS
  Word,          \* one more than the largest integer of the target
  ObjectLimit,   \* largest object of the target, isize::MAX
  PoolCeiling,   \* MAX_CONFIGURED_MEMORY_BYTES
  MaxUpstreams, MaxConnect, MaxAdvance, MaxAhead, \* MAX_LIVE_RECOVERY_*
  VodLength,     \* bytes of the VOD that play writes
  MaxStarts,     \* bound: processes started
  MaxClients     \* bound: HTTP requests in progress

ASSUME DaemonAssumption == {MaxTrackers, Word, ObjectLimit, PoolCeiling, MaxUpstreams, MaxConnect, MaxAdvance, MaxAhead, VodLength, MaxStarts, MaxClients} \subseteq Nat

VARIABLES
  disk,    \* the data and the cache directory
  proc,    \* the process: step, environment, and what it holds
  starts,  \* processes started
  origin   \* what the operator had in the cache directory, and modes and ids used so far

daemonVars == <<disk, proc, starts, origin>>

Entries == {"mark", "lock", "streams", "foreign"}

-----------------------------------------------------------------------------
(* Configuration.                                                          *)

On(value, default) == IF value = "unset" THEN default ELSE value = "on"

\* normalize_private_env and the CLI's broadcast_config
Inbound(e) == CASE e.cmd = "broadcast" -> TRUE [] e.private -> FALSE [] OTHER -> On(e.inbound, TRUE)
Mapping(e) == ~e.private /\ On(e.mapping, FALSE)

\* Explicit public settings conflict with private peers, defaults do not.
PrivateConflict(e) ==
  e.private /\ (e.inbound = "on" \/ e.mapping = "on" \/ e.trackers # <<>>)

\* validate_private_config, with the bootstrap peers known by then: those of
\* the environment, or of the command line too
PrivateInvalid(e, peers) ==
  IF e.private THEN Inbound(e) \/ Mapping(e) \/ e.denied \in peers ELSE e.descriptors
AllPeers == {"environment", "argument"}

\* SupportSources::validate
SupportInvalid(e) == e.support /\ (e.private \/ ~On(e.inbound, TRUE))

\* safe_in_memory_pool_limit
PoolLimit == IF ObjectLimit \div 4 < PoolCeiling THEN ObjectLimit \div 4 ELSE PoolCeiling

\* checked_mul and checked_add: beyond the word there is no result.
Fits(n) == n < Word

\* Variant: the arithmetic wraps around.
HlsInvalidWrapping(h) ==
  LET segment == (h.packets * 188) % Word
      retained == (segment * (h.window + 1)) % Word
  IN \/ h.packets < 3 \/ h.window = 0 \/ h.duration = 0
     \/ h.startup > h.window \/ h.timeout < h.duration
     \/ segment > ObjectLimit \/ retained > PoolLimit

\* HlsConfig::validate
HlsInvalid(h) ==
  LET segment == h.packets * 188
  IN \/ h.packets < 3 \/ h.window = 0 \/ h.duration = 0
     \/ (IF h.startup > 1 THEN h.startup ELSE 1) > h.window \/ h.timeout < h.duration
     \/ ~Fits(segment) \/ segment > ObjectLimit
     \/ ~Fits(h.window + 1) \/ ~Fits(segment * (h.window + 1))
     \/ segment * (h.window + 1) > PoolLimit

\* StartupBufferConfig::validate
BufferInvalid(b) == (b.target > 0 /\ b.timeout = 0) \/ b.bytes < 188

\* LiveRecoveryOptions::validate
RecoveryInvalid(r) ==
  \/ 0 \in {r.request, r.stale, r.check, r.upstreams, r.connect, r.advance}
  \/ r.request >= r.stale \/ r.check > r.request
  \/ r.upstreams > MaxUpstreams \/ r.connect > MaxConnect
  \/ r.advance > MaxAdvance \/ r.ahead > MaxAhead \/ r.ahead < r.advance

\* validate_cache_budget
BudgetInvalid(e) == ~e.disk /\ e.storeBytes > PoolLimit

ValuesInvalid(e) == HlsInvalid(e.hls) \/ BufferInvalid(e.buffer) \/ RecoveryInvalid(e.recovery) \/ BudgetInvalid(e)

\* config_from_env
ConfigError(e) ==
  e.unparsed \/ PrivateConflict(e) \/ PrivateInvalid([e EXCEPT !.cmd = "serve"], {"environment"}) \/ SupportInvalid(e) \/ ValuesInvalid(e)

\* build_runtime's checks before any effect.  They repeat those of
\* config_from_env and add what only it looks at: the source map, broadcast
\* options, local descriptors and records (e.broken).
BuildError(e) ==
  SupportInvalid(e) \/ PrivateInvalid(e, AllPeers) \/ e.broken # {} \/ e.session = 0 \/ ValuesInvalid(e)

\* broadcast_trackers_from_env: entries without a scheme and over-long ones are
\* dropped, the rest cut to the limit; the default never comes back.
Usable(class) == class \in {"udp", "other"}
BroadcastTrackers(e) ==
  IF e.private THEN <<>>
  ELSE IF e.trackers = <<>> THEN <<DefaultTracker>>
  ELSE LET kept == SelectSeq(e.trackers, Usable)
       IN SubSeq(kept, 1, IF Len(kept) > MaxTrackers THEN MaxTrackers ELSE Len(kept))

\* The keys of an acestream:? query in the order they are looked for.
QueryTarget(keys) ==
  CASE "content_id" \in keys -> "cid"
    [] "infohash" \in keys -> "infohash"
    [] "url" \in keys -> "url"
    [] "magnet" \in keys -> "infohash"
    [] OTHER -> "refused"

\* What each form of id comes to, once it is well formed.
Wellformed(form) == CASE form = "acestream" -> "cid" [] form = "magnet" -> "infohash" [] form = "http" -> "url" [] OTHER -> form

\* PlaybackTarget::parse
Target(input) ==
  CASE ~input.good -> "refused"
    [] input.form = "query" -> QueryTarget(input.keys)
    [] input.form \in {"local", "acestream", "magnet", "http"} -> Wellformed(input.form)
    [] OTHER -> "refused"

-----------------------------------------------------------------------------
(* Starting.                                                               *)

Env == proc.env
Goes(step) == proc' = [proc EXCEPT !.step = step]
Exits(why) == proc' = [proc EXCEPT !.step = "exited", !.why = why, !.up = {}, !.clients = 0]
Keeps == UNCHANGED <<starts, origin>>

Off == [step |-> "off", env |-> CHOOSE e \in Environments : TRUE, why |-> "none", found |-> <<>>,
         up |-> {}, admits |-> FALSE, clients |-> 0, signalled |-> FALSE, trackers |-> <<>>, written |-> 0, result |-> "ok"]

StartProcess(e) ==
  /\ proc.step \in {"off", "exited"} /\ starts < MaxStarts
  /\ starts' = starts + 1
  /\ proc' = [Off EXCEPT !.step = "config", !.env = e, !.found = disk]
  /\ origin' = [origin EXCEPT !.disk = @ \/ e.disk]
  /\ UNCHANGED disk

\* An error before any effect.
Refuses == Exits("refused") /\ UNCHANGED disk

ReadsConfig ==
  /\ proc.step = "config"
  /\ IF ConfigError(Env) \/ (Env.cmd = "broadcast" /\ Env.private)
        \/ (Env.cmd = "play" /\ Target(Env.input) = "refused")
     THEN Refuses
     ELSE Goes(IF Env.cmd = "play" THEN "play" ELSE "build") /\ UNCHANGED disk
  /\ Keeps

\* Startup may wipe a cache that holds a regular sentinel file, or nothing.
Dedicated == ~disk.cache.dir \/ disk.cache.mark = "file" \/ disk.cache.has = {}

Validates ==
  /\ proc.step = "build"
  /\ IF BuildError(Env) THEN Refuses ELSE Goes("preflight") /\ UNCHANGED disk
  /\ Keeps

\* preflight_disk_cache_paths, then the probe of ffmpeg.
Preflights(ffmpeg) ==
  /\ proc.step = "preflight"
  /\ IF (Env.disk /\ (Env.around \/ ~Dedicated)) \/ ~ffmpeg
     THEN Refuses
     ELSE Goes("prepare") /\ UNCHANGED disk
  /\ Keeps

\* prepare_disk_cache_paths: both roots are made, then compared again.
Prepares ==
  /\ proc.step = "prepare"
  /\ disk' = IF Env.disk THEN [disk EXCEPT !.cache.dir = TRUE, !.data.dir = TRUE] ELSE disk
  /\ IF Env.disk /\ Env.around THEN Exits("failed") ELSE Goes("identity")
  /\ Keeps

\* load_or_create_identity: a seed of the right length is used, anything else
\* is truncated and written anew.
LoadsIdentity ==
  /\ proc.step = "identity" /\ disk.data.id > 0
  /\ Goes(IF Env.cmd = "play" THEN "provider" ELSE "wipe")
  /\ UNCHANGED disk /\ Keeps
TruncatesIdentity ==
  /\ proc.step = "identity" /\ disk.data.id <= 0
  /\ disk' = [disk EXCEPT !.data.dir = TRUE, !.data.id = -1]
  /\ Goes("seed") /\ Keeps
WritesIdentity ==
  /\ proc.step = "seed"
  /\ disk' = [disk EXCEPT !.data.id = starts]
  /\ Goes("identity") /\ Keeps

\* Variant: the sentinel is not asked for again.
ChecksNothing ==
  /\ proc.step = "wipe"
  /\ Goes(IF Env.disk THEN "wiping" ELSE "provider")
  /\ UNCHANGED disk /\ Keeps

\* Disk mode: the root is removed entry by entry, in the order of readdir;
\* where it contains the data directory that goes with it.
ChecksDedicated ==
  /\ proc.step = "wipe"
  /\ IF ~Env.disk THEN Goes("provider")
     ELSE IF ~Dedicated THEN Exits("failed")
     ELSE Goes("wiping")
  /\ UNCHANGED disk /\ Keeps

RemovesEntry(x) ==
  /\ proc.step = "wiping" /\ x \in disk.cache.has \cup (IF disk.cache.mark = "none" THEN {} ELSE {"mark"})
  /\ disk' = IF x = "mark" THEN [disk EXCEPT !.cache.mark = "none"]
             ELSE [disk EXCEPT !.cache.has = @ \ {x}, !.data.kept = @ /\ ~Env.around]
  /\ UNCHANGED <<proc, starts, origin>>
RemovalFails ==
  /\ proc.step = "wiping" /\ (disk.cache.has # {} \/ disk.cache.mark # "none")
  /\ Exits("failed") /\ UNCHANGED disk /\ Keeps
RemovesRoot ==
  /\ proc.step = "wiping" /\ disk.cache.has = {} /\ disk.cache.mark = "none"
  /\ disk' = [disk EXCEPT !.cache.dir = FALSE]
  /\ Goes("mkdir") /\ Keeps
MakesRoot ==
  /\ proc.step = "mkdir"
  /\ disk' = [disk EXCEPT !.cache.dir = TRUE]
  /\ Goes("mark") /\ Keeps
Marks ==
  /\ proc.step = "mark"
  /\ disk' = [disk EXCEPT !.cache.mark = "file"]
  /\ Goes("provider") /\ Keeps

\* AceProvider::with_cache: outside private mode the peer hints are opened in
\* the cache directory, in memory mode too.
OpensProvider ==
  /\ proc.step = "provider"
  /\ disk' = IF Env.private THEN disk ELSE [disk EXCEPT !.cache.dir = TRUE, !.cache.has = @ \cup {"lock"}]
  /\ proc' = [proc EXCEPT !.step = IF Env.cmd = "play" THEN "open" ELSE "reload",
                         !.up = {"manager", "broadcasts"}, !.admits = TRUE, !.trackers = BroadcastTrackers(Env)]
  /\ origin' = [origin EXCEPT !.ids = @ \cup {disk.data.id}]
  /\ UNCHANGED starts

-----------------------------------------------------------------------------
(* Serving.                                                                *)

Brings(step, what) == proc' = [proc EXCEPT !.step = step, !.up = @ \cup what]
Fails == proc' = [proc EXCEPT !.step = "cleanup", !.result = "failed"]

\* Persisted broadcasts, then the one the command line names.
Reloads(ok) ==
  /\ proc.step = "reload"
  /\ IF ok THEN Goes("bind_peer") ELSE Fails
  /\ UNCHANGED disk /\ Keeps

BindsPeer(ok) ==
  /\ proc.step = "bind_peer"
  /\ IF ~Inbound(Env) THEN Goes("bind_http")
     ELSE IF ok THEN Brings("bind_http", {"peer"} \cup (IF Mapping(Env) THEN {"mapping"} ELSE {}))
     ELSE Fails
  /\ UNCHANGED disk /\ Keeps
BindsHttp(ok) ==
  /\ proc.step = "bind_http"
  /\ IF ok THEN Brings("rtmp", {"http"}) ELSE Fails
  /\ UNCHANGED disk /\ Keeps

\* Only with support sources does the start wait for the RTMP listener.
StartsRtmp(ok) ==
  /\ proc.step = "rtmp"
  /\ IF ok \/ ~Env.support THEN Brings("sources", IF ok THEN {"rtmp"} ELSE {}) ELSE Fails
  /\ UNCHANGED disk /\ Keeps

\* Sources are attached and broadcasts announced, unless the signal comes first.
AttachesSources(ok) ==
  /\ proc.step = "sources"
  /\ IF proc.signalled THEN Goes("cleanup")
     ELSE IF ok THEN Goes("support") ELSE Fails
  /\ UNCHANGED disk /\ Keeps
SpawnsSupport(ok) ==
  /\ proc.step = "support"
  /\ IF ~Env.support THEN Goes("serving")
     ELSE IF ok THEN Brings("serving", {"support"}) ELSE Fails
  /\ UNCHANGED disk /\ Keeps

\* The API is served: requests come and go, and streams keep pieces on disk.
\* Requests are still taken while the signal's handler runs.
Connects ==
  /\ proc.step \in {"serving", "closing", "supports", "ingests"} /\ proc.clients < MaxClients
  /\ proc' = [proc EXCEPT !.clients = @ + 1]
  /\ disk' = IF Env.disk THEN [disk EXCEPT !.cache.has = @ \cup {"streams"}] ELSE disk
  /\ Keeps
Leaves ==
  /\ proc.clients > 0
  /\ proc' = [proc EXCEPT !.clients = @ - 1]
  /\ disk' = IF Env.disk /\ proc.clients = 1 THEN [disk EXCEPT !.cache.has = @ \ {"streams"}] ELSE disk
  /\ Keeps

\* The handler of the signal is installed when the start first waits for it.
Signal ==
  /\ proc.step \in {"sources", "support", "serving"} /\ ~proc.signalled
  /\ proc' = [proc EXCEPT !.signalled = TRUE]
  /\ UNCHANGED disk /\ Keeps

-----------------------------------------------------------------------------
(* Shutting down.                                                          *)

\* The graceful handler: admissions and RTMP first, then support, then the
\* broadcasts; only then does the server stop accepting and drain.
ClosesAdmissions ==
  /\ proc.step = "serving" /\ proc.signalled
  /\ proc' = [proc EXCEPT !.step = "supports", !.admits = FALSE, !.up = @ \ {"rtmp"}]
  /\ UNCHANGED disk /\ Keeps
StopsSupport ==
  /\ proc.step = "supports"
  /\ proc' = [proc EXCEPT !.step = "ingests", !.up = @ \ {"support"}]
  /\ UNCHANGED disk /\ Keeps
StopsBroadcasts ==
  /\ proc.step = "ingests"
  /\ proc' = [proc EXCEPT !.step = "draining", !.up = @ \ {"broadcasts"}]
  /\ UNCHANGED disk /\ Keeps
Drains ==
  /\ proc.step = "draining" /\ proc.clients = 0
  /\ Goes("cleanup") /\ UNCHANGED disk /\ Keeps

\* serve_http_inner ends on any path: listeners and the mapping handle go with
\* it, and serve_http_until joins support, the broadcasts and the manager.
CleansUp ==
  /\ proc.step = "cleanup"
  /\ proc' = [proc EXCEPT !.step = "managed", !.admits = FALSE, !.up = @ \cap {"manager"}, !.clients = 0]
  /\ UNCHANGED disk /\ Keeps
StopsManager(ok) ==
  /\ proc.step = "managed"
  /\ Exits(IF ok THEN proc.result ELSE "failed")
  /\ disk' = [disk EXCEPT !.cache.has = @ \ {"streams"}]
  /\ Keeps

-----------------------------------------------------------------------------
(* play.                                                                   *)

\* The command reads its configuration, checks private peers and descriptors,
\* and goes straight to the identity and the provider.
PlayStarts ==
  /\ proc.step = "play"
  /\ IF PrivateInvalid(Env, AllPeers) THEN Refuses ELSE Goes("identity") /\ UNCHANGED disk
  /\ Keeps
PlayOpens(ok) ==
  /\ proc.step = "open"
  /\ IF ok THEN Goes("writing") ELSE Exits("failed")
  /\ disk' = IF ok /\ Env.disk THEN [disk EXCEPT !.cache.has = @ \cup {"streams"}] ELSE disk
  /\ Keeps

\* write_vod_output: what comes is written unless it is too much.
VodCacheBytes(n) ==
  /\ proc.step = "writing"
  /\ IF proc.written + n > VodLength THEN Exits("failed")
     ELSE proc' = [proc EXCEPT !.written = @ + n]
  /\ UNCHANGED disk /\ Keeps
VodEnds ==
  /\ proc.step = "writing"
  /\ Exits(IF proc.written < VodLength THEN "failed" ELSE "ok")
  /\ disk' = [disk EXCEPT !.cache.has = @ \ {"streams"}]
  /\ Keeps

\* Someone else puts a file into an unmarked cache directory while a start that
\* has found it empty is under way.
Intrudes ==
  /\ proc.step \in {"prepare", "identity", "seed", "wipe"}
  /\ disk.cache.dir /\ disk.cache.mark = "none" /\ origin.has = {}
  /\ disk' = [disk EXCEPT !.cache.has = @ \cup {"foreign"}]
  /\ origin' = [origin EXCEPT !.has = {"foreign"}, !.marked = FALSE]
  /\ UNCHANGED <<proc, starts>>

\* SIGKILL, a power cut, or a signal before its handler is there.
Crashes ==
  /\ proc.step \notin {"off", "exited"}
  /\ Exits("crashed")
  /\ UNCHANGED disk /\ Keeps

-----------------------------------------------------------------------------
\* The operator's directories: the data directory with its records, and a
\* cache directory that may be missing, or hold files of someone else, with or
\* without a sentinel.
DaemonInit ==
  /\ \E dir \in BOOLEAN, mark \in {"none", "file", "link"}, has \in SUBSET {"foreign"} :
       /\ ~dir => mark = "none" /\ has = {}
       /\ mark = "link" => has = {"foreign"}
       /\ disk = [data |-> [dir |-> TRUE, id |-> 0, kept |-> TRUE],
                  cache |-> [dir |-> dir, mark |-> mark, has |-> has]]
       /\ origin = [marked |-> mark = "file", has |-> has, disk |-> FALSE, ids |-> {}]
  /\ proc = Off /\ starts = 0

StartupSteps ==
  \/ ReadsConfig \/ Validates \/ Prepares \/ LoadsIdentity \/ TruncatesIdentity \/ WritesIdentity
  \/ ChecksDedicated \/ RemovesRoot \/ MakesRoot \/ Marks \/ OpensProvider \/ RemovalFails \/ PlayStarts
  \/ \E ok \in BOOLEAN :
       Preflights(ok) \/ Reloads(ok) \/ BindsPeer(ok) \/ BindsHttp(ok) \/ StartsRtmp(ok)
       \/ AttachesSources(ok) \/ SpawnsSupport(ok) \/ PlayOpens(ok)
  \/ \E x \in Entries : RemovesEntry(x)
ShutdownSteps ==
  ClosesAdmissions \/ StopsSupport \/ StopsBroadcasts \/ Drains \/ CleansUp \/ \E ok \in BOOLEAN : StopsManager(ok)

DaemonNext ==
  \/ StartupSteps \/ ShutdownSteps
  \/ \E e \in Environments : StartProcess(e)
  \/ Connects \/ Leaves \/ Signal \/ Intrudes \/ Crashes \/ VodEnds
  \/ \E n \in 1..2 : VodCacheBytes(n)

DaemonSpec == DaemonInit /\ [][DaemonNext]_daemonVars

\* A running process takes its next step.
DaemonFairness == WF_daemonVars(StartupSteps) /\ WF_daemonVars(ShutdownSteps)

-----------------------------------------------------------------------------
\* What a start may cost the operator, whatever crashed before it and whatever
\* environment it is given.  Files of someone else are only ever deleted from a
\* cache directory the operator marked, and the data directory never; a start
\* that is refused changed nothing on disk; every process that got as far as a
\* provider had the same identity; a private daemon opens no listener, maps no
\* port and knows no tracker, and an override of the trackers never lets the
\* public one back in; the manager goes down last; the HLS window of a running
\* daemon keeps to a quarter of what the target can address, whatever numbers
\* it was asked for; and a VOD written without an error is complete.
DaemonIsSafe ==
  /\ origin.marked \/ origin.has \subseteq disk.cache.has
  /\ disk.data.kept
  /\ proc.why = "refused" => disk = proc.found
  /\ Cardinality(origin.ids) <= 1
  /\ Env.private => proc.up \cap {"peer", "mapping"} = {} /\ proc.trackers = <<>>
  /\ Env.trackers # <<>> => \A i \in DOMAIN proc.trackers : proc.trackers[i] # DefaultTracker
  /\ proc.up # {} => "manager" \in proc.up
  /\ proc.up # {} => Env.hls.packets * 188 * (Env.hls.window + 1) * 4 <= ObjectLimit
  /\ Env.cmd = "play" /\ proc.why = "ok" => proc.written = VodLength

\* What must come about again and again: a signal ends the process, provided that
\* its requests end (the manager is only shut down once the HTTP server has
\* drained).
SignalObeyed == proc.signalled /\ proc.clients = 0 => proc.step = "exited"

\* README.md: the cache directory is "Only used when `OUTPACE_CACHE_TYPE=disk`".
CacheDirIsForDisk == ~origin.disk => disk.cache.has \subseteq origin.has
=============================================================================
