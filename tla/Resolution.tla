----------------------------- MODULE Resolution -----------------------------
(***************************************************************************)
(* From an identifier to an open source (AceProvider::open_classified,     *)
(* resolve_live_info_classified, resolve_vod_inner): the caches between an *)
(* id and a descriptor, the shared attempts of the signed catalog, the     *)
(* opt-in fallback to metadata peers, and the first peer discovery.        *)
(*                                                                         *)
(* A descriptor is reduced to the swarm it names, who supplied it and      *)
(* whether it is protected; its geometry follows from the swarm, its       *)
(* trackers from whoever supplied it.                                      *)
(***************************************************************************)
EXTENDS Integers, Sequences, FiniteSets, SequencesExt, FiniteSetsExt

CONSTANTS
  Askers,      \* requests of a run
  Asked,       \* what each of them may ask: pairs of an id <<kind, key>> and a purpose
  Hashes,      \* swarms
  OwnIds,      \* content ids and swarms this daemon broadcasts itself
  Aliases,     \* local descriptors of the configuration
  Hosts,       \* number of catalog hosts
  CacheTtl,    \* RESOLVE_CACHE_TTL
  FailureTtl,  \* INFOHASH_FAILURE_TTL
  MaxEntries,  \* MAX_ENTRIES of the catalog cache
  MaxPending,  \* MAX_PENDING
  MaxWaiters,  \* MAX_WAITERS
  IndexCap,    \* INFOHASH_INDEX_CAPACITY
  FailureCap,  \* INFOHASH_FAILURE_CAPACITY
  AskEnd       \* bound: last moment of a run

ASSUME ResolutionAssumption ==
  /\ IsFiniteSet(Askers) /\ {Hosts, MaxEntries, MaxPending, MaxWaiters, IndexCap, FailureCap} \subseteq Nat \ {0}
  /\ {CacheTtl, FailureTtl, AskEnd} \subseteq Nat
  /\ \A r \in Askers : \A q \in Asked[r] :
       /\ q[1][1] \in {"cid", "infohash", "url", "vod", "vodurl", "local"}
       /\ q[2] = "open" \/ (q[2] \in {"prepare", "inspect"} /\ q[1][1] \in {"cid", "infohash", "url"})

VARIABLES
  moment,     \* the clock
  mode,       \* private, bootstrap peers, fallback opted in: fixed for a run
  locals,     \* local descriptors admitted at startup: alias |-> live or vod
  entry,      \* catalog cache: content id |-> ready or pending entry
  outcomes,    \* per generation: what its fetch came to
  index,      \* InfohashIndex, oldest first
  peerCache,  \* peer_resolve_cache: id |-> descriptor and time
  failures,   \* recent failures of cold infohash lookups, oldest first
  ask,        \* per request: where it is
  runs,       \* requests whose discovery run has not been joined
  outside     \* services outside the configured peers that were contacted

resolutionVars == <<moment, mode, locals, entry, outcomes, index, peerCache, failures, ask, runs, outside>>
cacheVars == <<entry, outcomes, index, peerCache, failures>>

\* A result is a descriptor (why = "ok") or an error.
Infos(from) == [why : {"ok"}, hash : Hashes, from : {from}, protected : BOOLEAN]
Error(why) == [why |-> why, hash |-> "", from |-> "", protected |-> FALSE]
Nothing == Error("none")
Good(result) == result.why = "ok"
NotAsking == [pc |-> "idle", for |-> "open", id |-> <<"none", "">>, gen |-> 0, result |-> Nothing]

\* Which error a request ended with is its caller's concern.
Finish(r, result) == ask' = [ask EXCEPT ![r].pc = "done", ![r].result = IF Good(result) THEN result ELSE Nothing]
GoTo(r, pc) == ask' = [ask EXCEPT ![r].pc = pc]

-----------------------------------------------------------------------------
(* What the outside supplies.                                              *)

\* stream_info_from_transport: bytes decode to a descriptor, protected or not,
\* or the form, geometry or protection marks of the descriptor are refused.
Decoded(from) == Infos(from) \cup {Error("transport"), Error("badprotection")}
\* vod_info_from_transport: the same for one file with piece hashes.
DecodedVod(from) == Decoded(from)

Results(verdict, from) == IF verdict = "bytes" THEN Decoded(from) ELSE {Error(verdict)}

\* A catalog host: unreachable or late, or an answer whose HTTP framing,
\* signature, nonce and checksum are checked.
HostReplies == [up : BOOLEAN, framed : BOOLEAN, signed : BOOLEAN, nonce : BOOLEAN, checksum : BOOLEAN]
Authentic(reply) == reply.signed /\ reply.nonce /\ reply.checksum
Judged(reply) ==
  IF ~reply.up THEN "network"
  ELSE IF reply.framed /\ Authentic(reply) THEN "bytes"
  ELSE "rejected"

\* The first good host, or the last error.
CatalogTransport(verdicts) ==
  IF \E i \in 1 .. Hosts : verdicts[i] = "bytes" THEN "bytes" ELSE verdicts[Hosts]

CatalogResults ==
  UNION {Results(CatalogTransport(v), "catalog") : v \in [1 .. Hosts -> {Judged(reply) : reply \in HostReplies}]}

\* Errors that another source could not cure.
Final(result) == result.why \in {"transport", "badprotection"}

\* A metadata peer: the size it declares is bounded, and the blob is taken
\* only if its raw hash is the content id.
MetadataPeers == [connects : BOOLEAN, declares : BOOLEAN, fits : BOOLEAN, hashes : BOOLEAN]
Sized(peer) == peer.declares /\ peer.fits
Supplies(peer) == peer.connects /\ Sized(peer) /\ peer.hashes

\* Peers are tried in turn until one supplies a descriptor or one supplies bad
\* protection marks.
PeerResults ==
  {Error("nobody")} \cup UNION {Results("bytes", "peer") \ {Error("transport")} : peer \in {p \in MetadataPeers : Supplies(p)}}

\* A URL: its form, then every address of its host, then one fresh connection
\* to an address that was checked, then the head of the answer and its bounded
\* body.
Servers == [parses : BOOLEAN, safe : BOOLEAN, up : BOOLEAN, accepted : BOOLEAN, fits : BOOLEAN]
Permitted(server) == server.parses /\ server.safe
Collects(server) == IF server.fits THEN "bytes" ELSE "toolarge"
HeadAccepted(server) == IF server.accepted THEN Collects(server) ELSE "network"
Fetched(server) ==
  IF ~Permitted(server) THEN "blocked" ELSE IF server.up THEN HeadAccepted(server) ELSE "network"
UrlResults == UNION {Results(Fetched(server), "url") : server \in Servers}

-----------------------------------------------------------------------------
(* The caches.                                                             *)

Unexpired(e) == e.is = "pending" \/ moment - e.at < CacheTtl
Pending == {c \in DOMAIN entry : entry[c].is = "pending"}
PrunedCache == [c \in {d \in DOMAIN entry : Unexpired(entry[d])} |-> entry[c]]

\* make_room: the ready entry inserted first goes, a pending one never does.
Roomy(e) ==
  LET ready == {c \in DOMAIN e : e[c].is = "ready"}
      first == CHOOSE c \in ready : \A d \in ready : e[c].order <= e[d].order
  IN IF Cardinality(DOMAIN e) < MaxEntries THEN e
     ELSE [c \in DOMAIN e \ {first} |-> e[c]]
EntryFits(e) == Cardinality(DOMAIN e) < MaxEntries \/ \E c \in DOMAIN e : e[c].is = "ready"

NextOrder == 1 + Max({0} \cup {entry[c].order : c \in {d \in DOMAIN entry : entry[d].is = "ready"}})

Without2(f, k) == [x \in DOMAIN f \ {k} |-> f[x]]

\* InfohashIndex::put
Indexed(ix, info) ==
  LET rest == SelectSeq(ix, LAMBDA i : i.hash # info.hash)
  IN Append(IF Len(rest) >= IndexCap THEN Tail(rest) ELSE rest, info)

FromIndex(h) == {i \in ToSet(index) : i.hash = h}

\* remember_infohash_failure
Remembered(h) ==
  LET rest == SelectSeq(failures, LAMBDA f : f[1] # h /\ moment - f[2] < FailureTtl)
  IN Append(IF Len(rest) >= FailureCap THEN Tail(rest) ELSE rest, <<h, moment>>)

Cooling(h) == \E i \in 1 .. Len(failures) : failures[i][1] = h /\ moment - failures[i][2] < FailureTtl

InPeerCache(id) == id \in DOMAIN peerCache /\ moment - peerCache[id].at < CacheTtl

OwnInfo(id) == [hash |-> IF id[2] \in Hashes THEN id[2] ELSE CHOOSE h \in Hashes : TRUE, from |-> "own", protected |-> FALSE, why |-> "ok"]

-----------------------------------------------------------------------------
(* Content ids.                                                            *)

IsVod(r) == ask[r].id[1] \in {"vod", "vodurl"}

\* What a request with a good descriptor does: a protected one is an error
\* (but may be inspected), opening goes on to the first peers, a preparation
\* or a VOD is done.
Resolved(r, info) ==
  IF info.protected /\ ask[r].for # "inspect" THEN Finish(r, Error("protected"))
  ELSE ask' = [ask EXCEPT ![r].pc = IF ask[r].for = "open" /\ ~IsVod(r) THEN "discover" ELSE "done", ![r].result = info]

\* The catalog is out of the question in private mode.
AfterOwn(r) ==
  IF mode.private
  THEN IF mode.fallback THEN GoTo(r, "peers") ELSE Finish(r, Error("refused"))
  ELSE GoTo(r, IF IsVod(r) THEN "query" ELSE "attach")

\* resolve_content_id_prepared_with_catalog_classified up to the attempt: the
\* cache, own broadcasts, and what peers said before.
ContentIdBegins(r) ==
  LET id == ask[r].id
      cached == id[1] = "cid" /\ id[2] \in DOMAIN entry /\ entry[id[2]].is = "ready"
  IN /\ ask[r].pc = "begin" /\ id[1] \in {"cid", "vod"} /\ ask[r].for # "inspect"
     /\ entry' = IF cached /\ ~Unexpired(entry[id[2]]) THEN Without2(entry, id[2]) ELSE entry
     /\ IF cached /\ Unexpired(entry[id[2]]) /\ ~mode.private
        THEN /\ Resolved(r, entry[id[2]].info)
             /\ index' = IF entry[id[2]].info.protected THEN index ELSE Indexed(index, entry[id[2]].info)
        ELSE /\ index' = index
             /\ IF id \in OwnIds THEN Resolved(r, OwnInfo(id))
                ELSE IF id[1] = "cid" /\ mode.fallback /\ InPeerCache(id) THEN Resolved(r, peerCache[id].info)
                ELSE AfterOwn(r)
     /\ UNCHANGED <<moment, mode, locals, outcomes, peerCache, failures, runs, outside>>

Attached(c, g) == {r \in Askers : ask[r].pc = "waiting" /\ ask[r].gen = g /\ ask[r].id[2] = c}

\* resolve_with: a fresh entry answers, a pending attempt is joined, and
\* otherwise a new attempt is made if the limits allow it.
Attach(r) ==
  LET c == ask[r].id[2]
      g == Len(outcomes) + 1
  IN /\ ask[r].pc = "attach"
     /\ IF c \in DOMAIN entry /\ entry[c].is = "ready" /\ Unexpired(entry[c])
        THEN /\ Resolved(r, entry[c].info)
             /\ index' = IF entry[c].info.protected THEN index ELSE Indexed(index, entry[c].info)
             /\ UNCHANGED <<entry, outcomes, outside>>
        ELSE IF c \in Pending
        THEN /\ IF entry[c].waiters >= MaxWaiters
                THEN Finish(r, Error("capacity")) /\ UNCHANGED entry
                ELSE /\ entry' = [entry EXCEPT ![c].waiters = @ + 1]
                     /\ ask' = [ask EXCEPT ![r].pc = "waiting", ![r].gen = entry[c].gen]
             /\ UNCHANGED <<outcomes, index, outside>>
        ELSE /\ LET kept == PrunedCache
                IN IF Cardinality(Pending) >= MaxPending \/ ~EntryFits(kept)
                   THEN Finish(r, Error("capacity")) /\ entry' = kept /\ UNCHANGED <<outcomes, outside>>
                   ELSE /\ entry' = [d \in DOMAIN Roomy(kept) \cup {c} |->
                             IF d = c THEN [is |-> "pending", gen |-> g, waiters |-> 1] ELSE Roomy(kept)[d]]
                        /\ outcomes' = Append(outcomes, Nothing)
                        /\ ask' = [ask EXCEPT ![r].pc = "waiting", ![r].gen = g]
                        /\ outside' = outside \cup {"catalog"}
             /\ UNCHANGED index
     /\ UNCHANGED <<moment, mode, locals, peerCache, failures, runs>>

\* An attempt ends while somebody polls it, and publishes a good descriptor if
\* the entry is still its own.
AttemptEnds(c, g, result) ==
  /\ Attached(c, g) # {} /\ outcomes[g] = Nothing
  /\ outcomes' = [outcomes EXCEPT ![g] = result]
  /\ entry' = IF c \in Pending /\ entry[c].gen = g
              THEN IF ~Good(result) THEN Without2(entry, c)
                   ELSE [entry EXCEPT ![c] = [is |-> "ready", at |-> moment, info |-> result, order |-> NextOrder]]
              ELSE entry
  /\ UNCHANGED <<moment, mode, locals, index, peerCache, failures, ask, runs, outside>>

\* Variant: a guard gives back a place in whatever attempt is pending.
DetachedFromAny(r) ==
  LET c == ask[r].id[2]
  IN IF ask[r].pc # "waiting" \/ c \notin Pending THEN entry
     ELSE IF entry[c].waiters = 1 THEN Without2(entry, c)
     ELSE [entry EXCEPT ![c].waiters = @ - 1]

\* WaiterGuard::drop: the place is given back in the attempt it was taken in,
\* and the last caller takes a pending attempt away.
Detached(r) ==
  LET c == ask[r].id[2]
  IN IF ask[r].pc # "waiting" \/ c \notin Pending THEN entry
     ELSE IF entry[c].gen # ask[r].gen THEN entry
     ELSE IF entry[c].waiters = 1 THEN Without2(entry, c)
     ELSE [entry EXCEPT ![c].waiters = @ - 1]

\* The outcome reaches one caller, which drops its guard and goes on.
OutcomeTaken(r) ==
  /\ ask[r].pc = "waiting" /\ outcomes[ask[r].gen] # Nothing
  /\ entry' = Detached(r)
  /\ LET result == outcomes[ask[r].gen]
     IN IF Good(result)
        THEN Resolved(r, result) /\ index' = IF result.protected THEN index ELSE Indexed(index, result)
        ELSE /\ index' = index
             /\ IF Final(result) \/ ~mode.fallback THEN Finish(r, result) ELSE GoTo(r, "peers")
  /\ UNCHANGED <<moment, mode, locals, outcomes, peerCache, failures, runs, outside>>

\* Metadata peers are tried in turn: a descriptor whose raw hash is the id, a
\* protection error that ends the search, or nobody answers.
PeersAnswer(r, result) ==
  LET id == ask[r].id
  IN /\ ask[r].pc = "peers" /\ result \in PeerResults
     /\ IF Good(result) THEN Resolved(r, result) ELSE Finish(r, result)
     /\ peerCache' = IF Good(result) /\ id[1] = "cid" /\ ~result.protected
                     THEN [x \in DOMAIN peerCache \cup {id} |-> IF x = id THEN [info |-> result, at |-> moment] ELSE peerCache[x]]
                     ELSE peerCache
     /\ outside' = IF mode.private \/ mode.bootstrap THEN outside ELSE outside \cup {"trackers"}
     /\ UNCHANGED <<moment, mode, locals, entry, outcomes, index, failures, runs>>

\* resolve_server_api_selector: an inspection leaves no state, asks the catalog
\* itself and takes nothing from peers; a swarm needs no descriptor.
InspectBegins(r) ==
  LET kind == ask[r].id[1]
  IN /\ ask[r].pc = "begin" /\ ask[r].for = "inspect"
     /\ IF kind = "infohash" THEN Finish(r, Error("offline"))
        ELSE IF mode.private THEN Finish(r, Error("refused"))
        ELSE GoTo(r, IF kind = "cid" THEN "query" ELSE "fetch")
     /\ UNCHANGED <<moment, mode, locals, cacheVars, runs, outside>>

\* content_id_transport_with_catalog: VOD and inspection ask the catalog once
\* for each request.
CatalogQueried(r, result) ==
  /\ ask[r].pc = "query" /\ result \in CatalogResults \cup DecodedVod("catalog")
  /\ IF Good(result) THEN Resolved(r, result)
     ELSE IF Final(result) \/ ~mode.fallback \/ ask[r].for = "inspect" THEN Finish(r, result) ELSE GoTo(r, "peers")
  /\ outside' = outside \cup {"catalog"}
  /\ UNCHANGED <<moment, mode, locals, cacheVars, runs>>

-----------------------------------------------------------------------------
(* Swarms and URLs.                                                        *)

\* resolve_infohash_with_catalog_classified: own, indexed, refused, cooling, or
\* a catalog lookup.
InfohashBegins(r) ==
  LET id == ask[r].id
  IN /\ ask[r].pc = "begin" /\ id[1] = "infohash" /\ ask[r].for = "open"
     /\ IF id \in OwnIds THEN Resolved(r, OwnInfo(id))
        ELSE IF ~mode.private /\ FromIndex(id[2]) # {} THEN \E i \in FromIndex(id[2]) : Resolved(r, i)
        ELSE IF mode.private THEN Finish(r, Error("refused"))
        ELSE IF Cooling(id[2]) THEN Finish(r, Error("cooldown"))
        ELSE GoTo(r, "lookup")
     /\ UNCHANGED <<moment, mode, locals, cacheVars, runs, outside>>

\* The descriptor must name the swarm that was asked for; the catalog may
\* answer with a sound one of a swarm outside Hashes.
Foreign == [why |-> "ok", hash |-> "another", from |-> "catalog", protected |-> FALSE]
Binds(info, h) == info.hash = h

InfohashAnswers(r, result) ==
  LET h == ask[r].id[2]
      good == Good(result) /\ Binds(result, h)
  IN /\ ask[r].pc = "lookup" /\ result \in CatalogResults \cup {Foreign}
     /\ index' = IF good THEN Indexed(index, result) ELSE index
     /\ failures' = IF good \/ result.why = "badprotection" THEN failures ELSE Remembered(h)
     /\ IF good THEN Resolved(r, result) ELSE Finish(r, IF Good(result) THEN Error("mismatch") ELSE result)
     /\ outside' = outside \cup {"catalog"}
     /\ UNCHANGED <<moment, mode, locals, entry, outcomes, peerCache, runs>>

\* resolve_ace_selection for a swarm: check_openable refuses what is known to
\* be protected, and the lookup is left to the opening.
InfohashPrepared(r) ==
  LET id == ask[r].id
  IN /\ ask[r].pc = "begin" /\ id[1] = "infohash" /\ ask[r].for = "prepare"
     /\ Finish(r, Error(IF \E i \in FromIndex(id[2]) : i.protected THEN "protected" ELSE "deferred"))
     /\ UNCHANGED <<moment, mode, locals, cacheVars, runs, outside>>

\* A preparation always fetches, an opening uses what one has fetched.
UrlBegins(r) ==
  LET id == ask[r].id
  IN /\ ask[r].pc = "begin" /\ id[1] \in {"url", "vodurl"} /\ ask[r].for # "inspect"
     /\ IF mode.private THEN Finish(r, Error("refused"))
        ELSE IF id[1] = "url" /\ ask[r].for = "open" /\ InPeerCache(id) THEN Resolved(r, peerCache[id].info)
        ELSE GoTo(r, "fetch")
     /\ UNCHANGED <<moment, mode, locals, cacheVars, runs, outside>>

\* http_fetch::open and collect_transport: the address is checked, one fresh
\* connection, a bounded body, and then the same decoding.
UrlAnswers(r, result) ==
  LET id == ask[r].id
  IN /\ ask[r].pc = "fetch" /\ result \in UrlResults
     /\ IF Good(result) THEN Resolved(r, result) ELSE Finish(r, result)
     /\ outside' = IF result.why = "blocked" THEN outside ELSE outside \cup {"url"}
     /\ peerCache' = IF Good(result) /\ ~result.protected /\ ask[r].for = "prepare" /\ id[1] = "url"
                     THEN [x \in DOMAIN peerCache \cup {id} |-> IF x = id THEN [info |-> result, at |-> moment] ELSE peerCache[x]]
                     ELSE peerCache
     /\ UNCHANGED <<moment, mode, locals, entry, outcomes, index, failures, runs>>

\* read_descriptor, decode_descriptor: a file is the operator's own, does not
\* change while it is read, and decodes to something playable.
LocalFiles == [own : BOOLEAN, stable : BOOLEAN, decodes : BOOLEAN, protected : BOOLEAN, kind : {"live", "vod"}]
Admissible(file) == file.own /\ file.stable /\ file.decodes /\ ~file.protected

\* DescriptorPaths::load: one bad file and the daemon does not start.
LoadedLocals(files) == [a \in Aliases |-> files[a].kind]

\* An alias answers from memory, and only as what it is.
LocalBegins(r) ==
  LET alias == ask[r].id[2]
      info == [why |-> "ok", hash |-> CHOOSE h \in Hashes : TRUE, from |-> "local", protected |-> FALSE]
  IN /\ ask[r].pc = "begin" /\ ask[r].id[1] = "local" /\ ask[r].for # "inspect"
     /\ IF alias \in Aliases /\ locals[alias] = "live" THEN Resolved(r, info) ELSE Finish(r, Error("unknown"))
     /\ UNCHANGED <<moment, mode, locals, cacheVars, runs, outside>>

-----------------------------------------------------------------------------
(* The first peers (open_resolved).                                        *)

\* Configured peers need no discovery; otherwise one run, and after an empty
\* one a second, within one deadline.  A run that is not handed on is joined.
Discovers(r) ==
  /\ ask[r].pc = "discover"
  /\ IF mode.private \/ mode.bootstrap THEN GoTo(r, "done") /\ UNCHANGED <<runs, outside>>
     ELSE /\ GoTo(r, "first") /\ runs' = runs \cup {r} /\ outside' = outside \cup {"trackers"}
  /\ UNCHANGED <<moment, mode, locals, cacheVars>>

PeersFound(r) ==
  /\ ask[r].pc \in {"first", "second"}
  /\ GoTo(r, "done")
  /\ UNCHANGED <<moment, mode, locals, cacheVars, runs, outside>>

RunEndsEmpty(r) ==
  /\ ask[r].pc \in {"first", "second"}
  /\ runs' = runs \ {r}
  /\ IF ask[r].pc = "first" THEN GoTo(r, "gap") ELSE Finish(r, Error("nopeers"))
  /\ UNCHANGED <<moment, mode, locals, cacheVars, outside>>

SecondRun(r) ==
  /\ ask[r].pc = "gap"
  /\ GoTo(r, "second") /\ runs' = runs \cup {r}
  /\ UNCHANGED <<moment, mode, locals, cacheVars, outside>>

DiscoveryTimesOut(r) ==
  /\ ask[r].pc \in {"first", "gap", "second"}
  /\ Finish(r, Error("timeout")) /\ runs' = runs \ {r}
  /\ UNCHANGED <<moment, mode, locals, cacheVars, outside>>

-----------------------------------------------------------------------------
AsksFor(r, id, for) ==
  /\ ask[r].pc = "idle"
  /\ ask' = [ask EXCEPT ![r].pc = "begin", ![r].id = id, ![r].for = for]
  /\ UNCHANGED <<moment, mode, locals, cacheVars, runs, outside>>

\* A preparing caller may go away while it waits (prepare_live_content_id); an
\* opening belongs to the manager and is not dropped.
AskerLeaves(r) ==
  /\ ask[r].pc \in {"attach", "waiting", "peers"} /\ ask[r].for = "prepare"
  /\ entry' = Detached(r)
  /\ Finish(r, Error("left"))
  /\ UNCHANGED <<moment, mode, locals, outcomes, index, peerCache, failures, runs, outside>>

MomentPasses == moment < AskEnd /\ moment' = moment + 1 /\ UNCHANGED <<mode, locals, cacheVars, ask, runs, outside>>

ResolutionInit ==
  /\ moment = 0 /\ mode \in {m \in [private : BOOLEAN, bootstrap : BOOLEAN, fallback : BOOLEAN] : ~(m.private /\ m.bootstrap)}
  /\ \E files \in [Aliases -> {f \in LocalFiles : Admissible(f)}] : locals = LoadedLocals(files)
  /\ entry = [c \in {} |-> 0] /\ outcomes = <<>> /\ index = <<>> /\ failures = <<>>
  /\ peerCache = [i \in {} |-> 0]
  /\ ask = [r \in Askers |-> NotAsking] /\ runs = {} /\ outside = {}

ContentIds == {q[1][2] : q \in {x \in UNION {Asked[r] : r \in Askers} : x[1][1] = "cid"}}

AskerSteps(r) ==
  \/ ContentIdBegins(r) \/ Attach(r) \/ OutcomeTaken(r) \/ InfohashBegins(r) \/ UrlBegins(r)
  \/ InspectBegins(r) \/ InfohashPrepared(r) \/ LocalBegins(r)
  \/ Discovers(r) \/ PeersFound(r) \/ RunEndsEmpty(r) \/ SecondRun(r) \/ DiscoveryTimesOut(r)
  \/ \E result \in CatalogResults : CatalogQueried(r, result)
  \/ \E result \in CatalogResults \cup {Foreign} : InfohashAnswers(r, result)
  \/ \E result \in PeerResults : PeersAnswer(r, result)
  \/ \E result \in UrlResults : UrlAnswers(r, result)

ResolutionNext ==
  \/ MomentPasses
  \/ \E r \in Askers : AskerSteps(r) \/ AskerLeaves(r) \/ \E q \in Asked[r] : AsksFor(r, q[1], q[2])
  \/ \E c \in ContentIds, g \in 1 .. Len(outcomes), result \in CatalogResults : AttemptEnds(c, g, result)

ResolutionSpec == ResolutionInit /\ [][ResolutionNext]_resolutionVars

\* Every call to the outside has a deadline, and tasks run.
ResolutionFairness ==
  /\ \A r \in Askers : WF_resolutionVars(AskerSteps(r))
  /\ \A c \in ContentIds, g \in 1 .. Cardinality(Askers) :
       WF_resolutionVars(g <= Len(outcomes) /\ \E result \in CatalogResults : AttemptEnds(c, g, result))

-----------------------------------------------------------------------------
\* A swarm is opened with the catalog's or our own descriptor of that swarm,
\* whatever peers and URLs have supplied under other ids; nothing protected is
\* opened at all.
DescriptorsAreBound ==
  /\ \A i \in ToSet(index) : i.from = "catalog"
  /\ \A r \in Askers :
       Good(ask[r].result)
       => /\ ask[r].for # "inspect" => ~ask[r].result.protected
          /\ ask[r].id[1] = "infohash" => ask[r].result.hash = ask[r].id[2] /\ ask[r].result.from \in {"catalog", "own"}
          /\ ask[r].result.from = "peer" => mode.fallback

\* A pending attempt counts the callers that wait for it, so it neither leaks
\* nor disappears under them, and there is one for each content id.
AttemptsAreShared ==
  /\ \A c \in Pending : /\ entry[c].waiters = Cardinality(Attached(c, entry[c].gen))
                        /\ entry[c].waiters \in 1 .. MaxWaiters
  /\ \A r \in Askers : ask[r].pc = "waiting" =>
       \/ outcomes[ask[r].gen] # Nothing
       \/ ask[r].id[2] \in Pending /\ entry[ask[r].id[2]].gen = ask[r].gen
  /\ Cardinality(DOMAIN entry) <= MaxEntries /\ Cardinality(Pending) <= MaxPending

\* Private mode contacts nobody but the configured peers.
PrivateIsOffline == mode.private => outside = {}

\* A discovery run outlives its opening only in the hands of an open source.
RunsAreJoined == \A r \in runs : ask[r].pc \in {"first", "second"} \/ (ask[r].pc = "done" /\ Good(ask[r].result))

\* Resolution (AceProvider, CatalogResolutionCache, InfohashIndex).
ResolutionIsSound == DescriptorsAreBound /\ AttemptsAreShared /\ PrivateIsOffline /\ RunsAreJoined

\* What must come about again and again: every request is answered, also when the
\* caller that began the attempt it waits for has left.
AsksAnswered == \A r \in Askers : ask[r].pc \in {"idle", "done"}
=============================================================================
