---------------------------- MODULE OriginConfig ----------------------------
(***************************************************************************)
(* The configuration of an origin over the starts of a node: the profiles  *)
(* of its broadcasts (ace-engine/src/broadcast_options.rs) and the sources *)
(* they are pulled from (broadcast_pull.rs), read from two maps; the       *)
(* preflight before a start and the initialisation of each broadcast from  *)
(* its profile or from the record that an earlier start left, with the     *)
(* save that precedes its use (broadcast.rs and broadcast_persist.rs); and *)
(* the pauses between the attempts of a pull.  Broadcast models the        *)
(* producers, later reservations of the cursor and the steps of a save.    *)
(*                                                                         *)
(* Values are those of WireFormats, and so is the transport that a record  *)
(* holds.  A map is its entries as they are written, with the bytes of     *)
(* white space between them; every entry and every field counts one byte.  *)
(***************************************************************************)
EXTENDS WireFormats, TLC

CONSTANTS
  OriginNames,     \* names of broadcasts, as byte strings
  BadNames,        \* names that valid_broadcast_name refuses
  Environments,    \* what the operator may set: OUTPACE_BROADCAST_OPTIONS (options),
                   \* OUTPACE_BROADCAST_SOURCES (sources) and seed_store_bytes (bytes)
  MaxProfiles,     \* 64 and MAX_SOURCE_ENTRIES
  MaxMapBytes,     \* MAX_JSON_BYTES and MAX_SOURCE_MAP_BYTES
  LeastPiece,      \* PIECE_LENGTH, the default and the least of a profile
  GreatestPiece,   \* the greatest of a profile
  UsualBitrate,    \* DEFAULT_BROADCAST_BITRATE
  BitrateCeiling,  \* u64::MAX / 8
  SignatureLength, \* of the key that is generated
  SourceLimit,     \* 300: the greatest number of seconds between attempts
  WordBits,        \* 64
  CursorInterval,  \* CURSOR_PERSIST_INTERVAL: pieces that a start reserves
  CursorEnd,       \* u64::MAX
  OldNames,        \* names that may have a record of a release without reservations
  MaxBoots,        \* bound: starts of the node
  MaxFailures      \* bound: attempts of a pull in a row

ASSUME OriginAssumption ==
  /\ {MaxProfiles, MaxMapBytes, LeastPiece, GreatestPiece, UsualBitrate, BitrateCeiling,
      SignatureLength, SourceLimit, WordBits, CursorInterval, CursorEnd, MaxBoots, MaxFailures} \subseteq Nat \ {0}
  /\ OriginNames \intersect BadNames = {}

VARIABLES
  node,     \* down, reloading, refused or up
  boots,    \* starts so far
  config,   \* the profiles, the sources and the size of the stores of this start
  reload,   \* names of the records that reload_persisted still has to go through
  records,  \* BroadcastPersist: per name nothing, damaged, or a transport with key and cursor
  outcome,  \* per name: what its initialisation said in this start
  served,   \* per name: history, the record of the last broadcast that ran
  minted,   \* keys generated so far and used
  retry     \* a pull: failures in a row, and the pause before the next attempt

originVars == <<node, boots, config, reload, records, outcome, served, minted, retry>>

NoRecord == [state |-> "none"]
Damaged == [state |-> "damaged"]
Unset == -1   \* reserved_until of a record of an earlier release
NoConfig == [options |-> <<>>, sources |-> <<>>, bytes |-> 0]
Calm == [failures |-> 0, pause |-> 0, source |-> <<>>]

-----------------------------------------------------------------------------
(* Profiles.                                                               *)

\* valid_text: not empty, not too long, trimmed, no control characters (here below 0)
ValidText(s) == s # <<>> /\ Len(s) <= MaxText /\ s[1] # 0 /\ s[Len(s)] # 0 /\ \A i \in DOMAIN s : s[i] >= 0

PowersOfTwo == {2 ^ n : n \in 0 .. 20}
Qualities == {Text(<<1>>), Text(<<2>>)}   \* two of auto, SD and HD

\* What the visitors and BroadcastOptions::validate take for each key
OptionTaken(key, v) ==
  CASE key = "title" -> Is("text", v) /\ ValidText(v.text)
    [] key = "bitrate" -> Is("number", v) /\ v.number \in 1 .. BitrateCeiling
    [] key = "piece_length" -> Is("number", v) /\ v.number \in LeastPiece .. GreatestPiece /\ v.number \in PowersOfTwo
    [] key = "quality" -> v \in Qualities
    [] key = "categories" ->
         /\ Is("items", v) /\ Len(v.items) <= MaxCategories
         /\ \A i \in DOMAIN v.items : Is("text", v.items[i]) /\ ValidText(v.items[i].text)
         /\ \A i, j \in DOMAIN v.items : v.items[i] = v.items[j] => i = j
    [] OTHER -> FALSE

\* A map of names, or of keys, without repetition
Distinct(entries) == \A i, j \in DOMAIN entries : entries[i][1] = entries[j][1] => i = j
AsFunction(entries) ==
  [k \in {entries[i][1] : i \in DOMAIN entries} |-> entries[CHOOSE i \in DOMAIN entries : entries[i][1] = k][2]]

OptionsTaken(fields) == Distinct(fields) /\ \A i \in DOMAIN fields : OptionTaken(fields[i][1], fields[i][2])

\* The maps are refused while they are read, before a second entry replaces a first
NamesTaken(entries) ==
  Distinct(entries) /\ Len(entries) <= MaxProfiles /\ \A i \in DOMAIN entries : entries[i][1] \notin BadNames

\* The bytes of a map: as it is written, and as it is counted when it is typed
MapBytes(entries) == FoldSeq(LAMBDA e, n : n + 1 + Len(e[2]), 0, entries)
WrittenBytes(raw) == MapBytes(raw.entries) + raw.padding

\* parse_broadcast_options
ParseOptions(raw) ==
  IF WrittenBytes(raw) > MaxMapBytes \/ ~NamesTaken(raw.entries)
     \/ \E i \in DOMAIN raw.entries : ~OptionsTaken(raw.entries[i][2])
  THEN Refused("options")
  ELSE [why |-> "none", map |-> AsFunction([i \in DOMAIN raw.entries |->
                                              <<raw.entries[i][1], AsFunction(raw.entries[i][2])>>])]

\* resolve_fresh: what the profile leaves open
ResolveFresh(name, options) ==
  options @@ [title |-> Text(name), bitrate |-> Number(UsualBitrate), piece_length |-> Number(LeastPiece),
              quality |-> Text(<<1>>), categories |-> Items(<<Text(<<5>>)>>)]

\* matches_descriptor: only what the profile says has to agree
DescriptorKey(key) == IF key = "title" THEN "name" ELSE key
MatchesDescriptor(options, raw) == \A key \in DOMAIN options : Get(raw, DescriptorKey(key)) = options[key]

-----------------------------------------------------------------------------
(* Sources.                                                                *)

\* BroadcastSourceConfig with its defaults; a field that is not written is not counted
SourceDefaults == [connect |-> 5, read |-> 15, initial |-> 1, max |-> 30]
SourceOf(fields) == AsFunction(fields) @@ SourceDefaults

\* validate_source; a URL is one that the policy lets pass, or not
SourceValid(c) ==
  /\ c.connect \in 1 .. 60 /\ c.read \in 1 .. 300
  /\ c.initial \in 1 .. SourceLimit /\ c.max \in 1 .. SourceLimit /\ c.initial <= c.max
  /\ c.url = "good"

\* parse_source_configs: the fields of an entry come once, the url always
ParseSources(raw) ==
  IF WrittenBytes(raw) > MaxMapBytes \/ ~NamesTaken(raw.entries)
     \/ \E i \in DOMAIN raw.entries : LET fields == raw.entries[i][2] IN
          ~Distinct(fields) \/ "url" \notin DOMAIN AsFunction(fields)
          \/ ~(DOMAIN AsFunction(fields) \subseteq {"url", "connect", "read", "initial", "max"})
  THEN Refused("sources")
  ELSE [why |-> "none", map |-> AsFunction([i \in DOMAIN raw.entries |->
                                              <<raw.entries[i][1], SourceOf(raw.entries[i][2])>>])]

\* AdmissionSize and BoundedCount: the map with the defaults left out again
TypedBytes(map) ==
  FoldSet(LAMBDA name, n : n + 1 + Cardinality({k \in DOMAIN map[name] :
                                                  k = "url" \/ map[name][k] # SourceDefaults[k]}),
          0, DOMAIN map)

\* validate_source_map
SourcesValid(map) ==
  /\ Cardinality(DOMAIN map) <= MaxProfiles /\ TypedBytes(map) <= MaxMapBytes
  /\ \A name \in DOMAIN map : name \notin BadNames /\ SourceValid(map[name])

\* validate_broadcast_options
OptionsValid(map) ==
  /\ Cardinality(DOMAIN map) <= MaxProfiles
  /\ FoldSet(LAMBDA name, n : n + 1 + Cardinality(DOMAIN map[name]), 0, DOMAIN map) <= MaxMapBytes
  /\ \A name \in DOMAIN map : name \notin BadNames /\ \A key \in DOMAIN map[name] : OptionTaken(key, map[name][key])

-----------------------------------------------------------------------------
(* Records.                                                                *)

PubkeyOf(key) == Text(<<9, key>>)

\* build_descriptor
BuildDescriptor(name, resolved, key) ==
  Fields([k \in {DescriptorKey(x) : x \in DOMAIN resolved} |-> resolved[IF k = "name" THEN "title" ELSE k]]
           @@ [chunk_length |-> Number(BlockLength), authmethod |-> Text(<<7>>), pubkey |-> PubkeyOf(key),
               trackers |-> Items(<<>>), allow_public_trackers |-> Number(1), outpace_name |-> Text(name)])

\* BroadcastGeometry::from_transport
BroadcastGeometry(d) ==
  /\ d.chunk = BlockLength /\ d.piece \in 1 .. PieceCeiling /\ d.piece % d.chunk = 0
  /\ d.piece \div d.chunk <= ChunkCeiling /\ SignatureLength \in 1 .. d.piece - 1

\* PersistedBroadcast
Persisted(transport, key, next, reserved) ==
  [state |-> "kept", transport |-> transport, key |-> key, next |-> next, reserved |-> reserved]

\* Variant: a start goes on where the last save said.
StartAtNext(record) == record.next

\* Where the next start may begin: after everything that the last one may have used
StartOf(record) == IF record.reserved = Unset THEN record.next + CursorInterval ELSE record.reserved

\* validate_persisted: the profile is looked at last
ValidatePersisted(name, record, options) ==
  LET d == DecodeTransport(record.transport)
      raw == record.transport.value
  IN IF record.state = "damaged" THEN "state"
     ELSE IF \/ ~Good(d) \/ ~BroadcastGeometry(d) \/ name \in BadNames \/ Get(raw, "pubkey") # PubkeyOf(record.key)
             \/ ~d.live \/ Get(raw, "pieces") # Absent \/ ~Is("text", Get(raw, "name")) \/ d.bitrate <= 0
             \/ Get(raw, "authmethod") # Text(<<7>>) \/ Get(raw, "outpace_name") \notin {Absent, Text(name)}
             \/ ~Good(InfohashOfDescriptor(raw))
             \/ record.reserved # Unset /\ record.next > record.reserved
       THEN "state"
     ELSE IF StartOf(record) + CursorInterval > CursorEnd THEN "exhausted"
     ELSE IF ~MatchesDescriptor(options, raw) THEN "conflict"
     ELSE "none"

ProfileOf(options, name) == IF name \in DOMAIN options THEN options[name] ELSE <<>>
PieceOf(record) == DecodeTransport(record.transport).piece

\* Variant: records are not looked at.
PreflightProfilesOnly(options, sources, bytes) ==
  /\ bytes >= LeastPiece
  /\ \A name \in DOMAIN options : bytes >= ResolveFresh(name, options[name]).piece_length.number

\* preflight_broadcasts: a record that fails matters when it conflicts or is wanted
Preflight(options, sources, bytes) ==
  /\ bytes >= LeastPiece
  /\ \A name \in DOMAIN options : bytes >= ResolveFresh(name, options[name]).piece_length.number
  /\ \A name \in OriginNames : records[name] # NoRecord =>
       LET why == ValidatePersisted(name, records[name], ProfileOf(options, name)) IN
       IF why = "none" THEN bytes >= PieceOf(records[name])
       ELSE why # "conflict" /\ name \notin DOMAIN options \union DOMAIN sources

-----------------------------------------------------------------------------
(* The node.                                                               *)

\* A record of a release that knew no reservations
OldRecord(name) ==
  Persisted(EncodeTransport(BuildDescriptor(name, ResolveFresh(name, <<>>), 0)), 0, 0, Unset)

OriginInit ==
  /\ node = "down" /\ boots = 0 /\ config = NoConfig /\ reload = <<>> /\ minted = 0 /\ retry = Calm
  /\ records \in {[n \in OriginNames |-> IF n \in old THEN OldRecord(n) ELSE NoRecord] : old \in SUBSET OldNames}
  /\ outcome = [n \in OriginNames |-> "none"] /\ served = [n \in OriginNames |-> NoRecord]

\* load_all: the names that have a record, in their order
Listed == SetToSortSeq({n \in OriginNames : records[n] # NoRecord}, LAMBDA m, n : m[1] < n[1])

\* config_from_env, the checks of the runtime over the typed maps, and the preflight
Boot(env) ==
  /\ node = "down" /\ boots < MaxBoots /\ boots' = boots + 1
  /\ LET options == ParseOptions(env.options)
         sources == ParseSources(env.sources)
         taken == /\ Good(options) /\ Good(sources)
                  /\ SourcesValid(sources.map) /\ OptionsValid(options.map)
                  /\ Preflight(options.map, sources.map, env.bytes)
     IN /\ node' = IF ~taken THEN "refused" ELSE IF Listed = <<>> THEN "up" ELSE "reloading"
        /\ reload' = IF taken THEN Listed ELSE <<>>
        /\ config' = IF taken THEN [options |-> options.map, sources |-> sources.map, bytes |-> env.bytes] ELSE NoConfig
  /\ UNCHANGED <<records, outcome, served, minted, retry>>

\* The same, when load_all cannot read the directory
BootUnreadable ==
  /\ node = "down" /\ boots < MaxBoots /\ boots' = boots + 1 /\ node' = "refused"
  /\ UNCHANGED <<config, reload, records, outcome, served, minted, retry>>

\* initialize, up to the save: the record to write, or why there is none.  A key
\* that is generated for nothing is not counted.
FromRecord(name, record) ==
  LET why == ValidatePersisted(name, record, ProfileOf(config.options, name))
      start == StartOf(record)
  IN IF why # "none" THEN Refused(why)
     ELSE IF config.bytes < PieceOf(record) THEN Refused("capacity")
     ELSE [why |-> "none", record |-> Persisted(record.transport, record.key, start, start + CursorInterval)]
Generated(name, required, key) ==
  LET resolved == ResolveFresh(name, ProfileOf(config.options, name))
      descriptor == BuildDescriptor(name, resolved, key)
      transport == EncodeTransport(descriptor)
  IN IF required THEN Refused("state")
     ELSE IF config.bytes < resolved.piece_length.number THEN Refused("capacity")
     ELSE IF \/ ~Good(InfohashOfDescriptor(descriptor)) \/ ~Good(DecodeTransport(transport))
             \/ ~BroadcastGeometry(DecodeTransport(transport))
     THEN Refused("state")
     ELSE [why |-> "none", record |-> Persisted(transport, key, 0, CursorInterval)]

\* initialize, the save: nothing runs before it.  One that fails has left the old record,
\* or the new one when only the directory could not be synced.
Settled(name, made) ==
  IF made.why # "none"
  THEN outcome' = [outcome EXCEPT ![name] = made.why] /\ UNCHANGED <<records, served, minted>>
  ELSE /\ minted' = Max({minted, made.record.key})
       /\ \E how \in {"running", "persistence"}, written \in BOOLEAN :
            /\ how = "running" => written
            /\ outcome' = [outcome EXCEPT ![name] = how]
            /\ records' = IF written THEN [records EXCEPT ![name] = made.record] ELSE records
            /\ served' = IF how = "running" THEN [served EXCEPT ![name] = made.record] ELSE served

Initialize(name, required) ==
  Settled(name, IF records[name] = NoRecord THEN Generated(name, required, minted + 1)
                ELSE FromRecord(name, records[name]))

\* reload_persisted, after a record: what is not configured may be unusable; any other
\* failure ends the start
Fatal(name, why) ==
  /\ why # "running"
  /\ why \notin {"state", "exhausted"} \/ name \in DOMAIN config.options \union DOMAIN config.sources
GoesOn(fatal) ==
  /\ reload' = IF fatal THEN <<>> ELSE Tail(reload)
  /\ node' = IF fatal THEN "refused" ELSE IF Len(reload) = 1 THEN "up" ELSE "reloading"

\* prepare: for the next record of reload_persisted, which has to be there still, or in the
\* first call for a name.  What failed stays as it is in this start.
PrepareOrigin(name) ==
  /\ outcome[name] = "none"
  /\ \/ node = "reloading" /\ name = Head(reload)
     \/ node = "up"
  /\ Initialize(name, node = "reloading")
  /\ IF node = "reloading" THEN GoesOn(Fatal(name, outcome'[name])) ELSE UNCHANGED <<node, reload>>
  /\ UNCHANGED <<boots, config, retry>>

\* Someone damages a record while the node is down, or takes it away between the listing
\* and the reading of it
Harm(name) ==
  /\ records[name].state = "kept"
  /\ \/ node = "down" /\ records' = [records EXCEPT ![name] = Damaged]
     \/ name \in Range(reload) /\ records' = [records EXCEPT ![name] = NoRecord]
  /\ UNCHANGED <<node, boots, config, reload, outcome, served, minted, retry>>

\* The process ends, and everything but the disk with it
Halt ==
  /\ node # "down" /\ node' = "down"
  /\ config' = NoConfig /\ reload' = <<>> /\ outcome' = [n \in OriginNames |-> "none"] /\ retry' = Calm
  /\ UNCHANGED <<boots, records, served, minted>>

-----------------------------------------------------------------------------
(* The pauses of a pull.                                                   *)

WordMax == 2 ^ WordBits - 1
CheckedShift(n) == IF n < WordBits THEN 2 ^ n ELSE WordMax

\* retry_base: saturating
RetryBase(source, failures) == Min({Min({source.initial * CheckedShift(failures), WordMax}), source.max})

\* run_source: an attempt failed; one that was healthy for a while starts again.  The
\* delay is anything in the last tenth of the base.
AttemptFails(name, healthy) ==
  /\ node = "up" /\ outcome[name] = "running" /\ name \in DOMAIN config.sources
  /\ retry.failures < MaxFailures /\ retry.source \in {<<>>, name}
  /\ LET failures == IF healthy THEN 0 ELSE retry.failures
         base == RetryBase(config.sources[name], failures)
     IN \E delay \in base - base \div 10 .. base :
          retry' = [failures |-> failures + 1, pause |-> delay, source |-> name]
  /\ UNCHANGED <<node, boots, config, reload, records, outcome, served, minted>>

OriginNext ==
  \/ \E env \in Environments : Boot(env)
  \/ BootUnreadable
  \/ \E name \in OriginNames :
       PrepareOrigin(name) \/ Harm(name)
  \/ Halt
PullNext == \E name \in OriginNames, healthy \in BOOLEAN : AttemptFails(name, healthy)

-----------------------------------------------------------------------------
(* What holds.                                                             *)

\* broadcast.rs: after the preflight nothing conflicts with its profile or does not fit
\* into its store, whether its record is from an earlier start with other profiles or made
\* in this one.  A start that ended has gone through every record: what has a profile or
\* a source runs, unless it had no record and its first save failed; an unusable record
\* or one without piece numbers left stands only under a name that is not configured.
PreflightCovers ==
  \A name \in OriginNames :
    /\ outcome[name] \notin {"conflict", "capacity"}
    /\ node = "up" /\ outcome[name] \in {"state", "exhausted"} =>
         name \notin DOMAIN config.options \union DOMAIN config.sources
    /\ node = "up" /\ records[name] # NoRecord => outcome[name] # "none"
    /\ node = "up" /\ outcome[name] = "persistence" =>
         records[name] = NoRecord \/ (records[name].next = 0 /\ records[name] # served[name])

\* What runs is what its profile says, and every reader of its transport finds the
\* identity and the geometry that the origin serves.
PublishedAsConfigured ==
  \A name \in OriginNames : outcome[name] = "running" =>
    LET record == served[name]
        read == StreamInfo(record.transport)
    IN /\ MatchesDescriptor(ProfileOf(config.options, name), record.transport.value)
       /\ Good(read) /\ read.kind = "live" /\ read.protection = "public"
       /\ read.infohash = InfohashOfDescriptor(record.transport.value).infohash
       /\ config.bytes >= read.piece
       /\ \A other \in OriginNames : outcome[other] = "running" /\ other # name =>
            InfohashOfDescriptor(served[other].transport.value) # InfohashOfDescriptor(record.transport.value)

\* broadcast_pull.rs: "every admitted raw map remains valid after default filling", and
\* with its defaults left out again it is no longer than what was written.
AdmittedStaysValid ==
  \A env \in Environments :
    LET options == ParseOptions(env.options)
        sources == ParseSources(env.sources)
    IN /\ Good(sources) => TypedBytes(sources.map) <= WrittenBytes(env.sources)
       /\ Good(options) => OptionsValid(options.map)

\* retry_base and retry_delay: a pause is never shorter than nine tenths of the first
\* one, never longer than the greatest, and doubles until then, for any number of failures.
PausesAreBounded ==
  retry # Calm =>
    LET source == config.sources[retry.source] IN
    /\ retry.pause <= source.max
    /\ retry.pause >= source.initial - source.initial \div 10
    /\ retry.failures > 1 /\ retry.pause < source.max - source.max \div 10 =>
         10 * retry.pause >= 9 * 2 * source.initial

OriginIsSane == PreflightCovers /\ PublishedAsConfigured /\ AdmittedStaysValid /\ PausesAreBounded

\* broadcast.rs and broadcast_persist.rs: a name that ran before runs again only with the
\* same key and transport, and behind every piece number that the earlier run may have
\* signed, over starts that fail half way, failing saves and crashes; it runs under
\* another key only when someone took its record away.
IdentityIsKept ==
  [][\A name \in OriginNames :
       LET was == served[name]
           is == served'[name]
           onDisk == records[name]
       IN was # NoRecord /\ outcome[name] # "running" /\ outcome'[name] = "running" =>
            \/ onDisk = NoRecord \/ (onDisk.state = "kept" /\ onDisk.key # was.key)
            \/ is.key = was.key /\ is.transport = was.transport /\ is.next >= was.reserved]_originVars
=============================================================================
