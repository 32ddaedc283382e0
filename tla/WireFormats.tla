---------------------------- MODULE WireFormats -----------------------------
(***************************************************************************)
(* What ace-wire reads from a file or a message, in two parts that share no*)
(* state: bencode, and the files that describe content.                    *)
(***************************************************************************)
EXTENDS Integers, Sequences, FiniteSets, FiniteSetsExt, SequencesExt

(***************************************************************************)
(* The two readers of bencode: the permissive one for peer messages and    *)
(* DHT replies (ace-wire/src/bencode.rs) and the strict one for exported   *)
(* torrent files (the Parser of metainfo.rs), whose identity is the hash   *)
(* of the encoded info value as it stands in the file.                     *)
(*                                                                         *)
(* A document is a sequence of tokens.  A number carries the form it was   *)
(* written in: plain, loose (a leading zero or a sign that parse::<i64>    *)
(* lets pass), or bad (no number, or out of range).  The length of a       *)
(* string may also be signed: "+3" is a usize to parse, but no digit       *)
(* starts it.  Byte strings are numbers here, ordered as their bytes.      *)
(***************************************************************************)

CONSTANTS
  Ints, Strings,  \* the integers and byte strings that occur
  InfoKey,        \* the byte string "info"
  MaxDepth,       \* MAX_DEPTH, of both readers
  MaxValues,      \* MAX_VALUES: values and keys of a torrent file
  MaxTokens       \* bound: tokens of a document

ASSUME BencodeAssumption ==
  /\ IsFiniteSet(Ints) /\ Ints \subseteq Int
  /\ IsFiniteSet(Strings) /\ Strings \subseteq Nat /\ InfoKey \in Strings
  /\ {MaxDepth, MaxValues, MaxTokens} \subseteq Nat

Token(kind, of, form) == [kind |-> kind, of |-> of, form |-> form]
Mark(kind) == Token(kind, 0, "plain")
Tokens ==
  {Token("int", n, form) : n \in Ints, form \in {"plain", "loose", "bad"}}
    \union {Token("string", s, form) : s \in Strings, form \in {"plain", "loose", "signed", "bad"}}
    \union {Mark(kind) : kind \in {"list", "dict", "end", "junk"}}

VARIABLE document

bencodeVars == <<document>>

\* The values, Bencode
IntValue(n) == [int |-> n]
Bytes(s) == [bytes |-> s]
ListValue(q) == [list |-> q]
DictValue(f) == [dict |-> f]
IsDict(v) == "dict" \in DOMAIN v

\* A reader's answer: a value and the position behind it, or why there is none.
\* `count' is the number of values and keys read, `span' the place of the info value.
None == [ok |-> FALSE, why |-> "invalid"]
Truncated == [ok |-> FALSE, why |-> "truncated"]
Read(v, at, count) == [ok |-> TRUE, value |-> v, at |-> at, count |-> count, span |-> <<>>]
Spots(d) == {"value", "items", "entries"} \X (1 .. Len(d) + 1) \X (0 .. MaxDepth + 1)

-----------------------------------------------------------------------------
(* The permissive reader.                                                  *)

\* parse_int and parse_bytes; a key is read without a look at its first byte
ParseInt(d, at) == IF d[at].form = "bad" THEN None ELSE Read(IntValue(d[at].of), at + 1, 1)
ParseBytes(d, at) ==
  IF d[at].kind # "string" \/ d[at].form = "bad" THEN None ELSE Read(Bytes(d[at].of), at + 1, 1)

\* Put under a key; BTreeMap::insert replaces what is there
Insert(f, k, v) == [x \in DOMAIN f \union {k} |-> IF x = k THEN v ELSE f[x]]

\* parse_value, and the loops of parse_list ("items") and parse_dict ("entries"),
\* which return what they find from the place they are asked about
ParseFrom(d) ==
  LET parse[spot \in Spots(d)] ==
    LET at == spot[2]
        depth == spot[3]
    IN IF at > Len(d) THEN Truncated
       ELSE CASE spot[1] = "value" ->
              ( CASE d[at].kind = "int" -> ParseInt(d, at)
                  [] d[at].kind \in {"list", "dict"} ->
                       IF depth >= MaxDepth THEN None
                       ELSE parse[<<IF d[at].kind = "list" THEN "items" ELSE "entries", at + 1, depth>>]
                  [] d[at].kind = "string" /\ d[at].form # "signed" -> ParseBytes(d, at)
                  [] OTHER -> None )
            [] spot[1] = "items" ->
              ( IF d[at].kind = "end" THEN Read(ListValue(<<>>), at + 1, 1)
                ELSE LET item == parse[<<"value", at, depth + 1>>]
                         rest == IF item.ok THEN parse[<<"items", item.at, depth>>] ELSE item
                     IN IF rest.ok THEN Read(ListValue(<<item.value>> \o rest.value.list), rest.at, 1)
                        ELSE rest )
            [] spot[1] = "entries" ->
              ( IF d[at].kind = "end" THEN Read(DictValue(<<>>), at + 1, 1)
                ELSE LET key == ParseBytes(d, at)
                         item == IF key.ok THEN parse[<<"value", key.at, depth + 1>>] ELSE key
                         rest == IF item.ok THEN parse[<<"entries", item.at, depth>>] ELSE item
                     IN \* a key that comes again later replaces this one
                        IF ~rest.ok THEN rest
                        ELSE IF key.value.bytes \in DOMAIN rest.value.dict
                          THEN Read(rest.value, rest.at, 1)
                          ELSE Read(DictValue(Insert(rest.value.dict, key.value.bytes, item.value)), rest.at, 1) )
  IN parse[<<"value", 1, 0>>]

\* Bencode::parse: exactly one value
Parse(d) ==
  LET r == ParseFrom(d) IN IF r.ok /\ r.at # Len(d) + 1 THEN None ELSE r

-----------------------------------------------------------------------------
(* The strict reader.  The budget of values is looked at as they are met;  *)
(* it is exceeded at some point exactly when the whole is over it.         *)

\* Variant: numbers are taken as the permissive reader takes them.
CanonicalEnough(token) == token.form # "bad"

\* decimal, and the refusal of "-0"
Canonical(token) == token.form = "plain"

StrictFrom(d) ==
  LET value[spot \in Spots(d)] ==
    LET at == spot[2]
        depth == spot[3]
    IN IF at > Len(d) THEN Truncated
       ELSE CASE spot[1] = "value" ->
              ( CASE d[at].kind = "int" -> IF Canonical(d[at]) THEN Read(IntValue(d[at].of), at + 1, 1) ELSE None
                  [] d[at].kind = "string" -> IF Canonical(d[at]) THEN Read(Bytes(d[at].of), at + 1, 1) ELSE None
                  [] d[at].kind \in {"list", "dict"} ->
                       IF depth >= MaxDepth THEN None
                       ELSE value[<<IF d[at].kind = "list" THEN "items" ELSE "entries", at + 1, depth>>]
                  [] OTHER -> None )
            [] spot[1] = "items" ->
              ( IF d[at].kind = "end" THEN Read(ListValue(<<>>), at + 1, 1)
                ELSE LET item == value[<<"value", at, depth + 1>>]
                         rest == IF item.ok THEN value[<<"items", item.at, depth>>] ELSE item
                     IN IF rest.ok THEN Read(ListValue(<<item.value>> \o rest.value.list), rest.at,
                                             item.count + rest.count)
                        ELSE rest )
            [] spot[1] = "entries" ->
              ( IF d[at].kind = "end" THEN Read(DictValue(<<>>), at + 1, 1)
                ELSE LET key == IF d[at].kind = "string" THEN value[<<"value", at, depth + 1>>] ELSE None
                         item == IF key.ok THEN value[<<"value", key.at, depth + 1>>] ELSE key
                         rest == IF item.ok THEN value[<<"entries", item.at, depth>>] ELSE item
                     IN IF ~rest.ok THEN rest
                        ELSE IF key.value.bytes \in DOMAIN rest.value.dict THEN None
                        ELSE [Read(DictValue(Insert(rest.value.dict, key.value.bytes, item.value)), rest.at,
                                   key.count + item.count + rest.count)
                                EXCEPT !.span = IF depth = 0 /\ key.value.bytes = InfoKey
                                                THEN <<key.at, item.at - 1>> ELSE rest.span] )
  IN value[<<"value", 1, 0>>]

\* decode_metainfo, as far as the parser goes
ParseStrict(d) ==
  LET r == StrictFrom(d) IN IF r.ok /\ (r.at # Len(d) + 1 \/ r.count > MaxValues) THEN None ELSE r

-----------------------------------------------------------------------------
(* The writer.                                                             *)

\* Bencode::encode_into, one level: a token stays, a value becomes its tokens with
\* the values inside it; numbers are plain and the keys of a dictionary in order
EncodeOne(x) ==
  CASE "kind" \in DOMAIN x -> <<x>>
    [] "int" \in DOMAIN x -> <<Token("int", x.int, "plain")>>
    [] "bytes" \in DOMAIN x -> <<Token("string", x.bytes, "plain")>>
    [] "list" \in DOMAIN x -> <<Mark("list")>> \o x.list \o <<Mark("end")>>
    [] "dict" \in DOMAIN x ->
         LET keys == SetToSortSeq(DOMAIN x.dict, <)
         IN <<Mark("dict")>>
              \o FlattenSeq([i \in 1 .. Len(keys) |-> <<Token("string", keys[i], "plain"), x.dict[keys[i]]>>])
              \o <<Mark("end")>>

\* Bencode::encode: level after level, as deep as a value can be
Encode(v) ==
  LET level[n \in 0 .. MaxDepth + 1] ==
        IF n = 0 THEN <<v>>
        ELSE LET outer == level[n - 1] IN FlattenSeq([i \in 1 .. Len(outer) |-> EncodeOne(outer[i])])
  IN level[MaxDepth + 1]

BencodeInit == document = <<>>

\* Bytes arrive as long as one of the readers wants more, and one token beyond
BencodeNext ==
  /\ Len(document) < MaxTokens
  /\ \E reader \in {ParseFrom(document), StrictFrom(document)} :
       IF reader.ok THEN reader.at = Len(document) + 1 ELSE reader.why = "truncated"
  /\ \E token \in Tokens : document' = Append(document, token)
-----------------------------------------------------------------------------
(* What holds.                                                             *)

\* metainfo.rs: "Identity covers the original encoded info value, never a
\* reserialized dictionary."  Whatever the strict reader accepts, the permissive
\* one reads as the same value; and the tokens that are hashed, read by themselves,
\* are the info dictionary of the result, exactly when there is one.
ReadersAgree ==
  LET strict == ParseStrict(document)
      info == IsDict(strict.value) /\ InfoKey \in DOMAIN strict.value.dict
  IN strict.ok =>
       /\ Parse(document).ok /\ Parse(document).value = strict.value
       /\ (strict.span # <<>>) = info
       /\ info => LET alone == Parse(SubSeq(document, strict.span[1], strict.span[2]))
                  IN alone.ok /\ alone.value = strict.value.dict[InfoKey]

\* What was read can be written and read again: by both readers, in spite of the
\* forms and the repeated keys that the permissive one let pass.  Only a strict
\* reading keeps the length: nothing of the file was dropped.
WritingIsRead ==
  LET read == Parse(document)
      again == Encode(read.value)
  IN read.ok =>
       /\ Parse(again).ok /\ Parse(again).value = read.value
       /\ StrictFrom(again).ok /\ StrictFrom(again).value = read.value
       /\ ParseStrict(document).ok => Len(again) = Len(document)

BencodeIsSound == ReadersAgree /\ WritingIsRead

-----------------------------------------------------------------------------
(***************************************************************************)
(* The files that describe content, and what the node makes of them: bare  *)
(* torrent files (ace-wire/src/metainfo.rs), the same in the envelope the  *)
(* original engine keeps on disk (disk_envelope.rs), and AceStreamTransport *)
(* files (transport.rs) with their identities (infohash.rs); the three     *)
(* ways into them in resolve.rs; and the operator's map of local files     *)
(* (ace-engine/src/local_descriptors.rs).                                  *)
(*                                                                         *)
(* A file is its outer form, what is wrong with its framing, and the value *)
(* inside; how bytes become a value is said above.  Byte strings are       *)
(* sequences of small numbers, 0 being white space.  A hash is what was    *)
(* hashed: SHA-1 is taken to be injective.                                 *)
(***************************************************************************)

CONSTANTS
  OperatorFiles,    \* the files that may be declared
  AliasesUsed,      \* the aliases they may be declared under, numbered in their order
  BadAlias,         \* an alias that alias_valid refuses
  BlockLength,      \* BLOCK_LENGTH and DEFAULT_CHUNK_LENGTH
  PieceCeiling,     \* MAX_PIECE_LENGTH
  ChunkCeiling,     \* u16::MAX
  DigestLength,     \* 20
  MaxMetaTrackers,  \* MAX_TRACKERS
  GoodUrls,         \* what add_tracker takes for a URL of a tracker
  MaxText,          \* MAX_CATEGORY_BYTES and MAX_TITLE_BYTES
  MaxCategories,    \* MAX_CATEGORIES
  MaxDeclared,      \* MAX_ENTRIES of the map
  MaxOffered        \* bound: entries of a configuration

ASSUME DescriptorAssumption ==
  /\ {BlockLength, DigestLength} \subseteq Nat \ {0}
  /\ {PieceCeiling, ChunkCeiling, MaxMetaTrackers, MaxText, MaxCategories, MaxDeclared, MaxOffered} \subseteq Nat

VARIABLE declared  \* the entries of the operator's map, in the order written

descriptorVars == <<declared>>

-----------------------------------------------------------------------------
(* Values: Bencode with its accessors.                                     *)

Number(n) == [number |-> n]
Text(s) == [text |-> s]
Items(q) == [items |-> q]
Fields(f) == [fields |-> f]
Absent == [absent |-> TRUE]

Is(kind, v) == kind \in DOMAIN v
Get(v, key) == IF Is("fields", v) /\ key \in DOMAIN v.fields THEN v.fields[key] ELSE Absent

File(form, fault, value) == [form |-> form, fault |-> fault, value |-> value]

\* Anything that fails says why; only the two causes about protection are told apart
Refused(why) == [why |-> why]
Good(result) == result.why = "none"

\* classify: no truthiness
Classify(v) ==
  IF v \in {Absent, Number(0)} THEN "public" ELSE IF v = Number(1) THEN "protected" ELSE "invalid"

\* positive and required_positive
Positive(v, key) == LET n == Get(v, key) IN Is("number", n) /\ n.number > 0

\* as_chunks over whole digests
Digests(s) == [i \in 1 .. Len(s) \div DigestLength |-> SubSeq(s, (i - 1) * DigestLength + 1, i * DigestLength)]
WholeDigests(v) == Is("text", v) /\ v.text # <<>> /\ Len(v.text) % DigestLength = 0

\* bounded_text and normalized_title: trimmed and cut, or nothing
BoundedText(s) ==
  LET ink == {i \in 1 .. Len(s) : s[i] # 0}
      trimmed == IF ink = {} THEN <<>> ELSE SubSeq(s, Min(ink), Max(ink))
  IN SubSeq(trimmed, 1, Min({Len(trimmed), MaxText}))

-----------------------------------------------------------------------------
(* Torrent files.                                                          *)

DivCeil(n, d) == (n + d - 1) \div d

\* The geometry that decode_metainfo takes
MetaGeometry(info) ==
  /\ Positive(info, "length") /\ Positive(info, "piece length")
  /\ LET piece == Get(info, "piece length").number
         pieces == Get(info, "pieces")
     IN /\ piece <= PieceCeiling /\ piece % BlockLength = 0 /\ piece \div BlockLength <= ChunkCeiling
        /\ WholeDigests(pieces)
        /\ Len(pieces.text) \div DigestLength = DivCeil(Get(info, "length").number, piece)

\* trackers, in the order they are met: one announce, then tier after tier
TrackerEntries(root) ==
  (IF Get(root, "announce") = Absent THEN <<>> ELSE <<Get(root, "announce")>>)
    \o (IF Get(root, "announce-list") = Absent THEN <<>>
        ELSE FlattenSeq([t \in DOMAIN Get(root, "announce-list").items |-> Get(root, "announce-list").items[t].items]))

TiersAreLists(root) ==
  LET tiers == Get(root, "announce-list")
  IN tiers = Absent \/ (Is("items", tiers) /\ \A t \in DOMAIN tiers.items : Is("items", tiers.items[t]))

\* add_tracker: duplicates count against the limit, and are not kept
TrackersAreGood(root) ==
  /\ TiersAreLists(root)
  /\ Len(TrackerEntries(root)) <= MaxMetaTrackers
  /\ \A t \in DOMAIN TrackerEntries(root) :
       Is("text", TrackerEntries(root)[t]) /\ TrackerEntries(root)[t].text \in GoodUrls

Kept(q) == LET firsts == {i \in DOMAIN q : \A j \in 1 .. i - 1 : q[j] # q[i]}
           IN LET at == SetToSortSeq(firsts, <) IN [i \in DOMAIN at |-> q[at[i]].text]

\* decode_metainfo, of a value that fills the file
Metainfo(root) ==
  LET info == Get(root, "info")
      protection == Classify(Get(info, "premium"))
  IN IF ~Is("fields", info) \/ Get(info, "files") # Absent \/ ~MetaGeometry(info) THEN Refused("metadata")
     ELSE IF protection = "invalid" THEN Refused("invalid protection")
     ELSE IF ~TrackersAreGood(root) THEN Refused("metadata")
     ELSE [why |-> "none", kind |-> "vod", protocol |-> "bittorrent", protection |-> protection,
           infohash |-> <<"info", info>>, piece |-> Get(info, "piece length").number, chunk |-> BlockLength,
           length |-> Get(info, "length").number, digests |-> Digests(Get(info, "pieces").text),
           trackers |-> Kept(TrackerEntries(root))]

\* decode_disk_metainfo: the faults are too large, too short, not in blocks, bad
\* padding; what comes out goes to decode_metainfo, another envelope too
DiskMetainfo(file) == IF file.fault # "none" THEN Refused("metadata") ELSE Metainfo(file.value)

\* decode_metainfo, of a bare file: the faults are too large, no bencode, trailing bytes
BareMetainfo(file) == IF file.fault # "none" THEN Refused("metadata") ELSE Metainfo(file.value)

-----------------------------------------------------------------------------
(* Transport files.                                                        *)

Categories(raw) ==
  LET v == Get(raw, "categories")
      given == IF Is("items", v) THEN SelectSeq(v.items, LAMBDA x : Is("text", x))
               ELSE IF Is("text", v) THEN <<v>> ELSE <<>>
      texts == SelectSeq([i \in DOMAIN given |-> BoundedText(given[i].text)], LAMBDA s : s # <<>>)
  IN SubSeq(texts, 1, Min({Len(texts), IF Is("items", v) THEN MaxCategories ELSE 1}))

\* decode_transport: the faults are too short, another version, not in blocks, bad
\* padding, no bencode
DecodeTransport(file) ==
  LET raw == file.value
      trackers == IF Is("items", Get(raw, "trackers")) THEN Get(raw, "trackers").items ELSE <<>>
      urls == SelectSeq(trackers, LAMBDA x : Is("text", x))
      pieces == Get(raw, "pieces")
  IN IF \/ file.form # "transport" \/ file.fault # "none" \/ ~Is("fields", raw)
        \/ ~Positive(raw, "piece_length") \/ ~Positive(raw, "chunk_length")
     THEN Refused("metadata")
     ELSE [why |-> "none", raw |-> raw,
           name |-> IF Is("text", Get(raw, "name")) THEN Get(raw, "name").text ELSE <<>>,
           piece |-> Get(raw, "piece_length").number, chunk |-> Get(raw, "chunk_length").number,
           bitrate |-> IF Is("number", Get(raw, "bitrate")) THEN Get(raw, "bitrate").number ELSE 0,
           categories |-> Categories(raw),
           pubkey |-> IF Is("text", Get(raw, "pubkey")) THEN Get(raw, "pubkey").text ELSE <<>>,
           trackers |-> [i \in DOMAIN urls |-> urls[i].text],
           digests |-> IF WholeDigests(pieces) THEN Digests(pieces.text) ELSE <<>>,
           live |-> ~WholeDigests(pieces)]

\* encode_transport
EncodeTransport(raw) == File("transport", "none", raw)

BaseKeys == <<"name", "authmethod", "pubkey", "piece_length", "chunk_length", "bitrate">>
\* Variant: the identity of a live stream leaves its protection out.
SelectorKeysUnprotected == <<"commerce", "provider_key", "provider_sid", "access", "sharing", "private", "tns", "license">>
SelectorKeys == <<"premium", "commerce", "provider_key", "provider_sid", "access", "sharing", "private", "tns", "license">>

\* hash_descriptor: the pairs that are hashed
HashDescriptor(raw, optional) ==
  LET present(keys) == SelectSeq(keys, LAMBDA k : Get(raw, k) # Absent)
      keys == BaseKeys \o (IF optional THEN present(SelectorKeys) ELSE <<>>)
  IN IF \E i \in DOMAIN BaseKeys : Get(raw, BaseKeys[i]) = Absent THEN Refused("metadata")
     ELSE [why |-> "none", infohash |-> <<"pairs", [i \in DOMAIN keys |-> <<keys[i], Get(raw, keys[i])>>]>>]

\* infohash_of_descriptor, and infohash_of_decoded_transport
InfohashOfDescriptor(raw) == HashDescriptor(raw, TRUE)
InfohashOfDecoded(d) == HashDescriptor(d.raw, d.live)

-----------------------------------------------------------------------------
(* The ways in: resolve.rs.                                                *)

ValidGeometry(piece, chunk) ==
  /\ chunk = BlockLength /\ piece <= PieceCeiling /\ piece % chunk = 0 /\ piece \div chunk <= ChunkCeiling

\* What decode_transport, protection, validate_geometry and the infohash say, in order;
\* `more' is what the VOD entry asks for between the protection and the geometry
Described(d, protection, more) ==
  IF ~Good(d) THEN d
  ELSE IF protection = "invalid" THEN Refused("invalid protection")
  ELSE IF (more /\ (d.live \/ Is("items", Get(d.raw, "files"))))
          \/ ~ValidGeometry(d.piece, d.chunk) \/ (more /\ ~Positive(d.raw, "length"))
    THEN Refused("metadata")
  ELSE IF ~Good(InfohashOfDecoded(d)) THEN InfohashOfDecoded(d)
  ELSE [why |-> "none", kind |-> IF d.live THEN "live" ELSE "vod", protocol |-> "acestream",
        protection |-> protection, infohash |-> InfohashOfDecoded(d).infohash, piece |-> d.piece,
        chunk |-> d.chunk, trackers |-> d.trackers, digests |-> d.digests,
        length |-> IF Positive(d.raw, "length") THEN Get(d.raw, "length").number ELSE 0,
        title |-> BoundedText(d.name), categories |-> d.categories]
Transport(file, more) == Described(DecodeTransport(file), Classify(Get(file.value, "premium")), more)

\* vod_info_from_transport: a recognised envelope is terminal
VodInfo(file) ==
  CASE file.form = "transport" -> Transport(file, TRUE)
    [] file.form = "disk" -> DiskMetainfo(file)
    [] OTHER -> BareMetainfo(file)

\* ensure_playable
Playable(info) == IF Good(info) /\ info.protection = "protected" THEN Refused("protected") ELSE info

\* stream_info_from_transport: files of another format are looked into all the same
StreamInfo(file) ==
  IF file.form = "transport" THEN Transport(file, FALSE)
  ELSE LET vod == Playable(VodInfo(file)) IN IF Good(vod) THEN Refused("metadata") ELSE vod

\* inspect_descriptor
InspectDescriptor(file) == IF file.form = "transport" THEN Transport(file, FALSE) ELSE VodInfo(file)

-----------------------------------------------------------------------------
(* The operator's map: local_descriptors.rs.                               *)

\* decode_descriptor
DecodeDescriptor(file) ==
  LET d == DecodeTransport(file)
  IN IF file.form = "transport" /\ ~Good(d) THEN d
     ELSE IF file.form = "transport" /\ d.live THEN Playable(StreamInfo(file))
     ELSE Playable(VodInfo(file))

\* visit_map: one bad entry and the map is refused
EntryTaken(entries, i) ==
  /\ i <= MaxDeclared /\ entries[i].alias # BadAlias /\ entries[i].absolute
  /\ \A j \in 1 .. i - 1 : entries[j].alias # entries[i].alias
MapTaken(entries) == \A i \in DOMAIN entries : EntryTaken(entries, i)

\* DescriptorPaths::load: in the order of the aliases, up to the first that fails
AllOrFirst(decoded) ==
  LET failing == {a \in DOMAIN decoded : ~Good(decoded[a])}
  IN IF failing # {} THEN decoded[Min(failing)] ELSE [why |-> "none", admitted |-> decoded]
Load(entries) ==
  LET fileOf(a) == entries[CHOOSE i \in DOMAIN entries : entries[i].alias = a].file
  IN IF ~MapTaken(entries) THEN Refused("configuration")
     ELSE AllOrFirst([a \in {entries[i].alias : i \in DOMAIN entries} |-> DecodeDescriptor(fileOf(a))])

DescriptorsInit == declared = <<>>

\* One more entry is written into the map; only the last one may be a bad one
Declare(alias, absolute, file) ==
  /\ Len(declared) < MaxOffered /\ MapTaken(declared)
  /\ declared' = Append(declared, [alias |-> alias, absolute |-> absolute, file |-> file])

DescriptorsNext ==
  \E alias \in AliasesUsed \union {BadAlias}, file \in OperatorFiles, absolute \in BOOLEAN :
    Declare(alias, absolute, file)

-----------------------------------------------------------------------------
(* What holds.                                                             *)

OnFile == {declared[i].file : i \in DOMAIN declared}

\* infohash.rs: the swarm a node joins says what it is about.  Two torrent files with
\* one infohash, or two live transports with one, agree on geometry and protection,
\* and torrents on the digests too: what a cache keeps under an infohash is not told
\* apart by anything that the hash leaves out, the trackers and names excepted.
IdentityBinds ==
  \A f, g \in OnFile :
    LET a == InspectDescriptor(f)
        b == InspectDescriptor(g)
    IN Good(a) /\ Good(b) /\ a.infohash = b.infohash =>
         /\ a.protocol = b.protocol /\ <<a.piece, a.chunk>> = <<b.piece, b.chunk>>
         /\ a.protocol = "bittorrent" => a.digests = b.digests /\ a.length = b.length
         /\ a.kind = b.kind /\ (a.kind = "live" \/ a.protocol = "bittorrent") => a.protection = b.protection

\* resolve.rs: "a protection refusal must not be obscured as a format failure and
\* retried without metadata".  What any way in finds to be protected is refused as
\* that where a live stream is asked for and where the operator declares it; nothing
\* protected is ever admitted; and a file is declared as what an inspection calls it.
EntriesAgree ==
  \A f \in OnFile :
    LET seen == InspectDescriptor(f)
        local == DecodeDescriptor(f)
    IN /\ Good(seen) /\ seen.protection = "protected" => Playable(StreamInfo(f)).why = "protected"
       /\ Good(local) => /\ Good(seen) /\ local.protection = "public"
                         /\ <<local.kind, local.infohash>> = <<seen.kind, seen.infohash>>
       /\ (Good(seen) /\ ~Good(local) /\ seen.protection = "public") => seen.kind = "vod" /\ f.form = "transport"

\* The pieces of an admitted torrent cover it exactly, and the chunks of a piece of
\* anything admitted can be numbered on the wire.  A tracker is listed once.
GeometryFits ==
  \A f \in OnFile :
    LET info == DecodeDescriptor(f) IN Good(info) =>
      /\ info.piece % info.chunk = 0 /\ info.piece \div info.chunk \in 1 .. ChunkCeiling
      /\ info.protocol = "bittorrent" =>
           /\ (Len(info.digests) - 1) * info.piece < info.length
           /\ info.length <= Len(info.digests) * info.piece
           /\ \A i, j \in DOMAIN info.trackers : info.trackers[i] = info.trackers[j] => i = j

\* transport.rs: encode_transport is "the inverse of decode_transport".  The infohash
\* that a broadcaster computes from its dictionary is the one that a reader of its
\* transport file computes, as long as the dictionary describes a live stream.
PublishedIsRead ==
  \A f \in OnFile :
    LET d == DecodeTransport(f)
        published == DecodeTransport(EncodeTransport(d.raw))
    IN Good(d) =>
         /\ published = d
         /\ d.live => InfohashOfDecoded(published) = InfohashOfDescriptor(d.raw)

\* local_descriptors.rs: a map is admitted as a whole or not at all, and every alias of
\* an admitted map answers with its own file.
AdmitsWhole(loaded) ==
  /\ Good(loaded) =>
       /\ Cardinality(DOMAIN loaded.admitted) = Len(declared) /\ Len(declared) <= MaxDeclared
       /\ BadAlias \notin DOMAIN loaded.admitted
       /\ \A i \in DOMAIN declared : loaded.admitted[declared[i].alias] = DecodeDescriptor(declared[i].file)
  /\ (\E i \in DOMAIN declared : DecodeDescriptor(declared[i].file).why = "protected") => ~Good(loaded)
MapIsWhole == AdmitsWhole(Load(declared))

DescriptorsAreSound == IdentityBinds /\ EntriesAgree /\ GeometryFits /\ PublishedIsRead /\ MapIsWhole

\* Does not hold.  transport.rs: "`true` iff no `pieces` key is present (i.e. this is a
\* live stream)".
LiveIffNoPieces ==
  \A f \in OnFile : LET d == DecodeTransport(f) IN Good(d) => (d.live <=> Get(d.raw, "pieces") = Absent)
=============================================================================
