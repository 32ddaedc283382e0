---------------------------- MODULE PeerGossip -----------------------------
(***************************************************************************)
(* What two peers of a live swarm tell each other about it: the signed     *)
(* extended handshake (ace-wire/src/extended.rs, identity.rs), the live    *)
(* window that a pool reads from it and from later messages (live.rs with  *)
(* live_session/support.rs), requests and replies (live_codec.rs with      *)
(* seed/protocol.rs), and the gossip about other peers (peer_exchange.rs). *)
(*                                                                         *)
(* Values are those of WireFormats.  Of the fields of a handshake that are *)
(* the same for every peer and moment one stands for all.  Fields of a     *)
(* message are words; piece numbers stay below 2^32.  A signature is the   *)
(* signer with what was signed.                                            *)
(***************************************************************************)
EXTENDS WireFormats, TLC

CONSTANTS
  Nodes,          \* identities
  LastPiece,      \* bound: pieces of the stream
  WindowLength,   \* pieces that a store keeps
  PieceChunks,    \* chunks of a piece, of BlockLength bytes each
  MaxBtRequest,   \* MAX_BT_REQUEST_LEN
  Requests,       \* what a peer may ask for: see Request and Block
  Records,        \* the records that gossip may carry
  MaxRecords,     \* bound: records of one message
  Unknown32       \* u32::MAX

VARIABLES
  edge,     \* the window that the serving peer has, its position, and pieces not whole yet
  view,     \* PeerRuntime of the other side: min and max of its window, or NoWindow
  answer,   \* the request just served, with its reply and who served it
  heard     \* the records of the gossip just handled, its count and the piece needed next

gossipVars == <<edge, view, answer, heard>>

NoWindow == [max |-> -1]
Nothing == [id |-> -1]
NoAnswer == [server |-> "none"]
NoGossip == [records |-> <<>>, count |-> 0, next |-> 0]

\* What was served or heard is dealt with before anything else happens
AtRest == answer = NoAnswer /\ heard = NoGossip
Dealt == answer' = NoAnswer /\ heard' = NoGossip

-----------------------------------------------------------------------------
(* The extended handshake.                                                 *)

NodeId(node) == Text(<<node>>)
Zeros == Text(<<>>)

\* handshake_digest: every field, the signature as zeros
HandshakeDigest(f) == ("signature" :> Zeros) @@ f
Sign(node, digest) == Text(<<node, digest>>)
\* verify_handshake
VerifyHandshake(nodeId, signature, f) == signature = Text(nodeId.text \o <<HandshakeDigest(f)>>)

\* A position is shown as a live head only when it is one
HasLiveHead(p) == p.position >= 0 /\ p.max >= p.min /\ p.max >= 0

\* base_fields, and the full dictionary of the position that sign_and_encode puts in
MyInfo(p) ==
  [min_piece |-> Number(p.min), max_piece |-> Number(p.max), position |-> Number(p.position),
   distance_from_source |-> Number(p.distance),
   lsp |-> Number(IF HasLiveHead(p) THEN p.max ELSE -1),
   download_window_end |-> Number(IF HasLiveHead(p) THEN p.max ELSE -1),
   live_window_size |-> Number(IF HasLiveHead(p) THEN 115 ELSE Max({p.max - p.min + 1, 0}))]

\* sign_and_encode; `more' holds the optional fields metadata_size and yourip
SignAndEncode(node, p, more) ==
  LET head == HasLiveHead(p)
      f == [m |-> Fields([ut_metadata |-> Number(2)]), mi |-> Fields(MyInfo(p)), node |-> Number(0),
            lsp |-> Number(IF head THEN p.max ELSE -1), node_id |-> NodeId(node)]
             @@ more @@ (IF head THEN [node_state |-> Number(1)] ELSE <<>>)
  IN ("signature" :> Sign(node, HandshakeDigest(f))) @@ f

\* ExtendedHandshake: ut_metadata_id, metadata_size and yourip as the peer reads them
UtMetadataId(root) == LET v == Get(Get(root, "m"), "ut_metadata") IN IF Is("number", v) THEN v.number ELSE 0
MetadataSize(root) == LET v == Get(root, "metadata_size") IN IF Is("number", v) THEN v.number ELSE 0
YourIp(root) ==
  LET v == Get(root, "yourip") IN IF Is("text", v) /\ Len(v.text) \in {4, 16} THEN v.text ELSE <<>>

-----------------------------------------------------------------------------
(* The live window.                                                        *)

\* from_myinfo_payload: the keys at the root, or else under mi; what is left out is
\* taken from the head
LiveWindowOf(root) ==
  LET dict == IF Get(root, "max_piece") # Absent THEN root ELSE Get(root, "mi")
      max == Get(dict, "max_piece")
      advisory(key, otherwise) ==
        LET v == Get(dict, key) IN IF Is("number", v) THEN Max({v.number, 0}) ELSE otherwise
      min == Min({advisory("min_piece", 0), max.number})
      position == advisory("position", max.number)
  IN IF ~Is("number", max) \/ max.number < 0 THEN NoWindow
     ELSE [min |-> min, max |-> max.number, position |-> Min({Max({position, min}), max.number})]

\* Variant: the head is taken as it is said.
ReadWindowMaxUnbounded(root) == LiveWindowOf(root).max

\* read_window_max: of an update, -1 for none.  A head that is no piece number is none.
ReadWindowMax(root) ==
  LET max == LiveWindowOf(root).max IN IF max <= Unknown32 THEN max ELSE -1

\* read_peer_window: of the handshake, where the keys are under mi and all have to be there
ReadPeerWindow(root) ==
  LET of(key) == LET v == Get(Get(root, "mi"), key) IN IF Is("number", v) THEN v.number ELSE -1
      min == of("min_piece")
      max == of("max_piece")
  IN IF min < 0 \/ max < min \/ max > Unknown32 THEN NoWindow ELSE [min |-> min, max |-> max]

-----------------------------------------------------------------------------
(* Requests and pieces.                                                    *)

\* A request of a live chunk: chunk_request asks of stream 0, others may not.  A payload
\* may be too short for one.  A request of a BitTorrent block, and any other message.
Request(stream, piece, chunk) == [kind |-> "live", stream |-> stream, piece |-> piece, chunk |-> chunk]
ChunkRequest(piece, chunk) == Request(0, piece, chunk)
Short == [kind |-> "short"]
Block(index, begin, length) == [kind |-> "block", index |-> index, begin |-> begin, length |-> length]
Other == [kind |-> "other"]

\* build_piece, and LiveChunk::borrow_from_message: the first two words of the block are
\* the header of the piece and the chunk
BuildPiece(stream, piece, chunk, header, data) ==
  [id |-> 7, index |-> stream, begin |-> piece, block |-> <<header, chunk>> \o data]
LiveChunk(message) ==
  [piece |-> message.begin, header |-> message.block[1], chunk |-> message.block[2],
   data |-> SubSeq(message.block, 3, Len(message.block))]

\* The store: what it holds, the bytes of a piece, and the header of its chunks.  Pieces
\* made before the clock was known have the header 0.
Held(piece, chunk) ==
  /\ edge.min <= piece /\ piece <= edge.max /\ chunk < PieceChunks
  /\ chunk = PieceChunks - 1 => piece \notin edge.part
PieceLength == PieceChunks * BlockLength
PieceBytes(piece) == [i \in 1 .. PieceLength |-> <<piece, i>>]
ChunkBytes(piece, chunk) == SubSeq(PieceBytes(piece), chunk * BlockLength + 1, (chunk + 1) * BlockLength)
PieceHeader(piece) == piece % 2

\* Variant: the chunk in which the block ends is left out.
SharedBlockRoundedDown(index, begin, length) ==
  LET end == begin + length
      first == begin \div BlockLength
      last == end \div BlockLength
      bytes == FlattenSeq([k \in 1 .. last - first |-> ChunkBytes(index, first + k - 1)])
      offset == begin % BlockLength
  IN IF \/ length = 0 \/ length > MaxBtRequest \/ end > PieceLength
        \/ \E chunk \in first .. last - 1 : ~Held(index, chunk)
        \/ Len(bytes) < offset + length
     THEN <<>> ELSE SubSeq(bytes, offset + 1, offset + length)

\* shared_block: the chunks that the block touches, one after the other; <<>> for None
SharedBlock(index, begin, length) ==
  LET end == begin + length
      first == begin \div BlockLength
      last == DivCeil(end, BlockLength)
      bytes == FlattenSeq([k \in 1 .. last - first |-> ChunkBytes(index, first + k - 1)])
      offset == begin % BlockLength
  IN IF \/ length = 0 \/ length > MaxBtRequest \/ end > PieceLength
        \/ \E chunk \in first .. last - 1 : ~Held(index, chunk)
        \/ Len(bytes) < offset + length
     THEN <<>> ELSE SubSeq(bytes, offset + 1, offset + length)

\* The callers of prepare_reply: a connection of a leecher, with or without a store for
\* the swarm, and a pool, which serves its upstream peers from its own store
Servers == {"inbound", "storeless", "reciprocal"}

\* prepare_reply
PrepareReply(r, server) ==
  CASE server = "storeless" -> Nothing
    [] server # "storeless" /\ r.kind = "live" ->
         IF ~Held(r.piece, r.chunk) THEN Nothing
         ELSE IF server = "inbound"
         THEN BuildPiece(r.stream, r.piece, r.chunk, IF PieceHeader(r.piece) = 0 THEN 9 ELSE PieceHeader(r.piece),
                         ChunkBytes(r.piece, r.chunk))
         ELSE BuildPiece(0, r.piece, r.chunk, PieceHeader(r.piece), ChunkBytes(r.piece, r.chunk))
    [] server = "inbound" /\ r.kind = "block" ->
         LET block == SharedBlock(r.index, r.begin, r.length)
         IN IF block = <<>> THEN Nothing
            ELSE [id |-> 7, index |-> r.index, begin |-> r.begin, block |-> block]
    [] OTHER -> Nothing

-----------------------------------------------------------------------------
(* Gossip.                                                                 *)

\* A record: address with ip and port, whether it is long enough for a window, and the window
Window(r) ==
  IF ~r.long \/ {r.min, r.max} \intersect {0, Unknown32} # {} \/ r.max < r.min THEN NoWindow
  ELSE [min |-> r.min, max |-> r.max]

\* parse_peer_exchange_detailed: as many records as are announced and there
ParsePeerExchange(records, count) ==
  LET there == SubSeq(records, 1, Min({count, Len(records)}))
      usable == SelectSeq(there, LAMBDA r : r.ip # 0 /\ r.port # 0)
  IN [i \in DOMAIN usable |-> [addr |-> <<usable[i].ip, usable[i].port>>, window |-> Window(usable[i])]]

Covers(w, piece) == w # NoWindow /\ w.min <= piece /\ piece <= w.max

\* rank_by_window_coverage
RankByWindowCoverage(peers, next) ==
  LET covering == SelectSeq(peers, LAMBDA p : Covers(p.window, next))
      unknown == SelectSeq(peers, LAMBDA p : p.window = NoWindow)
      others == SelectSeq(peers, LAMBDA p : p.window # NoWindow /\ ~Covers(p.window, next))
  IN covering \o unknown \o others

-----------------------------------------------------------------------------
(* The two peers.                                                          *)

GossipInit ==
  /\ edge = [min |-> 0, max |-> -1, position |-> -1, distance |-> 0, part |-> {}]
  /\ view = NoWindow /\ answer = NoAnswer /\ heard = NoGossip

\* The serving peer gets one more piece, whole or without its last chunk, and drops what
\* its store does not keep
EdgeMoves(whole) ==
  /\ edge.max < LastPiece
  /\ LET new == edge.max + 1
         min == Max({edge.min, new + 1 - WindowLength})
     IN edge' = [edge EXCEPT !.min = min, !.max = new, !.position = new,
                             !.part = {p \in @ : p >= min} \union (IF whole THEN {} ELSE {new})]
  /\ Dealt /\ UNCHANGED view

\* The messages that say where the window is: a handshake, and myinfo messages that
\* leave something out or say it wrongly
Handshake(node) == Fields(SignAndEncode(node, edge, [yourip |-> Text(<<1, 1, 1, 1>>), metadata_size |-> Number(1)]))
Updates ==
  {Fields(f) : f \in {[max_piece |-> Number(edge.max)],
                      [max_piece |-> Number(edge.max), min_piece |-> Number(edge.max + 1)],
                      [max_piece |-> Number(edge.max), min_piece |-> Number(edge.min), position |-> Number(-1)],
                      [mi |-> Fields([position |-> Number(edge.max)])],
                      [max_piece |-> Text(<<>>), mi |-> Fields(MyInfo(edge))],
                      [max_piece |-> Number(Unknown32 + 1)]}}
Messages == {Handshake(n) : n \in Nodes} \union Updates

\* connect: the first extended message is the handshake, and the connection is given up
\* when it tells of no window
Greet(message) ==
  /\ view = NoWindow /\ ReadPeerWindow(message) # NoWindow
  /\ view' = ReadPeerWindow(message)
  /\ Dealt /\ UNCHANGED edge

\* handle_message, of Extended and Unknown: what does not advance the window changes
\* nothing.  The head of the pool is the greatest of its peers'.
Hear(message) ==
  /\ view # NoWindow /\ ReadWindowMax(message) > view.max
  /\ view' = [view EXCEPT !.max = ReadWindowMax(message)]
  /\ Dealt /\ UNCHANGED edge

\* A request is served, or not answered
Serve(request, server) ==
  /\ AtRest
  /\ answer' = [server |-> server, request |-> request, reply |-> PrepareReply(request, server)]
  /\ UNCHANGED <<heard, edge, view>>

\* Gossip arrives; it is ranked by the piece needed next, and dealt with before the
\* next message is read
HearGossip(records, count) ==
  /\ AtRest /\ view # NoWindow
  /\ heard' = [records |-> records, count |-> count, next |-> view.max + 1]
  /\ UNCHANGED <<answer, edge, view>>

GossipNext ==
  \/ \E whole \in BOOLEAN : EdgeMoves(whole)
  \/ \E message \in Messages : Greet(message) \/ Hear(message)
  \/ \E request \in Requests, server \in Servers : Serve(request, server)
  \/ \E records \in SeqOf(Records, MaxRecords), count \in 0 .. MaxRecords + 1 :
       HearGossip(records, count)

-----------------------------------------------------------------------------
(* What holds.                                                             *)

\* live.rs and support.rs: the head that a pool takes from a peer is a piece that the peer
\* has or had, and the window is not empty, however badly the messages describe it, and
\* every window that from_myinfo_payload makes of them has its position within.
HeadWasOffered ==
  /\ view # NoWindow => view.min <= view.max /\ view.max <= edge.max
  /\ \A message \in Messages : LET w == LiveWindowOf(message) IN
       w # NoWindow => w.min <= w.position /\ w.position <= w.max

\* extended.rs and identity.rs: what a node signs is accepted as its own and as nobody
\* else's, and not after a change of any field but the signature.  The window that a
\* reader finds in it is the one that was meant, and it is a live participant's
\* (node_state) exactly when there is a head.
HandshakeIsOwn ==
  \A node \in Nodes :
    LET said == Handshake(node)
        f == said.fields
        changed == {[f EXCEPT ![k] = Number(-7)] : k \in DOMAIN f \ {"signature"}}
    IN /\ \A other \in Nodes : VerifyHandshake(NodeId(other), f.signature, f) <=> other = node
       /\ \A g \in changed : ~VerifyHandshake(NodeId(node), f.signature, g)
       /\ VerifyHandshake(NodeId(node), f.signature, [f EXCEPT !.signature = Zeros])
       /\ <<UtMetadataId(said), MetadataSize(said), YourIp(said)>> = <<2, 1, <<1, 1, 1, 1>>>>
       /\ (Get(said, "node_state") # Absent) = (edge.max >= 0)
       /\ Get(said, "lsp") = Get(Get(said, "mi"), "lsp")
       /\ LiveWindowOf(said) = IF edge.max < 0 THEN NoWindow
                               ELSE [min |-> edge.min, max |-> edge.max, position |-> edge.position]

\* seed/protocol.rs: a request is answered exactly when a store holds every byte that it
\* asks for, with those bytes and the coordinates that it gave.  A leecher gets the stream
\* it asked of and never a header of zeros; an upstream peer gets stream 0, the header as
\* stored, and no BitTorrent blocks.
ReplyAnswersRequest ==
  answer # NoAnswer =>
    LET r == answer.request
        reply == answer.reply
        wanted == IF r.kind = "live" THEN r.chunk * BlockLength + 1 .. (r.chunk + 1) * BlockLength
                  ELSE IF r.kind = "block" THEN r.begin + 1 .. r.begin + r.length ELSE {}
        piece == IF r.kind = "live" THEN r.piece ELSE r.index
        allowed == \/ r.kind = "live" /\ answer.server # "storeless"
                   \/ r.kind = "block" /\ answer.server = "inbound" /\ r.length \in 1 .. MaxBtRequest
        kept == \A i \in wanted : i <= PieceLength /\ Held(piece, (i - 1) \div BlockLength)
        bytes == [i \in DOMAIN reply.block \ (IF r.kind = "live" THEN {1, 2} ELSE {}) |-> reply.block[i]]
    IN /\ (reply # Nothing) = (allowed /\ kept)
       /\ reply # Nothing /\ r.kind = "live" =>
            LET read == LiveChunk(reply) IN
            /\ <<read.piece, read.chunk>> = <<r.piece, r.chunk>>
            /\ reply.index = IF answer.server = "inbound" THEN r.stream ELSE 0
            /\ IF answer.server = "inbound" THEN read.header # 0 ELSE read.header = PieceHeader(r.piece)
       /\ reply # Nothing /\ r.kind = "block" => <<reply.index, reply.begin>> = <<r.index, r.begin>>
       /\ reply # Nothing =>
            /\ Cardinality(DOMAIN bytes) = Cardinality(wanted)
            /\ {bytes[i] : i \in DOMAIN bytes} = {<<piece, i>> : i \in wanted}
            /\ \A i, j \in DOMAIN bytes : i < j => bytes[i][2] < bytes[j][2]

\* peer_exchange.rs: "No candidate is dropped", and none comes twice; the order among those
\* of one kind is the advertised one, and whoever can serve the next piece comes first.
RankingIsFair ==
  LET peers == ParsePeerExchange(heard.records, heard.count)
      ranked == RankByWindowCoverage(peers, heard.next)
      class(p) == IF p.window = NoWindow THEN 2 ELSE IF Covers(p.window, heard.next) THEN 1 ELSE 3
  IN /\ Len(peers) <= heard.count
     /\ \A p \in Range(peers) : p.window # NoWindow => p.window.min <= p.window.max
     /\ \E order \in [DOMAIN ranked -> DOMAIN peers] :
          /\ {order[i] : i \in DOMAIN order} = DOMAIN peers /\ Len(ranked) = Len(peers)
          /\ \A i \in DOMAIN ranked : ranked[i] = peers[order[i]]
          /\ \A i, j \in DOMAIN ranked : i < j =>
               \/ class(ranked[i]) < class(ranked[j])
               \/ class(ranked[i]) = class(ranked[j]) /\ order[i] < order[j]

GossipIsSound == HeadWasOffered /\ HandshakeIsOwn /\ ReplyAnswersRequest /\ RankingIsFair
=============================================================================
