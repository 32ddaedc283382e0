----------------------------- MODULE PeerSession -----------------------------
(***************************************************************************)
(* One peer connection (ace-peer/src/session.rs over handshake.rs,         *)
(* message.rs and ut_metadata.rs of ace-wire): the handshake on either     *)
(* side and in either protocol, the framing of the byte stream into        *)
(* messages, and the fetch of a metadata blob.  The stream is a sequence   *)
(* of tokens: the handshake up to the infohash ("P"), the two halves of a  *)
(* peer id ("I1", "I2"), and of a message its length ("H") and the rest    *)
(* ("B"); TCP may cut it anywhere.  An error of a call ends the connection:*)
(* every caller drops the session then.                                    *)
(***************************************************************************)
EXTENDS Integers, Sequences, FiniteSets, SequencesExt

CONSTANTS Roles,      \* which sides to play: "dial", "accept"
          Protocols,  \* HandshakeProtocol: "ace", "bt"
          Forms,      \* how the peer opens: "full", "short", "deferred", "alien", "other"
          Talks,      \* the message sequences a peer may send
          Blocks      \* 16 KiB blocks of the metadata blob to fetch

ASSUME PeerAssumption ==
    /\ Roles \subseteq {"dial", "accept"} /\ Protocols \subseteq {"ace", "bt"}
    /\ Forms \subseteq {"full", "short", "deferred", "alien", "other"}
    /\ Blocks \in Nat

\* PeerMessage as it is sent: a keep-alive, a typed message, one whose payload
\* has not the length its id calls for ("odd"), an id that is not modelled, an
\* extended handshake (ext_id 0), a frame over the limit, and the metadata
\* messages: one whose control dict is missing or wrong, a request, a refusal,
\* and an answer, which has a block number and a length.
Message == [kind : {"alive", "plain", "odd", "unknown", "handshake", "huge", "garbled", "request", "reject"}]
           \union [kind : {"data"}, piece : -1 .. Blocks, size : {"exact", "short", "long"}]

VARIABLES
    role,       \* our side of the connection
    protocol,   \* PeerSession::protocol
    form,       \* how the peer opens
    talk,       \* what the peer will say
    todo,       \* tokens the peer has still to send; "W" waits for our handshake
    wire,       \* tokens on their way to us
    closed,     \* the peer closed the connection
    us,         \* where our task stands
    readBytes,  \* tokens consumed as the peer's handshake
    observed,   \* HandshakeProgress a caller was told: -1, then reply tokens read
    replied,    \* our handshake is written
    said,       \* we have sent an extended handshake
    buf,        \* PeerSession::buf
    got,        \* messages decoded so far
    fetch       \* fetch_metadata: state, requests sent, blocks answered, the blob

peerVars == <<role, protocol, form, talk, todo, wire, closed>>
ourVars == <<us, readBytes, observed, replied, said, buf, got, fetch>>
sessionVars == <<peerVars, ourVars>>

\* PeerMessage::encode: the length, and the id with its payload unless there is none.
Framed(msg) ==
    CASE msg.kind = "huge"  -> <<<<"X">>>>
      [] msg.kind = "alive" -> <<<<"K", msg>>>>
      [] OTHER              -> <<<<"H", msg>>, <<"B">>>>
Tokens(msgs) == FlattenSeq([k \in 1 .. Len(msgs) |-> Framed(msgs[k])])

\* Handshake::encode and encode_with_protocol, as a peer of each form uses them; only
\* a peer that opens the connection may leave its id out and wait for our handshake.
Encoded(p, hash) == <<<<"P", p, hash>>, <<"I1">>, <<"I2">>>>
Opening(f, p) ==
    CASE f = "full" -> Encoded(p, "asked")
      [] f = "short" -> <<Encoded(p, "asked")[1], <<"W">>>>
      [] f = "deferred" -> <<Encoded(p, "asked")[1], <<"W">>, <<"I1">>, <<"I2">>>>
      [] f = "alien" -> Encoded(IF p = "ace" THEN "bt" ELSE "ace", "asked")
      [] f = "other" -> Encoded(p, "unserved")

SessionInit ==
    /\ role \in Roles /\ protocol \in Protocols /\ form \in Forms /\ talk \in Talks
    /\ form \in {"short", "deferred"} => role = "accept" /\ protocol = "ace"
    /\ todo = Opening(form, protocol) \o Tokens(talk) /\ wire = <<>> /\ closed = FALSE
    /\ us = IF role = "dial" THEN "connect" ELSE IF protocol = "bt" THEN "whole" ELSE "prefix"
    /\ readBytes = <<>> /\ observed = -1 /\ replied = FALSE /\ said = FALSE
    /\ buf = <<>> /\ got = <<>>
    /\ fetch = [at |-> "idle", sent |-> 0, have |-> {}, blob |-> [b \in 0 .. Blocks - 1 |-> "zero"]]

\* A call returns an error and its caller drops the session.
Fails(how) == us' = how /\ UNCHANGED <<peerVars, readBytes, observed, replied, said, buf, got, fetch>>

-----------------------------------------------------------------------------
(* The peer and the network.                                               *)

Gone == {"failed", "timeout", "mismatch"}

PeerSends ==
    /\ todo # <<>> /\ ~closed /\ us \notin Gone \union {"connect"}
    /\ IF Head(todo) = <<"W">> THEN replied /\ UNCHANGED wire ELSE wire' = Append(wire, Head(todo))
    /\ todo' = Tail(todo)
    /\ UNCHANGED <<role, protocol, form, talk, closed, ourVars>>

PeerCloses ==
    /\ ~closed /\ us \notin Gone /\ closed' = TRUE
    /\ UNCHANGED <<role, protocol, form, talk, todo, wire, ourVars>>

-----------------------------------------------------------------------------
(* Our handshake.                                                          *)

\* connect: bounded by the same timeout as every other call.
Connects ==
    /\ us = "connect"
    /\ \/ us' = "write" /\ UNCHANGED <<peerVars, readBytes, observed, replied, said, buf, got, fetch>>
       \/ \E how \in {"failed", "timeout"} : Fails(how)

\* Handshake::decode_with_protocol of what was read: the protocol, then the hash.
Judge(head) ==
    IF head[2] # protocol THEN "failed" ELSE IF head[3] # "asked" THEN "mismatch" ELSE "open"

\* A write that fails, or that the peer does not take in time.
WriteFails == us \in {"write", "reply"} /\ \E how \in {"failed", "timeout"} : Fails(how)

\* perform_handshake_with_progress_observer: ours first, and the observer is told.
WriteFirst ==
    /\ us = "write" /\ us' = "read" /\ replied' = TRUE /\ observed' = 0
    /\ UNCHANGED <<peerVars, readBytes, said, buf, got, fetch>>

\* ReplyProgressReader tells of every token as it is consumed, so a cancelled
\* exchange keeps the count; perform_bittorrent_handshake reads without it.
Observed == IF protocol = "ace" THEN Len(readBytes) + 1 ELSE observed
ReadReply ==
    /\ us = "read" /\ wire # <<>>
    /\ readBytes' = Append(readBytes, Head(wire)) /\ wire' = Tail(wire)
    /\ observed' = Observed
    /\ us' = IF Len(readBytes) = 2 THEN Judge(readBytes[1]) ELSE us
    /\ UNCHANGED <<role, protocol, form, talk, todo, closed, replied, said, buf, got, fetch>>

\* accept_handshake of a BitTorrent peer: all of its handshake first.
ReadWhole ==
    /\ us = "whole" /\ wire # <<>>
    /\ readBytes' = Append(readBytes, Head(wire)) /\ wire' = Tail(wire)
    /\ us' = CASE Len(readBytes) < 2 -> us
               [] Judge(readBytes'[1]) = "open" -> "reply"
               [] OTHER -> Judge(readBytes'[1])
    /\ UNCHANGED <<role, protocol, form, talk, todo, closed, observed, replied, said, buf, got, fetch>>

\* accept_handshake: the prefix decides whether anything is answered at all.
ReadPrefix ==
    /\ us = "prefix" /\ wire # <<>>
    /\ readBytes' = <<Head(wire)>> /\ wire' = Tail(wire)
    /\ us' = IF Judge(Head(wire)) = "open" THEN "early" ELSE Judge(Head(wire))
    /\ UNCHANGED <<role, protocol, form, talk, todo, closed, observed, replied, said, buf, got, fetch>>

\* read_optional_inbound_peer_id: whatever arrives within the grace is the id.
ReadEarlyId ==
    /\ us = "early"
    /\ \/ /\ wire # <<>>
          /\ LET n == IF Len(wire) >= 2 THEN 2 ELSE 1 IN
             /\ readBytes' = readBytes \o SubSeq(wire, 1, n) /\ wire' = SubSeq(wire, n + 1, Len(wire))
             /\ us' = IF n = 2 THEN "reply" ELSE "earlyRest"
       \/ /\ wire = <<>>                        \* grace over, or end of stream
          /\ us' = "reply" /\ UNCHANGED <<readBytes, wire>>
    /\ UNCHANGED <<role, protocol, form, talk, todo, closed, observed, replied, said, buf, got, fetch>>

ReadRestOfId ==
    /\ us \in {"earlyRest", "lateRest"} /\ wire # <<>>
    /\ readBytes' = Append(readBytes, Head(wire)) /\ wire' = Tail(wire)
    /\ us' = IF us = "earlyRest" THEN "reply" ELSE "open"
    /\ UNCHANGED <<role, protocol, form, talk, todo, closed, observed, replied, said, buf, got, fetch>>

WriteReply ==
    /\ us = "reply" /\ replied' = TRUE
    /\ us' = IF Len(readBytes) = 3 THEN "open" ELSE "late"
    /\ UNCHANGED <<peerVars, readBytes, observed, said, buf, got, fetch>>

\* looks_like_acestream_peer_id_prefix
LooksLikeId(tok) == tok[1] = "I1"

\* read_optional_deferred_peer_id: what does not look like an id belongs to
\* the first message and goes back to the buffer.
LateForgets(n) == buf' = buf
KeepsBytes(n) == buf' = buf \o SubSeq(wire, 1, n)
ReadLateId ==
    /\ us = "late"
    /\ \/ /\ wire # <<>>
          /\ LET n == IF Len(wire) >= 2 THEN 2 ELSE 1 IN
             /\ wire' = SubSeq(wire, n + 1, Len(wire))
             /\ IF LooksLikeId(wire[1])
                THEN /\ readBytes' = readBytes \o SubSeq(wire, 1, n) /\ UNCHANGED buf
                     /\ us' = IF n = 2 THEN "open" ELSE "lateRest"
                ELSE KeepsBytes(n) /\ us' = "open" /\ UNCHANGED readBytes
       \/ wire = <<>> /\ us' = "open" /\ UNCHANGED <<wire, readBytes, buf>>
    /\ UNCHANGED <<role, protocol, form, talk, todo, closed, observed, replied, said, got, fetch>>

\* The stream fails under a read of an optional id (a reset, not its end).
IdReadFails == us \in {"early", "late"} /\ closed /\ wire = <<>> /\ Fails("failed")

-----------------------------------------------------------------------------
(* Messages.                                                               *)

FrameLen == IF buf[1][1] = "K" THEN 1 ELSE 2
WholeTalk == buf # <<>> /\ buf[1][1] \in {"K", "H"} /\ Len(buf) >= FrameLen
\* PeerMessage::decode refuses a length over MAX_FRAME_LEN; the bytes of a
\* protocol string or of a peer id read as one.
TooLarge == buf # <<>> /\ buf[1][1] \in {"X", "P", "I1", "I2"}
\* An id whose payload has not the right length is kept raw.
Decoded(msg) == IF msg.kind = "odd" THEN [kind |-> "unknown"] ELSE msg

\* send, send_extended_handshake and send_signed_extended_handshake: one write each.
SaysHandshake ==
    /\ us = "open" /\ fetch.at \in {"idle", "blob"} /\ ~said
    /\ \/ said' = TRUE /\ UNCHANGED <<peerVars, us, readBytes, observed, replied, buf, got, fetch>>
       \/ \E how \in {"failed", "timeout"} : Fails(how)

\* The metadata answers: out of range ignored, a repeated block counted once, a
\* long one spills into the next, a short one leaves what was there before.
Stored(blob, p, size) ==
    [b \in DOMAIN blob |->
        CASE b = p -> IF size = "short" /\ blob[b] # "good" THEN "torn" ELSE "good"
          [] b = p + 1 /\ size = "long" -> "torn"
          [] OTHER -> blob[b]]
\* MetadataMessage::parse: the kind and the block that the control dict names, if it does.
MetadataOf(msg) == IF msg.kind \in {"request", "reject", "data"} THEN {msg} ELSE {}
MetadataAnswer(msg) ==
    CASE fetch.at # "asked" \/ MetadataOf(msg) = {} -> fetch
      [] msg.kind = "reject" -> [fetch EXCEPT !.at = "rejected"]
      [] msg.kind = "data" /\ msg.piece \in 0 .. Blocks - 1 ->
            LET have == fetch.have \union {msg.piece} IN
            [fetch EXCEPT !.have = have, !.blob = Stored(@, msg.piece, msg.size),
                          !.at = IF Cardinality(have) = Blocks THEN "blob" ELSE "asked"]
      [] OTHER -> fetch

\* fetch_metadata asks for every block before it reads one; none means an empty
\* blob, and a request that cannot be written ends the fetch.
AskBlock ==
    /\ us = "open" /\ fetch.at \in {"idle", "asking"}
    /\ \/ /\ fetch' = [fetch EXCEPT !.at = CASE Blocks = 0 -> "blob"
                                              [] fetch.sent + 1 = Blocks -> "asked"
                                              [] OTHER -> "asking",
                                    !.sent = IF Blocks = 0 THEN 0 ELSE @ + 1]
          /\ UNCHANGED <<peerVars, us, readBytes, observed, replied, said, buf, got>>
       \/ Blocks > 0 /\ \E how \in {"failed", "timeout"} : Fails(how)

\* read_message: a whole frame leaves the buffer; a cancelled read loses
\* nothing, since what was read stays there.
Reading == us = "open" /\ fetch.at # "asking"
ReadMessage ==
    /\ Reading /\ WholeTalk
    /\ got' = Append(got, Decoded(buf[1][2])) /\ buf' = SubSeq(buf, FrameLen + 1, Len(buf))
    /\ fetch' = MetadataAnswer(buf[1][2])
    /\ us' = IF fetch'.at = "rejected" THEN "failed" ELSE us
    /\ UNCHANGED <<peerVars, readBytes, observed, replied, said>>

Refuses == Reading /\ TooLarge /\ Fails("failed")

ReadMore ==
    /\ Reading /\ ~WholeTalk /\ ~TooLarge /\ wire # <<>>
    /\ \E n \in 1 .. Len(wire) :
          buf' = buf \o SubSeq(wire, 1, n) /\ wire' = SubSeq(wire, n + 1, Len(wire))
    /\ UNCHANGED <<role, protocol, form, talk, todo, closed, us, readBytes, observed, replied, said, got, fetch>>

\* Every wait for the peer ends: closed by the peer, or with_timeout.
Waiting == /\ us \in {"read", "whole", "prefix", "earlyRest", "lateRest"} \/ (Reading /\ ~WholeTalk /\ ~TooLarge)
           /\ wire = <<>>
WaitEnds == Waiting /\ Fails(IF closed THEN "failed" ELSE "timeout")

Ours == Connects \/ WriteFirst \/ WriteFails \/ ReadReply \/ ReadWhole \/ ReadPrefix \/ ReadEarlyId
        \/ ReadRestOfId \/ WriteReply \/ ReadLateId \/ IdReadFails \/ SaysHandshake \/ AskBlock
        \/ ReadMessage \/ Refuses \/ ReadMore \/ WaitEnds
SessionNext == Ours \/ PeerSends \/ PeerCloses
SessionSpec == SessionInit /\ [][SessionNext]_sessionVars

-----------------------------------------------------------------------------
\* A session never loses its place in the stream: the messages decoded are,
\* in order, the ones the peer sent, whichever way the peer id came (with the
\* prefix, after our reply, or not at all) and however the bytes were cut;
\* the bytes taken for a handshake are handshake bytes, and the count of them
\* that a dialler's caller was told is right when the exchange is cancelled
\* too; a peer that asks for another stream is told nothing; and a metadata
\* blob is declared complete only with every block answered, each one intact
\* if the peer's were.
SessionInSync ==
    /\ Len(got) <= Len(talk) /\ \A k \in DOMAIN got : got[k] = Decoded(talk[k])
    /\ \A k \in DOMAIN readBytes : readBytes[k][1] \in {"P", "I1", "I2"}
    /\ role = "dial" /\ protocol = "ace" /\ replied => observed = Len(readBytes)
    /\ role = "accept" /\ form \in {"alien", "other"} => ~replied
    /\ fetch.at = "blob" =>
          /\ \A b \in 0 .. Blocks - 1 : \E k \in DOMAIN got : got[k].kind = "data" /\ got[k].piece = b
          /\ (\A k \in DOMAIN got : got[k].kind = "data" => got[k].size = "exact")
                => \A b \in DOMAIN fetch.blob : fetch.blob[b] = "good"
=============================================================================
