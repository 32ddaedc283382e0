--------------------------- MODULE TrackerExchange ---------------------------
(***************************************************************************)
(* An announce to a UDP tracker (ace-tracker: codec.rs, client.rs) and the *)
(* tracker of the test swarms that answers it (swarmtest/src/tracker.rs).  *)
(* A call connects, announces and returns the peers of the answer; the     *)
(* first datagram that arrives decides each half of it.                    *)
(*                                                                         *)
(* Datagrams stay on the wire once sent: one may arrive late, twice or     *)
(* never, and a socket address that is used again still gets the answers   *)
(* to its last owner.  The random transaction ids are taken to be fresh.   *)
(* The connection id is left out: the tracker draws one at random and      *)
(* never looks at the one it is shown.                                     *)
(***************************************************************************)
EXTENDS Integers, Sequences, FiniteSets

CONSTANTS
  Announces,   \* calls of announce, of this node or of another program
  Wanted,      \* per call: the sockets, hashes, ports and events it may be made with
  Seeds,       \* the peers the harness may seed, with their hashes
  Sockets,     \* local addresses the calls are bound to
  IpOf,        \* the v4 address of a socket, or "v6"
  SwarmHashes, \* infohashes
  Ports,       \* ports the callers listen on
  BufferPeers, \* peers that fit in the 4096 bytes of the client
  MaxJournal   \* bound: announces that the tracker takes

VARIABLES
  call,     \* per call: where it is, its arguments, its result
  wire,     \* datagrams sent so far
  registry, \* State::peers: how often each peer is listed under each hash
  journal,  \* announces in the order the tracker took them
  seeded,   \* seed_peer: peers the harness put in
  serving   \* the tracker task is running

trackerVars == <<call, wire, registry, journal, seeded, serving>>

TrackerPeers == ({IpOf[s] : s \in Sockets} \ {"v6"}) \X Ports

\* AnnounceEvent as the wire carries it; "other" is a number without a name
WireEvents == {"none", "completed", "started", "stopped", "other"}

ASSUME TrackerAssumption ==
  /\ BufferPeers \in Nat /\ MaxJournal \in Nat /\ IpOf \in [Sockets -> STRING]
  /\ Wanted \in [Announces -> SUBSET (Sockets \X SwarmHashes \X Ports \X WireEvents)]
  /\ Seeds \subseteq SwarmHashes \X TrackerPeers

\* parse_announce_request: the event is advisory
EventRead(e) == IF e = "other" THEN "none" ELSE e

NoCall == [at |-> "idle"]
Asked(s, h, p, e, at, why) ==
  [at |-> at, socket |-> s, hash |-> h, port |-> p, event |-> e, why |-> why, peers |-> {}]

TrackerInit ==
  /\ call = [a \in Announces |-> NoCall]
  /\ wire = {} /\ journal = <<>> /\ seeded = {} /\ serving = TRUE
  /\ registry = [h \in SwarmHashes |-> [p \in TrackerPeers |-> 0]]

-----------------------------------------------------------------------------
(* The client.                                                             *)

\* The transaction ids of the two halves of a call
ConnectTx(a) == <<a, 1>>
AnnounceTx(a) == <<a, 2>>

ConnectRequest(a, s) == [to |-> "tracker", from |-> s, kind |-> "connect", tx |-> ConnectTx(a)]
AnnounceRequest(a) ==
  [to |-> "tracker", from |-> call[a].socket, kind |-> "announce", tx |-> AnnounceTx(a),
   hash |-> call[a].hash, port |-> call[a].port, event |-> call[a].event]

Fails(a, why) == call' = [call EXCEPT ![a].at = "failed", ![a].why = why] /\ UNCHANGED wire
Waiting(a) == call[a].at \in {"connecting", "announcing"}

\* announce: a socket is bound and the connect request sent, or one of the two fails
AnnounceBegins(a, s, h, p, e) ==
  /\ call[a] = NoCall
  /\ \A b \in Announces : Waiting(b) => call[b].socket # s
  /\ \/ /\ call' = [call EXCEPT ![a] = Asked(s, h, p, e, "connecting", "none")]
        /\ wire' = wire \union {ConnectRequest(a, s)}
     \/ /\ call' = [call EXCEPT ![a] = Asked(s, h, p, e, "failed", "io")]
        /\ UNCHANGED wire
  /\ UNCHANGED <<registry, journal, seeded, serving>>

\* Variant: any reply of the right kind will do.
RefusalAnyTransaction(d, tx, kind) ==
  IF d.kind = "short" THEN "malformed"
  ELSE IF d.kind = "error" /\ kind = "announced" THEN "tracker"
  ELSE IF d.kind # kind THEN "malformed"
  ELSE "none"

\* Why a reply is not the one waited for, in the order the parsers look
Refusal(d, tx, kind) ==
  IF d.kind = "short" THEN "malformed"
  ELSE IF d.tx # tx THEN "mismatch"
  ELSE IF d.kind = "error" /\ kind = "announced" THEN "tracker"
  ELSE IF d.kind # kind THEN "malformed"
  ELSE "none"

\* parse_connect_response, and the announce that follows it at once
ConnectReply(a, d) ==
  /\ call[a].at = "connecting" /\ d \in wire /\ d.to = call[a].socket
  /\ LET why == Refusal(d, ConnectTx(a), "connected") IN
     \/ /\ why = "none"
        /\ call' = [call EXCEPT ![a].at = "announcing"]
        /\ wire' = wire \union {AnnounceRequest(a)}
     \/ why # "none" /\ Fails(a, why)
     \/ why = "none" /\ Fails(a, "io")
  /\ UNCHANGED <<registry, journal, seeded, serving>>

\* The peers left of a reply that is longer than the buffer
CutToBuffer(peers) ==
  {kept \in SUBSET peers : Cardinality(kept) <= BufferPeers
                           /\ (kept = peers \/ Cardinality(kept) = BufferPeers)}

\* parse_announce_response
AnnounceReply(a, d) ==
  /\ call[a].at = "announcing" /\ d \in wire /\ d.to = call[a].socket
  /\ LET why == Refusal(d, AnnounceTx(a), "announced") IN
     \/ /\ why = "none"
        /\ \E kept \in CutToBuffer(d.peers) :
             call' = [call EXCEPT ![a].at = "done", ![a].peers = kept]
        /\ UNCHANGED wire
     \/ why # "none" /\ Fails(a, why)
  /\ UNCHANGED <<registry, journal, seeded, serving>>

\* recv: RECV_TIMEOUT passes without a datagram, or the socket reports an error
ReplyMissing(a) ==
  /\ Waiting(a) /\ \E why \in {"timeout", "io"} : Fails(a, why)
  /\ UNCHANGED <<registry, journal, seeded, serving>>

-----------------------------------------------------------------------------
(* The tracker.                                                            *)

\* seed_peer: the harness lists a peer that never announces
Seed(h, p) ==
  /\ registry' = [registry EXCEPT ![h][p] = IF @ = 0 THEN 1 ELSE @]
  /\ seeded' = seeded \union {<<h, p>>}
  /\ UNCHANGED <<call, wire, journal, serving>>

\* handle_datagram, a connect request
TakeConnect(d) ==
  /\ serving /\ d \in wire /\ d.to = "tracker" /\ d.kind = "connect"
  /\ wire' = wire \union {[to |-> d.from, kind |-> "connected", tx |-> d.tx]}
  /\ UNCHANGED <<call, registry, journal, seeded, serving>>

\* The registry after an announce: only a v4 source is listed, and a stop delists it
Registered(d) ==
  IF IpOf[d.from] = "v6" THEN registry
  ELSE [registry EXCEPT ![d.hash][<<IpOf[d.from], d.port>>] =
          IF EventRead(d.event) = "stopped" THEN 0 ELSE IF @ = 0 THEN @ + 1 ELSE @]

\* The peers of a reply: everybody listed but the one that announces
Others(listed, d) == {p \in TrackerPeers : listed[p] > 0 /\ p # <<IpOf[d.from], d.port>>}

\* handle_datagram, an announce: it is journalled, registered and answered
TakeAnnounce(d) ==
  /\ serving /\ Len(journal) < MaxJournal
  /\ d \in wire /\ d.to = "tracker" /\ d.kind = "announce"
  /\ journal' = Append(journal, [ip |-> IpOf[d.from], port |-> d.port, hash |-> d.hash,
                                 event |-> EventRead(d.event)])
  /\ registry' = Registered(d)
  /\ wire' = wire \union {[to |-> d.from, kind |-> "announced", tx |-> d.tx,
                           peers |-> Others(registry'[d.hash], d)]}
  /\ UNCHANGED <<call, seeded, serving>>

\* A tracker of someone else may refuse the announce, or answer with too little
TakeElsewhere(d) ==
  /\ d \in wire /\ d.to = "tracker" /\ d.kind = "announce"
  /\ \E kind \in {"error", "short"} :
       wire' = wire \union {[to |-> d.from, kind |-> kind, tx |-> d.tx]}
  /\ UNCHANGED <<call, registry, journal, seeded, serving>>

\* TrackerHandle::shutdown
TrackerStops ==
  /\ serving /\ serving' = FALSE
  /\ UNCHANGED <<call, wire, registry, journal, seeded>>

TrackerNext ==
  \/ \E a \in Announces :
       \/ \E w \in Wanted[a] : AnnounceBegins(a, w[1], w[2], w[3], w[4])
       \/ \E d \in wire : ConnectReply(a, d) \/ AnnounceReply(a, d)
       \/ ReplyMissing(a)
  \/ \E w \in Seeds : Seed(w[1], w[2])
  \/ \E d \in wire : TakeConnect(d) \/ TakeAnnounce(d) \/ TakeElsewhere(d)
  \/ TrackerStops

TrackerSpec == TrackerInit /\ [][TrackerNext]_trackerVars

-----------------------------------------------------------------------------
(* What holds.                                                             *)

\* The announces of a peer for a hash, by their place in the journal
EntriesOf(h, p) == {i \in 1 .. Len(journal) : /\ journal[i].hash = h
                                              /\ <<journal[i].ip, journal[i].port>> = p}

\* handle_datagram and seed_peer_into list a peer once, and the list is what the
\* journal says: unless the harness seeded it, a peer is listed exactly when the
\* last of its announces for that hash was no stop.
RegistryFollowsJournal ==
  \A h \in SwarmHashes, p \in TrackerPeers :
    /\ registry[h][p] \in {0, 1}
    /\ <<h, p>> \notin seeded =>
         (registry[h][p] = 1 <=>
            \E i \in EntriesOf(h, p) : /\ journal[i].event # "stopped"
                                       /\ \A j \in EntriesOf(h, p) : j <= i)

\* announce: whatever else reached its socket, a call that succeeds returns what
\* the tracker answered to that very announce.  The announce is in the journal,
\* every peer returned is one that was seeded or has announced itself for the same
\* hash, and none of them is the caller.
ResultIsOwn ==
  \A a \in Announces : call[a].at = "done" =>
    LET me == <<IpOf[call[a].socket], call[a].port>> IN
    /\ \E i \in EntriesOf(call[a].hash, me) : journal[i].event = EventRead(call[a].event)
    /\ \A p \in call[a].peers :
         /\ p # me
         /\ <<call[a].hash, p>> \in seeded
            \/ \E i \in EntriesOf(call[a].hash, p) : journal[i].event # "stopped"

TrackerIsSound == RegistryFollowsJournal /\ ResultIsOwn
=============================================================================
