------------------------------- MODULE MCWire -------------------------------
(***************************************************************************)
(* What the node exchanges with others, seven components side by side:     *)
(* announces to trackers (TrackerExchange), the workers of upstream peers  *)
(* and the account of attempts to reach them (Upstreams), bencode and the  *)
(* files that describe content (WireFormats), what live peers tell each    *)
(* other (PeerGossip) and the configuration of an origin (OriginConfig).   *)
(* They share no state, so each is checked alone: `side' says which one a  *)
(* behaviour is about, and the others stay in their initial state.         *)
(***************************************************************************)
EXTENDS TrackerExchange, Upstreams, PeerGossip, OriginConfig

VARIABLE side

Sides == {"tracker", "slots", "trace", "bencode", "descriptors", "gossip", "origin", "pull"}
wireVars ==
  <<side, trackerVars, slotVars, traceVars, bencodeVars, descriptorVars, gossipVars, originVars>>

(* The instances.                                                          *)

\* Two calls of announce: one may be another program at the address of the first
MCIpOf == "s1" :> "a" @@ "s2" :> "b" @@ "s3" :> "v6"
MCWanted ==
  "c1" :> {<<"s1", "h", 1, "started">>}
  @@ "c2" :> {<<"s1", "h", 1, "stopped">>, <<"s2", "h", 1, "other">>, <<"s3", "h", 1, "none">>}
MCSeeds == {<<"h", <<"b", 1>>>>}

\* Transport files: one that is good, and departures from it
Url == <<1, 2>>
Urls == {Url, <<1, 3>>}
Base ==
  [name |-> Text(<<0, 1, 1, 1>>), authmethod |-> Text(<<1>>), pubkey |-> Text(<<>>), bitrate |-> Number(1),
   piece_length |-> Number(4), chunk_length |-> Number(2), trackers |-> Items(<<Text(Url), Number(1)>>),
   categories |-> Items(<<Text(<<0>>), Text(<<1, 0>>), Number(1), Text(<<2>>)>>)]
Premium(v) == "premium" :> v
PiecesOf(v) == "pieces" :> v @@ "length" :> Number(4)
MCTransports ==
  {Base, Premium(Number(0)) @@ Base, Premium(Number(1)) @@ Base, Premium(Text(<<1>>)) @@ Base,
   "license" :> Number(1) @@ Base,
   [Base EXCEPT !.chunk_length = Number(4)], [Base EXCEPT !.piece_length = Number(0)],
   [Base EXCEPT !.piece_length = Number(3)], [Base EXCEPT !.piece_length = Number(6)],
   [Base EXCEPT !.trackers = Number(1), !.categories = Text(<<1>>)],
   [k \in DOMAIN Base \ {"authmethod"} |-> Base[k]],
   PiecesOf(Text(<<1, 2>>)) @@ Base, PiecesOf(Text(<<2, 2>>)) @@ Premium(Number(1)) @@ Base,
   PiecesOf(Text(<<1, 2>>)) @@ "files" :> Items(<<>>) @@ Base, "pieces" :> Text(<<1, 2>>) @@ Base,
   PiecesOf(Text(<<>>)) @@ Base, PiecesOf(Text(<<1>>)) @@ Base}

\* Torrent files
Info == [length |-> Number(5), pieces |-> Text(<<1, 1, 2, 1>>)] @@ ("piece length" :> Number(4))
Torrent(i, tiers) == [info |-> i, announce |-> Text(Url)] @@ ("announce-list" :> Items(tiers))
Tier == <<Items(<<Text(Url)>>)>>
MCTorrents ==
  {[info |-> Fields(Info)]}
    \union {Torrent(i, Tier) : i \in
              {Number(1), Fields(Info), Fields(Premium(Number(1)) @@ Info), Fields(Premium(Text(<<>>)) @@ Info),
               Fields("files" :> Items(<<>>) @@ Info), Fields([Info EXCEPT !.pieces = Text(<<1, 1, 2>>)])}
              \union {Fields([Info EXCEPT !.length = Number(n)]) : n \in {4, 8, 9}}}
    \union {Torrent(Fields(Info), tiers) : tiers \in
              {<<Text(Url)>>, <<Items(<<Text(Url), Text(Url)>>)>>, <<Items(<<Text(<<1, 3>>)>>)>>,
               <<Items(<<Text(<<9>>)>>)>>}}
MCOnDisk == {Torrent(i, Tier) : i \in {Number(1), Fields(Info), Fields(Premium(Number(1)) @@ Info)}}
MCFiles ==
  {File("transport", "none", Fields(t)) : t \in MCTransports}
    \union {File("bare", "none", Fields(t)) : t \in MCTorrents}
    \union {File("disk", "none", Fields(t)) : t \in MCOnDisk}
    \union {File(form, "framing", Fields(Base)) : form \in {"bare", "disk", "transport"}}
    \union {File(form, "none", Number(1)) : form \in {"bare", "disk", "transport"}}

\* Gossip: two windows, one the wrong way round, one unknown, one peer without a port
Record(ip, port, long, min, max) == [ip |-> ip, port |-> port, long |-> long, min |-> min, max |-> max]
MCRecords ==
  {Record(1, 1, TRUE, 1, 2), Record(2, 1, TRUE, 3, 3), Record(3, 1, TRUE, 3, 2), Record(4, 0, FALSE, 1, 2),
   Record(5, 1, TRUE, 1, 9)}

\* Requests within, across, before and beyond what is kept
MCRequests ==
  {Request(s, p, c) : s \in {0, 1}, p \in 0 .. 2, c \in {0, 1}} \union {ChunkRequest(1, 2), Short, Other}
    \union {Block(p, b, n) : p \in {0, 2}, b \in 0 .. 3, n \in {1, 2}}
    \union {Block(2, 0, 0), Block(2, 1, 3), Block(2, 0, 4), Block(2, 3, 3)}

\* Two broadcasts, and the maps that an operator may write over several starts
One == <<1>>
Two == <<2>>
Names == {One, Two}
Nameless == {<<0>>}
MCOldNames == {Two}
OperatorMap(padding, entries) == [padding |-> padding, entries |-> entries]
Entry(name, fields) == <<<<name, fields>>>>
GoodOptions ==
  {OperatorMap(0, <<>>),
   OperatorMap(1, Entry(One, <<<<"title", Text(<<3>>)>>, <<"piece_length", Number(4)>>>>)),
   OperatorMap(0, Entry(One, <<<<"bitrate", Number(2)>>, <<"categories", Items(<<Text(<<5>>)>>)>>>>) \o Entry(Two, <<>>)),
   OperatorMap(0, Entry(Two, <<<<"quality", Text(<<2>>)>>>>))}
BadOptions ==
  {OperatorMap(0, Entry(One, <<<<"piece_length", Number(2)>>, <<"piece_length", Number(4)>>>>)),
   OperatorMap(0, Entry(One, <<<<"piece_length", Number(3)>>>>)),
   OperatorMap(9, Entry(One, <<>>)), OperatorMap(0, Entry(<<0>>, <<>>)), OperatorMap(0, Entry(One, <<>>) \o Entry(One, <<>>))}
PulledFrom == <<<<"url", "good">>, <<"connect", 5>>, <<"initial", 2>>, <<"max", 12>>>>
GoodSources == {OperatorMap(0, <<>>), OperatorMap(0, Entry(One, PulledFrom))}
BadSources ==
  {OperatorMap(1, Entry(One, PulledFrom))}
    \union {OperatorMap(0, Entry(One, fields)) : fields \in
              {<<<<"url", "bad">>>>, <<<<"url", "good">>, <<"initial", 3>>, <<"max", 2>>>>, <<<<"connect", 5>>>>}}
Environment(options, sources, bytes) == [options |-> options, sources |-> sources, bytes |-> bytes]
MCEnvironments ==
  {Environment(o, s, bytes) : o \in GoodOptions, s \in GoodSources, bytes \in {2, 4}}
    \union {Environment(o, OperatorMap(0, <<>>), 4) : o \in BadOptions}
    \union {Environment(OperatorMap(0, <<>>), s, 4) : s \in BadSources}
    \union {Environment(OperatorMap(0, <<>>), OperatorMap(0, <<>>), 1)}

(* The components side by side.                                            *)

WireInit ==
  /\ side \in Sides
  /\ TrackerInit /\ SlotsInit /\ TraceInit /\ BencodeInit /\ DescriptorsInit /\ GossipInit /\ OriginInit

WireNext ==
  /\ UNCHANGED side
  /\ \/ /\ side = "tracker" /\ TrackerNext
        /\ UNCHANGED <<slotVars, traceVars, bencodeVars, descriptorVars, gossipVars, originVars>>
     \/ /\ side = "slots" /\ SlotsNext
        /\ UNCHANGED <<trackerVars, traceVars, bencodeVars, descriptorVars, gossipVars, originVars>>
     \/ /\ side = "trace" /\ TraceNext
        /\ UNCHANGED <<trackerVars, slotVars, bencodeVars, descriptorVars, gossipVars, originVars>>
     \/ /\ side = "bencode" /\ BencodeNext
        /\ UNCHANGED <<trackerVars, slotVars, traceVars, descriptorVars, gossipVars, originVars>>
     \/ /\ side = "descriptors" /\ DescriptorsNext
        /\ UNCHANGED <<trackerVars, slotVars, traceVars, bencodeVars, gossipVars, originVars>>
     \/ /\ side = "gossip" /\ GossipNext
        /\ UNCHANGED <<trackerVars, slotVars, traceVars, bencodeVars, descriptorVars, originVars>>
     \/ /\ side \in {"origin", "pull"}
        /\ OriginNext /\ (side = "pull" => boots' = 1)
        /\ UNCHANGED <<trackerVars, slotVars, traceVars, bencodeVars, descriptorVars, gossipVars>>
     \/ /\ side = "pull" /\ PullNext
        /\ UNCHANGED <<trackerVars, slotVars, traceVars, bencodeVars, descriptorVars, gossipVars>>

InSlots(step) ==
  side = "slots" /\ step
    /\ UNCHANGED <<side, trackerVars, traceVars, bencodeVars, descriptorVars, gossipVars, originVars>>

\* The runtime destroys a task that was aborted.  The pool's loop polls the retired
\* workers in every turn, and its end awaits the others one after the other; a permit
\* that is free goes to the activation that waits for it.  A worker that was not told
\* to stop may run as long as it likes, and so may a pool.
SlotsFairness ==
  /\ \A i \in PeerIds : /\ WF_slotVars(InSlots(task[i] = "aborted" /\ WorkerEnds(i)))
                        /\ WF_slotVars(InSlots(PollRetired(i)))
                        /\ WF_slotVars(InSlots(FinishRetired(i)))
  /\ WF_slotVars(InSlots(Acquire))
  /\ WF_slotVars(InSlots(ReleaseJoined))
  /\ WF_slotVars(InSlots(PoolOver))

WireSpec == WireInit /\ [][WireNext]_wireVars /\ SlotsFairness

\* What is read is what was written: the two readers of bencode agree and what they
\* read can be written again, an identity binds the file it was computed from
\* (WireFormats), what a peer says, asks for or passes on is read
\* as it was meant and answered as it was asked (PeerGossip), an origin
\* starts only from a configuration that is whole (OriginConfig), and the figures of
\* a summary of attempts agree with each other (Upstreams).
ExchangeIsSound ==
  /\ side = "bencode" => BencodeIsSound
  /\ side = "descriptors" => DescriptorsAreSound
  /\ side = "gossip" => GossipIsSound
  /\ side \in {"origin", "pull"} => OriginIsSane
  /\ side = "trace" => StatsAgree
=============================================================================
