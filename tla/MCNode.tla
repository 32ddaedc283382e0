------------------------------- MODULE MCNode -------------------------------
(***************************************************************************)
(* The node around the streams, six components side by side: the search    *)
(* for peers (Discovery), the resolution of content ids (Resolution), the  *)
(* port mapping (PortMap), the process (Daemon), the leases of the         *)
(* compatibility API (AceLeases) and the reads of files (VodReads).  They  *)
(* share no state, so each is checked alone: `part' says which one a       *)
(* behaviour is about, and the others stay in their initial state.         *)
(***************************************************************************)
EXTENDS Discovery, Resolution, PortMap, Daemon, AceLeases, VodReads

VARIABLE part

Parts == {"discovery", "resolution", "portmap", "daemon", "leases", "reads"}
nodeVars == <<part, discoveryVars, resolutionVars, portMapVars, daemonVars, leaseVars, readsVars>>

(* The instances.                                                          *)

\* A bootstrap contact and a tracker that the resolver is asked for
MCBoots == 8 :> "r" @@ 9 :> "s"
MCContacts == {<<1, "n">>}

Question(kind, key, purpose) == <<<<kind, key>>, purpose>>

\* What two callers may ask: one opens while the other prepares or inspects
MCAsked ==
  "r1" :> {Question("cid", "c", "open"), Question("cid", "d", "prepare"), Question("infohash", "h", "open"),
           Question("url", "u", "open"), Question("local", "a", "open")}
  @@ "r2" :> {Question("cid", "c", "prepare"), Question("infohash", "h", "prepare"),
              Question("infohash", "h", "open"), Question("url", "u", "prepare"), Question("vod", "c", "open"),
              Question("vod", "d", "open"), Question("cid", "c", "inspect"), Question("infohash", "h", "inspect")}
MCOwnIds == {<<"vod", "d">>}

\* A configuration that starts, from which each of the others departs
Valid ==
  [cmd |-> "serve", input |-> [form |-> "query", keys |-> {"magnet"}, good |-> TRUE],
   unparsed |-> FALSE, broken |-> {}, private |-> FALSE, inbound |-> "unset",
   mapping |-> "unset", trackers |-> <<>>, descriptors |-> FALSE, denied |-> "none",
   support |-> FALSE, disk |-> FALSE, around |-> FALSE, session |-> 1, storeBytes |-> 100,
   buffer |-> [target |-> 1, timeout |-> 1, bytes |-> 188],
   hls |-> [packets |-> 3, window |-> 1, duration |-> 1, startup |-> 0, timeout |-> 1],
   recovery |-> [request |-> 2, stale |-> 3, check |-> 1, upstreams |-> 1, connect |-> 1,
                 advance |-> 1, ahead |-> 1]]

\* The last two bytes of a file, its second segment, its manifest
MCWishes == {<<"range", -1, 2>>, <<"segment", 1>>, <<"manifest">>}

MCEnvironments ==
  {[Valid EXCEPT !.mapping = "on"],
   [Valid EXCEPT !.disk = TRUE, !.support = TRUE, !.trackers = <<"bad", "udp", "other">>],
   [Valid EXCEPT !.disk = TRUE, !.around = TRUE],
   [Valid EXCEPT !.disk = TRUE, !.broken = {"hls"}],
   [Valid EXCEPT !.unparsed = TRUE],
   [Valid EXCEPT !.hls.packets = 349],
   [Valid EXCEPT !.hls.window = 200],
   [Valid EXCEPT !.recovery.check = 3],
   [Valid EXCEPT !.storeBytes = 9000],
   [Valid EXCEPT !.private = TRUE, !.descriptors = TRUE],
   [Valid EXCEPT !.private = TRUE, !.inbound = "on"],
   [Valid EXCEPT !.descriptors = TRUE],
   [Valid EXCEPT !.support = TRUE, !.inbound = "off"],
   [Valid EXCEPT !.cmd = "broadcast", !.inbound = "off", !.trackers = <<"bad">>],
   [Valid EXCEPT !.cmd = "broadcast", !.private = TRUE],
   [Valid EXCEPT !.cmd = "play", !.disk = TRUE],
   [Valid EXCEPT !.cmd = "play", !.input = [form |-> "magnet", keys |-> {}, good |-> FALSE]],
   [Valid EXCEPT !.cmd = "play", !.input = [form |-> "acestream", keys |-> {}, good |-> TRUE]],
   [Valid EXCEPT !.cmd = "play", !.private = TRUE, !.denied = "argument"],
   [Valid EXCEPT !.private = TRUE, !.denied = "environment"]}

(* The components side by side.                                            *)

\* A component that is not the one looked at starts in one fixed state
NodeInit ==
  /\ part \in Parts
  /\ DiscoveryInit /\ ResolutionInit /\ PortMapInit /\ DaemonInit
  /\ AceInit /\ ReadsInit
  /\ part = "discovery" \/ names = CHOOSE s \in SetToSeqs({Boot(b) : b \in BootKeys}) : TRUE
  /\ part = "resolution" \/ mode = [private |-> FALSE, bootstrap |-> FALSE, fallback |-> FALSE]
  /\ part = "resolution" \/ locals = LoadedLocals([a \in Aliases |-> CHOOSE f \in LocalFiles : Admissible(f)])
  /\ part = "daemon" \/ ~disk.cache.dir

NodeNext ==
  \/ /\ part = "discovery" /\ DiscoveryNext
     /\ UNCHANGED <<part, resolutionVars, portMapVars, daemonVars, leaseVars, readsVars>>
  \/ /\ part = "resolution" /\ ResolutionNext
     /\ UNCHANGED <<part, discoveryVars, portMapVars, daemonVars, leaseVars, readsVars>>
  \/ /\ part = "portmap" /\ PortMapNext
     /\ UNCHANGED <<part, discoveryVars, resolutionVars, daemonVars, leaseVars, readsVars>>
  \/ /\ part = "daemon" /\ DaemonNext
     /\ UNCHANGED <<part, discoveryVars, resolutionVars, portMapVars, leaseVars, readsVars>>
  \/ /\ part = "leases" /\ AceNext
     /\ UNCHANGED <<part, discoveryVars, resolutionVars, portMapVars, daemonVars, readsVars>>
  \/ /\ part = "reads" /\ ReadsNext
     /\ UNCHANGED <<part, discoveryVars, resolutionVars, portMapVars, daemonVars, leaseVars>>

\* The fairness of each module, asked of the component the behaviour is about
NodeFairness ==
  /\ LET Here == part = "discovery" IN
       /\ WF_discoveryVars(Here /\ Passes) /\ WF_discoveryVars(Here /\ TrackerStarts)
       /\ WF_discoveryVars(Here /\ (WalkTurn \/ WalkAsks \/ WindowEnds))
       /\ WF_discoveryVars(Here /\ DeadlinePasses) /\ WF_discoveryVars(Here /\ WalkReturns)
       /\ WF_discoveryVars(Here /\ (ForwardTakes \/ ForwardSends))
       /\ WF_discoveryVars(Here /\ SourcesEnd) /\ WF_discoveryVars(Here /\ ForwardEnds)
       /\ WF_discoveryVars(Here /\ RunAborts)
       /\ \A t \in Trackers : /\ WF_discoveryVars(Here /\ (TrackerResolved(t) \/ TrackerTimesOut(t)))
                              /\ WF_discoveryVars(Here /\ TrackerSends(t))
  /\ LET Here == part = "resolution" IN
       /\ \A r \in Askers : WF_resolutionVars(Here /\ AskerSteps(r))
       /\ \A c \in ContentIds, g \in 1 .. Cardinality(Askers) :
            WF_resolutionVars(/\ Here /\ g <= Len(outcomes)
                              /\ \E result \in CatalogResults : AttemptEnds(c, g, result))
  /\ LET Here == part = "portmap" IN
       /\ WF_portMapVars(Here /\ MapperSteps) /\ WF_portMapVars(Here /\ Relays)
       /\ \A a \in Announcers : WF_portMapVars(Here /\ AnnouncerSteps(a))
  /\ LET Here == part = "daemon" IN
       WF_daemonVars(Here /\ StartupSteps) /\ WF_daemonVars(Here /\ ShutdownSteps)
  /\ LET Here == part = "leases" IN
       /\ WF_leaseVars(Here /\ ReaperLooks) /\ WF_leaseVars(Here /\ ReaperSleeps)
       /\ WF_leaseVars(Here /\ AceTick)
       /\ \A t \in AceTokens :
            /\ WF_leaseVars(Here /\ MintHls(t))
            /\ WF_leaseVars(/\ Here /\ BodyMustEnd(t)
                            /\ IF t \in HlsTokens THEN HlsAnswer(t) ELSE BodyEnds(t))
  /\ \A r \in VodReaders : WF_readsVars(part = "reads" /\ ReaderStep(r))

NodeSpec == NodeInit /\ [][NodeNext]_nodeVars /\ NodeFairness

\* Search, resolution, mapping, start-up and reads keep what they promise at every
\* moment: replies are matched to queries and a peer is reported once, one
\* attempt answers all who wait for an id and a private node asks nobody outside,
\* a mapped port is on offer only while its mapping is looked after, a start costs
\* the operator no file of someone else's, and a reader gets, byte for byte and in
\* order, the start of what it asked for.  (LeasesAreSound speaks of the leases.)
NodeIsSound == DiscoveryIsSound /\ ResolutionIsSound /\ PortIsHonest /\ DaemonIsSafe /\ ReadIsSound

\* The clients of these instances ask a bounded number of times, so at the end
\* nobody may be left waiting: a search for peers is over, a question is answered,
\* a lease without a client is given back and its body has ended, a read of a file
\* is over, a process told to stop is gone once its clients are.  And a port that
\* is no longer mapped is no longer announced.
NodeSettled ==
  /\ part = "discovery" => DiscoveryOver
  /\ AsksAnswered /\ LeasesOver /\ ReadsOver /\ SignalObeyed
NodeEnds == []<>NodeSettled /\ PortFallsBack
=============================================================================
