----------------------------- MODULE MCNetwork ------------------------------
(***************************************************************************)
(* The origin and its peers, eight components side by side: a broadcast    *)
(* with its durable cursor (Broadcast), publishers over RTMP (RtmpIngest), *)
(* pieces cut from a stream and put together again, and the store that is  *)
(* seeded from (PieceFlow, in two parts), the registry that admits         *)
(* leechers (SeedRegistry), and, on the way in, the admission of peers to a*)
(* pool (PeerAdmission), the cache of known peers (WarmPeers) and a peer's *)
(* connection (PeerSession). They share no state, so each is checked alone:*)
(* `part' says which one a behaviour is about, and the others stay in their*)
(* initial state.                                                          *)
(***************************************************************************)
EXTENDS Broadcast, RtmpIngest, PieceFlow, SeedRegistry, PeerAdmission, WarmPeers, PeerSession, TLC

VARIABLE part

\* Two leechers of one infohash, which a broadcast under another key may claim
MCLeechers == "l1" :> "i" @@ "l2" :> "i"
MCBroadcasters == "b1" :> <<"i", "c">>

\* A policy that admits anybody, and one that names a peer; a source that is new and
\* a relay that is known
MCPolicies == {{}, {"a"}}
MCRumours == {<<"c", "source">>, <<"a", "pex">>}

\* Sources of two swarms, and the peers of those and of a third that an earlier
\* process left: every limit is reached by one more source
MCSightings == {<<"t", "a", TRUE>>, <<"s", "a", TRUE>>}
MCOldRows ==
  {{<<"t", "b", FALSE>>, <<"t", "c", FALSE>>, <<"s", "c", FALSE>>}, {<<"t", "b", TRUE>>, <<"u", "c", FALSE>>}}

Block(p, s) == [kind |-> "data", piece |-> p, size |-> s]
Sends(k) == [kind |-> k]

\* Blocks in and out of turn, too short, too long and repeated, between other messages
MCTalks ==
  {<<Sends("plain"), Block(1, "exact"), Block(1, "exact"), Block(0, "exact"), Sends("odd")>>,
   <<Block(0, "short"), Sends("alive"), Block(2, "exact"), Block(1, "exact")>>,
   <<Block(1, "exact"), Block(0, "long"), Sends("huge")>>,
   <<Sends("handshake"), Block(-1, "exact"), Sends("garbled"), Sends("request"), Sends("reject"), Sends("unknown")>>}

NetParts == {"broadcast", "rtmp", "assembly", "store", "seeds", "admission", "warm", "session"}
netVars == <<part, broadcastVars, rtmpVars, assemblyVars, storeVars, seedVars,
              admissionVars, warmVars, sessionVars>>

\* A component that is not the one looked at starts in one fixed state
NetInit ==
  /\ part \in NetParts
  /\ BroadcastInit /\ RtmpInit /\ AssemblyInit /\ StoreInit
  /\ SeedInit /\ AdmissionInit /\ WarmInit /\ SessionInit
  /\ part = "broadcast" \/ disk = NoRecord
  /\ part = "assembly" \/ keyed
  /\ part = "store" \/ backend = "memory"
  /\ part = "admission" \/ policy = {}
  /\ part = "warm" \/ Cardinality(file.rows) = 2
  /\ part = "session" \/ (role = "dial" /\ protocol = "ace" /\ form = "full" /\ talk = CHOOSE t \in Talks : TRUE)

NetNext ==
  \/ /\ part = "broadcast" /\ BroadcastNext
     /\ UNCHANGED <<part, rtmpVars, assemblyVars, storeVars, seedVars, admissionVars,
                   warmVars, sessionVars>>
  \/ /\ part = "rtmp" /\ RtmpNext
     /\ UNCHANGED <<part, broadcastVars, assemblyVars, storeVars, seedVars,
                   admissionVars, warmVars, sessionVars>>
  \/ /\ part = "assembly" /\ AssemblyNext
     /\ UNCHANGED <<part, broadcastVars, rtmpVars, storeVars, seedVars, admissionVars,
                   warmVars, sessionVars>>
  \/ /\ part = "store" /\ StoreNext
     /\ UNCHANGED <<part, broadcastVars, rtmpVars, assemblyVars, seedVars,
                   admissionVars, warmVars, sessionVars>>
  \/ /\ part = "seeds" /\ SeedNext
     /\ UNCHANGED <<part, broadcastVars, rtmpVars, assemblyVars, storeVars,
                   admissionVars, warmVars, sessionVars>>
  \/ /\ part = "admission" /\ AdmissionNext
     /\ UNCHANGED <<part, broadcastVars, rtmpVars, assemblyVars, storeVars, seedVars,
                   warmVars, sessionVars>>
  \/ /\ part = "warm" /\ WarmNext
     /\ UNCHANGED <<part, broadcastVars, rtmpVars, assemblyVars, storeVars, seedVars,
                   admissionVars, sessionVars>>
  \/ /\ part = "session" /\ SessionNext
     /\ UNCHANGED <<part, broadcastVars, rtmpVars, assemblyVars, storeVars, seedVars,
                   admissionVars, warmVars>>

NetSpec == NetInit /\ [][NetNext]_netVars

\* The origin and its peers, as far as every step of every part is concerned: the
\* stream put together from pieces is the stream that was cut, and the store accounts
\* for every chunk it keeps, in memory and on disk (PieceFlow); what a publisher sends
\* over RTMP is numbered without a gap (RtmpIngest); no candidate is dialled against
\* the policy or out of turn (PeerAdmission), the file of known peers is whole after
\* any crash, holds what was acknowledged and can be read back (WarmPeers), and both
\* ends of a connection agree on where a message starts (PeerSession).
NetworkIsSound ==
  /\ part = "assembly" => StreamIsFaithful
  /\ part = "store" => StoreIsSound
  /\ part = "rtmp" => StreamsAreContinuous
  /\ part = "admission" => AdmissionIsSound
  /\ part = "warm" => WarmCacheIsSound
  /\ part = "session" => SessionInSync
=============================================================================
