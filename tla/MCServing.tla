----------------------------- MODULE MCServing ------------------------------
(***************************************************************************)
(* What a node gives and fetches under fairness, three components side by  *)
(* side: the sources of a broadcast (Broadcast), the choking and the       *)
(* announcements of a seeder (SeedServing) and the download of a file      *)
(* (VodDownload).  They share no state, so each is checked alone: `part'   *)
(* says which one a behaviour is about, the others stay as they began.     *)
(***************************************************************************)
EXTENDS Broadcast, SeedServing, VodDownload

VARIABLE part

ServingParts == {"source", "seeder", "download"}
upVars == <<part, broadcastVars, servingVars, vodVars>>

UpInit ==
  /\ part \in ServingParts
  /\ BroadcastInit /\ ServingInit /\ VodInit
  /\ part = "source" \/ disk = NoRecord

UpNext ==
  \/ part = "source" /\ BroadcastNext /\ UNCHANGED <<part, servingVars, vodVars>>
  \/ part = "seeder" /\ ServingNext /\ UNCHANGED <<part, broadcastVars, vodVars>>
  \/ part = "download" /\ VodNext /\ UNCHANGED <<part, broadcastVars, servingVars>>

\* The fairness of each module, asked of the component the behaviour is about
UpFairness ==
  /\ LET Here == part = "source" IN
       /\ WF_broadcastVars(Here /\ Job) /\ WF_broadcastVars(Here /\ Stop)
       /\ WF_broadcastVars(Here /\ (PersistChanges \/ PersistSyncs))
       /\ WF_broadcastVars(Here /\ InitLoads) /\ WF_broadcastVars(Here /\ InitSettles)
       /\ \A k \in ProducerKinds : /\ WF_broadcastVars(Here /\ PrepareRefused(k))
                                   /\ WF_broadcastVars(Here /\ RegisterRefused(k))
                                   /\ WF_broadcastVars(Here /\ auth.cancel /\ ProducerEnds(k))
       /\ WF_broadcastVars(Here /\ Gate) /\ WF_broadcastVars(Here /\ auth.cancel /\ SourceExits)
       /\ WF_broadcastVars(Here /\ DetachGate) /\ WF_broadcastVars(Here /\ DetachDone)
  /\ LET Here == part = "seeder" IN
       /\ WF_servingVars(Here /\ Rechoke)
       /\ \A op \in ServedPeers \cup {"rechoke"} : WF_servingVars(Here /\ Recompute(op))
       /\ \A p \in ServedPeers : SF_servingVars(Here /\ AdvanceLiveEdge(p))
  /\ LET Here == part = "download" IN
       /\ WF_vodVars(Here /\ CoordinatorStep)
       /\ \A a \in VodPeers : /\ WF_vodVars(Here /\ WorkerConnects(a))
                              /\ WF_vodVars(Here /\ (WorkerGivesUp(a) \/ WorkerFetched(a)))

UpSpec == UpInit /\ [][UpNext]_upVars /\ UpFairness

\* A choke follows the choker's choice (SeedServing); a piece of a download has
\* one owner and nobody gives up early (VodDownload).
SharingIsSound == ChokeIsCurrent /\ DownloadIsSound

\* Nobody waits for good: a stop of a broadcast settles, every interested peer is
\* unchoked in turn and hears of the live edge, and a download ends unless its own
\* consumer does not read, however its peers connect, stall, lie or go silent.
EveryoneIsServed ==
  /\ StopsSettle /\ EveryoneGetsATurn /\ EdgeIsTold
  /\ []<>(part = "download" => outcome # "none" \/ AwaitsConsumer)
=============================================================================
