--------------------------- MODULE ExchangeProofs ---------------------------
(***************************************************************************)
(* Proofs about the node's exchanges with others: the permits of upstream  *)
(* workers and the account of an attempt to connect (Upstreams), and an    *)
(* announce to a tracker (TrackerExchange).                                *)
(***************************************************************************)
EXTENDS Upstreams, TrackerExchange, FiniteSetTheorems, TLAPS

(***************************************************************************)
(* The permits.  What makes SlotsAreSound inductive: while a pool is       *)
(* filled or runs, the peers with a registered permit are exactly those of *)
(* its map; ids grow, so that the next one is nobody's; nothing is retired *)
(* while a pool is filled, for nothing is replaced then; and an activation *)
(* exists in a pool only.                                                  *)
(***************************************************************************)
SlotTypes ==
  /\ pool \in {"none", "filling", "running", "ending"} /\ pools \in Nat /\ toFill \in Nat
  /\ nextId \in Nat /\ slots \in Nat
  /\ job \in [at : {"none", "waiting", "writing", "written"}, id : Nat, replaces : Nat]
  /\ held \subseteq PeerIds /\ retired \subseteq PeerIds /\ runtimes \subseteq PeerIds
  /\ task \in [PeerIds -> {"none", "running", "aborted", "gone"}]

SlotPhases ==
  /\ pool = "none" => held = {} /\ retired = {} /\ runtimes = {} /\ job = NoJob
  /\ pool = "filling" => retired = {} /\ held = runtimes /\ job.replaces = 0
  /\ pool = "running" => held = runtimes
  /\ pool = "ending" => runtimes = {} /\ job = NoJob

SlotIds ==
  /\ job.at = "none" <=> job = NoJob
  /\ job # NoJob => job.id \in PeerIds /\ job.id < nextId /\ job.id \notin held \union retired
  /\ pool # "none" => \A i \in held \union retired : i < nextId

SlotOwners ==
  /\ slots + Holding + Cardinality(held) + Cardinality(retired) = WorkerCapacity
  /\ Undead \subseteq held \union retired /\ held \intersect retired = {}

SlotInv == SlotTypes /\ SlotPhases /\ SlotIds /\ SlotOwners

\* A subset of the peer ids is finite, and its size a number.
LEMMA PeerSetsFinite ==
  ASSUME NEW S, S \subseteq PeerIds
  PROVE  IsFiniteSet(S) /\ Cardinality(S) \in Nat
<1>1. MaxPeerId \in Nat
  BY SlotAssumption
<1>2. IsFiniteSet(PeerIds)
  BY <1>1, FS_Interval DEF PeerIds
<1> QED
  BY <1>2, FS_Subset, FS_CardinalityType

\* Two sets that share nothing count together.
LEMMA DisjointSetsCount ==
  ASSUME NEW S, NEW T, IsFiniteSet(S), IsFiniteSet(T), S \intersect T = {}
  PROVE  Cardinality(S \union T) = Cardinality(S) + Cardinality(T)
<1>1. Cardinality(S \union T) = Cardinality(S) + Cardinality(T) - Cardinality(S \intersect T)
  BY FS_Union
<1>2. Cardinality(S \intersect T) = 0
  BY FS_EmptySet
<1>3. Cardinality(S) \in Nat /\ Cardinality(T) \in Nat
  BY FS_CardinalityType
<1> QED
  BY <1>1, <1>2, <1>3

\* Peers that move from one owner to the other keep the number of permits.
LEMMA MovedPeersCount ==
  ASSUME NEW A, NEW B, NEW G, A \subseteq PeerIds, B \subseteq PeerIds, G \subseteq A, A \intersect B = {}
  PROVE  Cardinality(A \ G) + Cardinality(B \union G) = Cardinality(A) + Cardinality(B)
<1>1. G \subseteq PeerIds /\ A \ G \subseteq PeerIds
  OBVIOUS
<1>2. IsFiniteSet(A) /\ IsFiniteSet(B) /\ IsFiniteSet(G) /\ IsFiniteSet(A \ G)
  BY <1>1, PeerSetsFinite
<1>3. /\ Cardinality(A) \in Nat /\ Cardinality(B) \in Nat
      /\ Cardinality(G) \in Nat /\ Cardinality(A \ G) \in Nat
  BY <1>2, FS_CardinalityType
<1>4. A = (A \ G) \union G /\ (A \ G) \intersect G = {} /\ B \intersect G = {}
  OBVIOUS
<1>5. Cardinality((A \ G) \union G) = Cardinality(A \ G) + Cardinality(G)
  BY <1>2, <1>4, DisjointSetsCount
<1>6. Cardinality(B \union G) = Cardinality(B) + Cardinality(G)
  BY <1>2, <1>4, DisjointSetsCount
<1> QED
  BY <1>3, <1>4, <1>5, <1>6

LEMMA CapacityType == WorkerCapacity \in Nat
<1>1. MaxActive \in Nat /\ MaxParallel \in Nat /\ SlotCeiling \in Nat
  BY SlotAssumption
<1> QED
  BY <1>1 DEF WorkerCapacity

LEMMA SlotsStart == SlotsInit => SlotInv
<1> SUFFICES ASSUME SlotsInit PROVE SlotInv
  OBVIOUS
<1> USE DEF SlotsInit, NoJob
<1>1. SlotTypes
  BY CapacityType DEF SlotTypes
<1>2. SlotPhases /\ SlotIds
  BY DEF SlotPhases, SlotIds
<1>3. SlotOwners
  BY CapacityType, FS_EmptySet DEF SlotOwners, Holding, Undead
<1> QED
  BY <1>1, <1>2, <1>3 DEF SlotInv

\* Steps that leave the permits and the tasks alone.
LEMMA SlotsBeginning ==
  ASSUME SlotInv, \/ \E n \in 1 .. MaxActive : PoolBegins(n)
                  \/ FillNext \/ Refill \/ Filled
  PROVE  SlotInv'
<1> USE DEF SlotInv
<1>1. MaxActive \in Nat
  BY SlotAssumption
<1>2. CASE \E n \in 1 .. MaxActive : PoolBegins(n)
  <2> PICK n \in 1 .. MaxActive : PoolBegins(n)
    BY <1>2
  <2>1. SlotTypes' /\ SlotPhases' /\ SlotIds'
    BY <1>1 DEF PoolBegins, SlotTypes, SlotPhases, SlotIds, NoJob
  <2>2. SlotOwners'
    BY DEF PoolBegins, SlotOwners, Holding, Undead
  <2> QED
    BY <2>1, <2>2
<1>3. CASE FillNext \/ Refill
  <2>1. PICK old \in {0} \union runtimes : Prepare(old) /\ (pool = "filling" => old = 0)
    BY <1>3 DEF FillNext, Refill
  <2>2. /\ pool \in {"filling", "running"} /\ toFill' \in Nat
        /\ UNCHANGED <<pool, pools, slots, held, retired, runtimes, task>>
    BY <1>3 DEF FillNext, Refill, SlotTypes
  <2>3. /\ job = NoJob /\ nextId \in PeerIds /\ nextId' = nextId + 1
        /\ job' = [at |-> "waiting", id |-> nextId, replaces |-> old]
    BY <2>1 DEF Prepare
  <2>4. old \in Nat /\ nextId \in Nat
    BY <2>1, <2>3 DEF SlotTypes, PeerIds
  <2>5. SlotTypes'
    BY <2>2, <2>3, <2>4 DEF SlotTypes
  <2>6. SlotPhases'
    BY <2>1, <2>2, <2>3 DEF SlotPhases
  <2>7. SlotIds'
    BY <2>2, <2>3, <2>4 DEF SlotIds, SlotTypes, NoJob, PeerIds
  <2>8. SlotOwners'
    BY <2>2, <2>3 DEF SlotOwners, Holding, Undead, NoJob
  <2> QED
    BY <2>5, <2>6, <2>7, <2>8
<1>4. CASE Filled
  <2>1. SlotTypes' /\ SlotPhases' /\ SlotIds'
    BY <1>4 DEF Filled, SlotTypes, SlotPhases, SlotIds, NoJob
  <2>2. SlotOwners'
    BY <1>4 DEF Filled, SlotOwners, Holding, Undead
  <2> QED
    BY <2>1, <2>2
<1> QED
  BY <1>2, <1>3, <1>4

\* A permit is taken for an activation, or given back by one that fails.
LEMMA SlotsTaken ==
  ASSUME SlotInv, Acquire \/ Written
  PROVE  SlotInv'
<1> USE DEF SlotInv
<1>0. Cardinality(held) \in Nat /\ Cardinality(retired) \in Nat
  BY PeerSetsFinite DEF SlotTypes
<1>1. UNCHANGED <<pool, pools, toFill, nextId, held, retired, runtimes, task>>
  BY DEF Acquire, Written
<1>2. CASE job' = NoJob
  <2>1. job.at = "writing" /\ slots' = slots + 1
    BY <1>2 DEF Acquire, Written, NoJob, SlotTypes
  <2>2. SlotTypes' /\ SlotPhases' /\ SlotIds'
    BY <1>1, <1>2, <2>1 DEF SlotTypes, SlotPhases, SlotIds, NoJob
  <2>3. SlotOwners'
    BY <1>0, <1>1, <1>2, <2>1 DEF SlotOwners, Holding, Undead, NoJob, SlotTypes
  <2> QED
    BY <2>2, <2>3
<1>3. CASE job' # NoJob
  <2>1. /\ job.at \in {"waiting", "writing"} /\ job'.at \in {"writing", "written"}
        /\ job' = [job EXCEPT !.at = job'.at] /\ slots' \in Nat
        /\ slots' + Holding' = slots + Holding
    <3>1. CASE Acquire
      BY <1>3, <3>1 DEF Acquire, SlotTypes, Holding
    <3>2. CASE Written
      BY <1>3, <3>2 DEF Written, SlotTypes, Holding
    <3> QED
      BY <3>1, <3>2
  <2>2. SlotTypes'
    BY <1>1, <2>1 DEF SlotTypes
  <2>3. /\ job # NoJob /\ job'.id = job.id /\ job'.replaces = job.replaces
        /\ job'.at # "none"
    BY <2>1 DEF SlotTypes, NoJob
  <2>4. SlotPhases' /\ SlotIds'
    BY <1>1, <1>3, <2>3 DEF SlotPhases, SlotIds
  <2>5. Undead' = Undead /\ Holding \in Nat /\ Holding' \in Nat
    BY <1>1 DEF Undead, Holding
  <2>6. SlotOwners'
    BY <1>0, <1>1, <2>1, <2>5 DEF SlotOwners, SlotTypes
  <2> QED
    BY <2>2, <2>4, <2>6
<1> QED
  BY <1>2, <1>3

\* Peers that are retired keep their permits.
LEMMA RetiringKeeps ==
  ASSUME SlotInv, NEW G, G \subseteq runtimes, runtimes \subseteq held,
         held' = held \ G, retired' = retired \union G, UNCHANGED <<slots, Holding>>,
         Undead' \subseteq Undead
  PROVE  SlotOwners'
<1> USE DEF SlotInv
<1>1. Cardinality(held) \in Nat /\ Cardinality(retired) \in Nat
      /\ Cardinality(held') \in Nat /\ Cardinality(retired') \in Nat
  <2>1. held' \subseteq PeerIds /\ retired' \subseteq PeerIds
    BY DEF SlotTypes
  <2> QED
    BY <2>1, PeerSetsFinite DEF SlotTypes
<1>2. Cardinality(held') + Cardinality(retired') = Cardinality(held) + Cardinality(retired)
  BY MovedPeersCount DEF SlotTypes, SlotOwners
<1>3. Holding \in Nat
  BY DEF Holding
<1>4. slots' + Holding' + Cardinality(held') + Cardinality(retired') = WorkerCapacity
  BY <1>1, <1>2, <1>3 DEF SlotOwners, SlotTypes
<1>5. Undead' \subseteq (held \union retired)' /\ (held \intersect retired)' = {}
  BY DEF SlotOwners
<1> QED
  BY <1>4, <1>5 DEF SlotOwners

\* An activation ends: its peer is registered and may replace another, or it is dropped.
LEMMA SlotsCommitted ==
  ASSUME SlotInv, FinishActivation
  PROVE  SlotInv'
<1> USE DEF SlotInv
<1>0. /\ job.at = "written" /\ job # NoJob /\ Holding = 1 /\ pool \in {"filling", "running"}
      /\ job.id \in PeerIds /\ job.id < nextId /\ job.id \notin held \union retired
      /\ held = runtimes
  BY DEF FinishActivation, NoJob, Holding, SlotIds, SlotPhases
<1>1. CASE Commit
  <2> DEFINE old == {job.replaces} \intersect runtimes
  <2>1. /\ job' = NoJob /\ UNCHANGED <<slots, toFill, nextId, pool, pools>>
        /\ held' = (held \union {job.id}) \ old /\ retired' = retired \union old
        /\ runtimes' = (runtimes \ old) \union {job.id}
        /\ task' = [i \in PeerIds |-> IF i = job.id THEN "running"
                                      ELSE IF i \in old /\ task[i] = "running" THEN "aborted" ELSE task[i]]
    BY <1>1 DEF Commit
  <2>2. job.id \notin old /\ old \subseteq held
    BY <1>0
  <2>3. pool = "filling" => old = {}
    BY DEF SlotPhases, SlotTypes, PeerIds
  <2> HIDE DEF old
  <2>4. held' = runtimes'
    BY <1>0, <2>1, <2>2
  <2>5. SlotTypes'
    BY <1>0, <2>1, <2>2 DEF SlotTypes, NoJob
  <2>6. SlotPhases'
    BY <1>0, <2>1, <2>3, <2>4 DEF SlotPhases, NoJob
  <2>7. SlotIds'
    BY <1>0, <2>1, <2>2 DEF SlotIds, NoJob
  <2>8. SlotOwners'
    <3> DEFINE all == held \union {job.id}
    <3>1. all \subseteq PeerIds /\ old \subseteq all /\ all \intersect retired = {}
      BY <1>0, <2>2 DEF SlotTypes, SlotOwners
    <3>2. held' = all \ old /\ retired' = retired \union old
      BY <2>1
    <3>3. Cardinality(all) = Cardinality(held) + 1
      BY <1>0, PeerSetsFinite, FS_AddElement DEF SlotTypes
    <3>4. IsFiniteSet(all)
      BY <3>1, PeerSetsFinite
    <3> HIDE DEF all
    <3>5. Cardinality(held') + Cardinality(retired') = Cardinality(all) + Cardinality(retired)
      BY <3>1, <3>2, MovedPeersCount DEF SlotTypes
    <3>6. held' \subseteq PeerIds /\ retired' \subseteq PeerIds
      BY <2>5 DEF SlotTypes
    <3>7. /\ Cardinality(held) \in Nat /\ Cardinality(retired) \in Nat
          /\ Cardinality(held') \in Nat /\ Cardinality(retired') \in Nat
      BY <3>6, PeerSetsFinite DEF SlotTypes
    <3>8. Holding' = 0
      BY <2>1 DEF Holding, NoJob
    <3>9. slots' + Holding' + Cardinality(held') + Cardinality(retired') = WorkerCapacity
      BY <1>0, <2>1, <3>3, <3>5, <3>7, <3>8 DEF SlotOwners, SlotTypes
    <3>10. Undead' \subseteq Undead \union {job.id}
      BY <1>0, <2>1 DEF Undead, SlotTypes
    <3>11. Undead' \subseteq (held \union retired)' /\ (held \intersect retired)' = {}
      BY <2>1, <2>2, <3>10, <1>0 DEF SlotOwners
    <3> QED
      BY <3>9, <3>11 DEF SlotOwners
  <2> QED
    BY <2>5, <2>6, <2>7, <2>8
<1>2. CASE /\ job' = NoJob /\ slots' = slots + 1
           /\ UNCHANGED <<pool, pools, toFill, nextId, held, retired, runtimes, task>>
  <2>1. SlotTypes' /\ SlotPhases' /\ SlotIds'
    BY <1>0, <1>2 DEF SlotTypes, SlotPhases, SlotIds, NoJob
  <2>2. Cardinality(held) \in Nat /\ Cardinality(retired) \in Nat
    BY PeerSetsFinite DEF SlotTypes
  <2>3. SlotOwners'
    BY <1>0, <1>2, <2>2 DEF SlotOwners, Holding, Undead, NoJob, SlotTypes
  <2> QED
    BY <2>1, <2>3
<1> QED
  BY <1>1, <1>2 DEF FinishActivation

\* Workers end, are told to stop, or are lost with their peers.
LEMMA SlotsWorkers ==
  ASSUME SlotInv, \/ \E i \in PeerIds : WorkerEnds(i) \/ AbortWorker(i)
                  \/ \E gone \in SUBSET runtimes : LosePeers(gone)
  PROVE  SlotInv'
<1> USE DEF SlotInv
<1>1. CASE \E i \in PeerIds : WorkerEnds(i) \/ AbortWorker(i)
  <2>1. PICK i \in PeerIds, to \in {"gone", "aborted"} :
          /\ task[i] \in {"running", "aborted"} /\ task' = [task EXCEPT ![i] = to]
          /\ UNCHANGED <<pool, pools, toFill, nextId, job, slots, held, retired, runtimes>>
    BY <1>1 DEF WorkerEnds, AbortWorker
  <2>2. SlotTypes' /\ SlotPhases' /\ SlotIds'
    BY <2>1 DEF SlotTypes, SlotPhases, SlotIds, NoJob
  <2>3. Undead' \subseteq Undead /\ Holding' = Holding
    BY <2>1 DEF Undead, Holding, SlotTypes
  <2>4. SlotOwners'
    BY <2>1, <2>3 DEF SlotOwners
  <2> QED
    BY <2>2, <2>4
<1>2. CASE \E gone \in SUBSET runtimes : LosePeers(gone)
  <2>1. PICK gone \in SUBSET runtimes : LosePeers(gone)
    BY <1>2
  <2>2. /\ pool = "running" /\ held = runtimes /\ UNCHANGED <<pool, pools, toFill, nextId, job, slots>>
        /\ runtimes' = runtimes \ gone /\ held' = held \ gone /\ retired' = retired \union gone
        /\ task' = [i \in PeerIds |-> IF i \in gone /\ task[i] = "running" THEN "aborted" ELSE task[i]]
    BY <2>1 DEF LosePeers, Retire, SlotPhases
  <2>3. SlotTypes' /\ SlotPhases' /\ SlotIds'
    BY <2>2 DEF SlotTypes, SlotPhases, SlotIds, NoJob
  <2>4. Undead' \subseteq Undead /\ Holding' = Holding
    BY <2>2 DEF Undead, Holding, SlotTypes
  <2>5. SlotOwners'
    BY <2>2, <2>4, RetiringKeeps
  <2> QED
    BY <2>3, <2>5
<1> QED
  BY <1>1, <1>2

\* Permits come back with the tasks that are gone.
LEMMA SlotsReturned ==
  ASSUME SlotInv, \/ \E i \in PeerIds : PollRetired(i) \/ FinishRetired(i)
                  \/ ReleaseJoined
  PROVE  SlotInv'
<1> USE DEF SlotInv
<1>0. /\ IsFiniteSet(held) /\ IsFiniteSet(retired)
      /\ Cardinality(held) \in Nat /\ Cardinality(retired) \in Nat
  BY PeerSetsFinite DEF SlotTypes
<1>1. CASE \E i \in PeerIds : PollRetired(i) \/ FinishRetired(i)
  <2>1. PICK i \in PeerIds : /\ pool \in {"running", "ending"} /\ i \in retired /\ task[i] = "gone"
                             /\ retired' = retired \ {i} /\ slots' = slots + 1
                             /\ UNCHANGED <<pool, pools, toFill, nextId, job, held, runtimes, task>>
    BY <1>1 DEF PollRetired, FinishRetired
  <2>2. SlotTypes' /\ SlotPhases' /\ SlotIds'
    BY <2>1 DEF SlotTypes, SlotPhases, SlotIds, NoJob
  <2>3. Cardinality(retired') = Cardinality(retired) - 1
    BY <1>0, <2>1, FS_RemoveElement
  <2>4. Undead' = Undead /\ i \notin Undead /\ Holding' = Holding /\ Holding \in Nat
    BY <2>1 DEF Undead, Holding
  <2>5. slots' + Holding' + Cardinality(held') + Cardinality(retired') = WorkerCapacity
    BY <1>0, <2>1, <2>3, <2>4 DEF SlotOwners, SlotTypes
  <2>6. Undead' \subseteq (held \union retired)' /\ (held \intersect retired)' = {}
    BY <2>1, <2>4 DEF SlotOwners
  <2> QED
    BY <2>2, <2>5, <2>6 DEF SlotOwners
<1>2. CASE ReleaseJoined
  <2>1. SlotTypes' /\ SlotPhases' /\ SlotIds'
    BY <1>0, <1>2 DEF ReleaseJoined, SlotTypes, SlotPhases, SlotIds, NoJob
  <2>2. Undead' = Undead /\ Undead \intersect held = {} /\ Holding' = Holding /\ Holding \in Nat
    BY <1>2 DEF ReleaseJoined, Undead, Holding, SlotTypes
  <2>3. Cardinality(held') = 0
    BY <1>2, FS_EmptySet DEF ReleaseJoined
  <2>4. slots' + Holding' + Cardinality(held') + Cardinality(retired') = WorkerCapacity
    BY <1>0, <1>2, <2>2, <2>3 DEF ReleaseJoined, SlotOwners, SlotTypes
  <2>5. Undead' \subseteq (held \union retired)' /\ (held \intersect retired)' = {}
    BY <1>2, <2>2 DEF ReleaseJoined, SlotOwners
  <2> QED
    BY <2>1, <2>4, <2>5 DEF SlotOwners
<1> QED
  BY <1>1, <1>2

\* A pool ends, and is over when everything has been let go.
LEMMA SlotsEnding ==
  ASSUME SlotInv, PoolEnds \/ PoolOver
  PROVE  SlotInv'
<1> USE DEF SlotInv
<1>0. Cardinality(held) \in Nat /\ Cardinality(retired) \in Nat
  BY PeerSetsFinite DEF SlotTypes
<1>1. CASE PoolEnds
  <2>1. /\ slots' = slots + Holding /\ Holding \in Nat /\ Holding' = 0
        /\ UNCHANGED <<held, retired>> /\ Undead' \subseteq Undead
    BY <1>1 DEF PoolEnds, Abort, Undead, Holding, NoJob, SlotTypes
  <2>2. SlotTypes' /\ SlotPhases' /\ SlotIds'
    BY <1>1, <2>1 DEF PoolEnds, Abort, SlotTypes, SlotPhases, SlotIds, NoJob
  <2>3. SlotOwners'
    BY <1>0, <2>1 DEF SlotOwners, SlotTypes
  <2> QED
    BY <2>2, <2>3
<1>2. CASE PoolOver
  <2>1. SlotTypes' /\ SlotPhases' /\ SlotIds'
    BY <1>2 DEF PoolOver, SlotTypes, SlotPhases, SlotIds, NoJob
  <2>2. SlotOwners'
    BY <1>2 DEF PoolOver, SlotOwners, Undead, Holding
  <2> QED
    BY <2>1, <2>2
<1> QED
  BY <1>1, <1>2

\* Permits, owners and tasks agree in every state of every history of pools, for every
\* number of upstreams and permits (worker_ownership.rs).
THEOREM SlotsInvariant == SlotsSpec => []SlotInv
<1>1. SlotInv /\ [SlotsNext]_slotVars => SlotInv'
  <2> SUFFICES ASSUME SlotInv, [SlotsNext]_slotVars PROVE SlotInv'
    OBVIOUS
  <2>1. CASE SlotsNext
    BY <2>1, SlotsBeginning, SlotsTaken, SlotsCommitted, SlotsWorkers, SlotsReturned, SlotsEnding DEF SlotsNext
  <2>2. CASE UNCHANGED slotVars
    BY <2>2 DEF slotVars, SlotInv, SlotTypes, SlotPhases, SlotIds, SlotOwners, Holding, Undead
  <2> QED
    BY <2>1, <2>2
<1> QED
  BY <1>1, SlotsStart, PTL DEF SlotsSpec

\* No permit of worker_ownership.rs is lost or doubled: a task that is not gone is owned
\* by exactly one of them, no assertion of register and retire fails, and a pool leaves
\* nothing to the next.
THEOREM SlotsHold == SlotsSpec => []SlotsAreSound
<1>1. SlotInv => SlotsAreSound
  <2> SUFFICES ASSUME SlotInv PROVE SlotsAreSound
    OBVIOUS
  <2> USE DEF SlotInv
  <2>1. SlotsAreConserved
    BY DEF SlotsAreConserved, SlotOwners, SlotIds, SlotTypes, SlotPhases
  <2>2. PoolsAreSeparate
    BY FS_EmptySet, CapacityType DEF PoolsAreSeparate, SlotOwners, SlotPhases, Holding, NoJob, SlotTypes
  <2> QED
    BY <2>1, <2>2 DEF SlotsAreSound
<1> QED
  BY <1>1, SlotsInvariant, PTL

-----------------------------------------------------------------------------
(***************************************************************************)
(* The account of an attempt.  While it is under way, the phases before    *)
(* the present one have their durations, together the time up to the start *)
(* of the present one; a reply is kept from the moment the handshake was   *)
(* sent, and has its cause once the window is awaited.                     *)
(***************************************************************************)
TraceRecords ==
  [at : {"idle", "underway", "over", "joined", "panicked", "aborted"}, phase : Phases,
   durations : [Phases -> Nat \union {Unreached}],
   reply : [received : {"none"} \union ByteStates, cause : {"none"} \union Causes],
   since : Nat, began : Nat, ended : Nat, stage : {"none"} \union Stages]

\* The phases an attempt has left behind are those with a duration
LeftBehind(t, upTo) == \A p \in Phases : IF p <= upTo THEN t.durations[p] \in Nat ELSE t.durations[p] = Unreached

ReplyKept(t) == IF t.phase >= PhaseReply THEN t.reply.received # "none" ELSE t.reply = NoReply

TimeKept(t) ==
  /\ LeftBehind(t, t.phase - 1) /\ Spent(t.durations) = t.since - t.began
  /\ t.since <= moment

IsUnderWay(t) ==
  /\ TimeKept(t) /\ ReplyKept(t)
  /\ t.phase = PhaseWindow => t.reply.cause # "none"

IsOver(t) ==
  /\ LeftBehind(t, t.phase) /\ Spent(t.durations) = t.ended - t.began
  /\ ReplyKept(t)
  /\ t.phase >= PhaseReply => t.reply.cause # "none"

TraceSound(t) ==
  /\ t \in TraceRecords
  /\ t.at = "underway" => IsUnderWay(t)
  /\ t.at = "over" => IsOver(t)

TraceInv ==
  /\ moment \in Nat /\ trace \in [Attempts -> TraceRecords]
  /\ \A a \in Attempts : TraceSound(trace[a])

\* The fields of an attempt have their types, and a record of such fields is one.
LEMMA TraceFields ==
  ASSUME NEW t \in TraceRecords
  PROVE  /\ t.phase \in Int /\ t.phase \in Phases /\ t.durations \in [Phases -> Nat \union {Unreached}]
         /\ t.since \in Nat /\ t.began \in Nat /\ t.ended \in Nat
         /\ \A n \in Int : n \in Phases <=> 1 <= n /\ n <= 4
<1>1. /\ t.phase \in Phases /\ t.durations \in [Phases -> Nat \union {Unreached}]
      /\ t.since \in Nat /\ t.began \in Nat /\ t.ended \in Nat
  BY DEF TraceRecords
<1>2. \A n \in Int : n \in Phases <=> 1 <= n /\ n <= 4
  BY DEF Phases
<1>3. t.phase \in Int
  BY <1>1 DEF Phases
<1> QED
  BY <1>1, <1>2, <1>3

\* The time of one more phase is added to what the phases took.
LEMMA PhaseAdds ==
  ASSUME NEW d \in [Phases -> Nat \union {Unreached}], NEW p \in Phases, NEW n \in Nat, d[p] = Unreached
  PROVE  /\ [d EXCEPT ![p] = n] \in [Phases -> Nat \union {Unreached}]
         /\ Spent([d EXCEPT ![p] = n]) = Spent(d) + n
<1>1. Phases = {1, 2, 3, 4}
  BY DEF Phases
<1>2. /\ d[1] \in Nat \union {-1} /\ d[2] \in Nat \union {-1}
      /\ d[3] \in Nat \union {-1} /\ d[4] \in Nat \union {-1}
  BY <1>1 DEF Unreached
<1> QED
  BY <1>1, <1>2 DEF Spent, Unreached, PhaseConnect, PhaseSend, PhaseReply, PhaseWindow

\* The account goes from one phase to the next.
LEMMA PhaseCloses ==
  ASSUME NEW t \in TraceRecords, NEW u \in TraceRecords, moment \in Nat, TimeKept(t),
         u.durations = [t.durations EXCEPT ![t.phase] = moment - t.since]
  PROVE  LeftBehind(u, t.phase) /\ Spent(u.durations) = moment - t.began
<1>0. /\ t.phase \in Int /\ t.phase \in Phases /\ t.durations \in [Phases -> Nat \union {Unreached}]
      /\ t.since \in Nat /\ t.began \in Nat
  BY TraceFields
<1> DEFINE n == moment - t.since
<1>1. n \in Nat
  BY <1>0 DEF TimeKept
<1>2. t.durations[t.phase] = Unreached
  BY <1>0 DEF TimeKept, LeftBehind
<1>3. Spent(u.durations) = Spent(t.durations) + n
  BY <1>0, <1>1, <1>2, PhaseAdds
<1>4. Spent(u.durations) = moment - t.began
  BY <1>0, <1>1, <1>3 DEF TimeKept
<1>5. ASSUME NEW p \in Phases PROVE IF p <= t.phase THEN u.durations[p] \in Nat ELSE u.durations[p] = Unreached
  <2>0. p \in Int
    BY DEF Phases
  <2>1. IF p <= t.phase - 1 THEN t.durations[p] \in Nat ELSE t.durations[p] = Unreached
    BY DEF TimeKept, LeftBehind
  <2>2. CASE p = t.phase
    <3>1. u.durations[p] = n
      BY <1>0, <2>2
    <3> QED
      BY <1>0, <1>1, <2>2, <3>1
  <2>3. CASE p # t.phase
    <3>1. u.durations[p] = t.durations[p]
      BY <1>0, <2>3
    <3> QED
      BY <1>0, <2>0, <2>1, <2>3, <3>1
  <2> QED
    BY <2>2, <2>3
<1> QED
  BY <1>4, <1>5 DEF LeftBehind

\* finish closes an attempt's account, whatever the outcome.
LEMMA FinishAddsUp ==
  ASSUME moment \in Nat, NEW t \in TraceRecords, TimeKept(t), ReplyKept(t), NEW stage \in Stages,
         t.phase >= PhaseReply => t.reply.cause # "none"
  PROVE  TraceSound(Finish(t, stage))
<1> DEFINE u == Finish(t, stage)
<1>1. /\ u.durations = [t.durations EXCEPT ![t.phase] = moment - t.since] /\ u.at = "over" /\ u.ended = moment
      /\ u.phase = t.phase /\ u.reply = t.reply /\ u.began = t.began
  BY DEF Finish, TraceRecords
<1>2. u \in TraceRecords
  <2>1. moment - t.since \in Nat
    BY TraceFields DEF TimeKept
  <2> QED
    BY <2>1 DEF Finish, TraceRecords
<1>3. LeftBehind(u, u.phase) /\ Spent(u.durations) = u.ended - u.began
  BY <1>1, <1>2, PhaseCloses
<1>4. ReplyKept(u) /\ (u.phase >= PhaseReply => u.reply.cause # "none")
  BY <1>1 DEF ReplyKept
<1> HIDE DEF u
<1>5. TraceSound(u)
  BY <1>1, <1>2, <1>3, <1>4 DEF TraceSound, IsOver
<1> QED
  BY <1>5 DEF u

\* What an attempt must have of the reply to go on to a phase
ReadyFor(t, next) ==
  /\ next \in Phases /\ next = t.phase + 1
  /\ IF next >= PhaseReply THEN t.reply.received # "none" ELSE t.reply = NoReply
  /\ next = PhaseWindow => t.reply.cause # "none"

\* advance goes on to the next phase.
LEMMA AdvanceAddsUp ==
  ASSUME moment \in Nat, NEW t \in TraceRecords, t.at = "underway", TimeKept(t), NEW next, ReadyFor(t, next)
  PROVE  TraceSound(Advance(t, next))
<1> DEFINE u == Advance(t, next)
<1>1. /\ u.durations = [t.durations EXCEPT ![t.phase] = moment - t.since] /\ u.at = "underway"
      /\ u.phase = next /\ u.reply = t.reply /\ u.began = t.began /\ u.since = moment
  BY DEF Advance, TraceRecords
<1>2. u \in TraceRecords
  <2>1. moment - t.since \in Nat
    BY TraceFields DEF TimeKept
  <2> QED
    BY <2>1 DEF Advance, TraceRecords, ReadyFor
<1>3. LeftBehind(u, t.phase) /\ Spent(u.durations) = u.since - u.began
  BY <1>1, <1>2, PhaseCloses
<1>4. u.phase - 1 = t.phase
  BY <1>1, TraceFields DEF ReadyFor
<1>5. ReplyKept(u) /\ (u.phase = PhaseWindow => u.reply.cause # "none")
  BY <1>1 DEF ReplyKept, ReadyFor
<1>6. u.since <= moment
  BY <1>1
<1> HIDE DEF u
<1>7. TraceSound(u)
  BY <1>1, <1>2, <1>3, <1>4, <1>5, <1>6 DEF TraceSound, IsUnderWay, TimeKept
<1> QED
  BY <1>7 DEF u

\* A fresh attempt has no durations.
LEMMA NewTraceSound ==
  /\ NewTrace \in TraceRecords /\ NewTrace.at = "idle"
  /\ \A p \in Phases : NewTrace.durations[p] = Unreached
  /\ Spent(NewTrace.durations) = 0
<1>1. Phases = {1, 2, 3, 4}
  BY DEF Phases
<1> QED
  BY <1>1 DEF NewTrace, TraceRecords, Unreached, NoReply, PhaseConnect, Spent, PhaseSend, PhaseReply, PhaseWindow

LEMMA TraceStart == TraceInit => TraceInv
<1> SUFFICES ASSUME TraceInit PROVE TraceInv
  OBVIOUS
<1>1. \A a \in Attempts : trace[a] = NewTrace
  BY DEF TraceInit
<1>2. trace \in [Attempts -> TraceRecords] /\ moment \in Nat
  BY NewTraceSound DEF TraceInit
<1> QED
  BY <1>1, <1>2, NewTraceSound DEF TraceInv, TraceSound

\* An action that puts a sound account in the place of one attempt keeps the invariant.
LEMMA OneTrace ==
  ASSUME TraceInv, NEW a \in Attempts, NEW t, TraceSound(t), Trace(a, t)
  PROVE  TraceInv'
<1>0. moment' = moment /\ trace' = [trace EXCEPT ![a] = t] /\ t \in TraceRecords
  BY DEF Trace, TraceSound
<1>1. moment' \in Nat /\ trace' \in [Attempts -> TraceRecords]
  BY <1>0 DEF TraceInv
<1>2. ASSUME NEW b \in Attempts PROVE TraceSound(trace'[b]) /\ TraceSound(trace[b])
  BY <1>0 DEF TraceInv
<1>3. ASSUME NEW b \in Attempts PROVE TraceSound(trace[b])'
  BY <1>0, <1>2 DEF TraceSound, IsUnderWay, IsOver, TimeKept, LeftBehind, ReplyKept
<1> QED
  BY <1>1, <1>3 DEF TraceInv

\* The phases by number, and what the reply of an attempt is made of.
LEMMA PhasesInOrder ==
  /\ PhaseConnect \in Phases /\ PhaseSend \in Phases /\ PhaseReply \in Phases /\ PhaseWindow \in Phases
  /\ PhaseSend = PhaseConnect + 1 /\ PhaseReply = PhaseSend + 1 /\ PhaseWindow = PhaseReply + 1
  /\ ~(PhaseConnect >= PhaseReply) /\ ~(PhaseSend >= PhaseReply)
  /\ PhaseReply >= PhaseReply /\ PhaseWindow >= PhaseReply
  /\ PhaseConnect # PhaseWindow /\ PhaseSend # PhaseWindow /\ PhaseReply # PhaseWindow
  BY DEF Phases, PhaseConnect, PhaseSend, PhaseReply, PhaseWindow

\* A change of the reply alone leaves the time of an attempt as it was.
LEMMA ReplyChanges ==
  ASSUME NEW t \in TraceRecords, TimeKept(t), NEW r \in [received : {"none"} \union ByteStates, cause : {"none"} \union Causes],
         NEW u, u = [t EXCEPT !.reply = r]
  PROVE  /\ u \in TraceRecords /\ TimeKept(u) /\ u.at = t.at
         /\ u.phase = t.phase /\ u.reply = r
<1>1. u \in TraceRecords
  BY DEF TraceRecords
<1>2. /\ u.phase = t.phase /\ u.durations = t.durations /\ u.since = t.since /\ u.began = t.began
      /\ u.at = t.at /\ u.reply = r
  BY DEF TraceRecords
<1> QED
  BY <1>1, <1>2 DEF TimeKept, LeftBehind

\* An attempt begins, dials or writes its handshake.
LEMMA TraceOpening ==
  ASSUME TraceInv, NEW a \in Attempts, AttemptBegins(a) \/ Dial(a) \/ SendHandshake(a)
  PROVE  TraceInv'
<1> DEFINE t == trace[a]
<1>0. t \in TraceRecords /\ TraceSound(t) /\ moment \in Nat
  BY DEF TraceInv
<1>1. CASE AttemptBegins(a)
  <2> DEFINE u == [NewTrace EXCEPT !.at = "underway", !.since = moment, !.began = moment]
  <2>1. u \in TraceRecords /\ u.at = "underway" /\ u.since = moment /\ u.began = moment /\ u.phase = PhaseConnect
        /\ u.reply = NoReply /\ u.durations = NewTrace.durations
    BY <1>0, NewTraceSound DEF TraceRecords, NewTrace
  <2>2. TimeKept(u)
    <3>1. \A p \in Phases : p \in Int /\ ~(p <= PhaseConnect - 1)
      BY DEF Phases, PhaseConnect
    <3> QED
      BY <1>0, <2>1, <3>1, NewTraceSound DEF TimeKept, LeftBehind
  <2>3. TraceSound(u)
    BY <2>1, <2>2, PhasesInOrder DEF TraceSound, IsUnderWay, ReplyKept
  <2> QED
    BY <1>1, <2>3, OneTrace DEF AttemptBegins
<1>2. CASE Dial(a)
  <2>1. /\ t.at = "underway" /\ t.phase = PhaseConnect /\ TimeKept(t) /\ ReplyKept(t) /\ t.reply = NoReply
    BY <1>0, <1>2, PhasesInOrder DEF Dial, In, TraceSound, IsUnderWay, ReplyKept
  <2>2. \A stage \in Stages : TraceSound(Finish(t, stage))
    BY <1>0, <2>1, PhasesInOrder, FinishAddsUp
  <2>3. ReadyFor(t, PhaseSend)
    BY <2>1, PhasesInOrder DEF ReadyFor
  <2>4. TraceSound(Advance(t, PhaseSend))
    BY <1>0, <2>1, <2>3, AdvanceAddsUp
  <2> QED
    BY <1>2, <2>2, <2>4, OneTrace DEF Dial, Stages
<1>3. CASE SendHandshake(a)
  <2>1. /\ t.at = "underway" /\ t.phase = PhaseSend /\ TimeKept(t) /\ ReplyKept(t) /\ t.reply = NoReply
    BY <1>0, <1>3, PhasesInOrder DEF SendHandshake, In, TraceSound, IsUnderWay, ReplyKept
  <2>2. \A cause \in Causes : FinishHandshake(t, cause) = t
    BY <2>1 DEF FinishHandshake
  <2>3. TraceSound(Finish(t, "handshake"))
    <3>1. "handshake" \in Stages
      BY DEF Stages
    <3> QED
      BY <1>0, <2>1, <3>1, PhasesInOrder, FinishAddsUp
  <2> DEFINE r == [received |-> "zero", cause |-> "none"]
             u == [t EXCEPT !.reply = r]
  <2>4. r \in [received : {"none"} \union ByteStates, cause : {"none"} \union Causes] /\ r.received # "none"
    BY DEF ByteStates
  <2>5. u \in TraceRecords /\ TimeKept(u) /\ u.at = "underway" /\ u.phase = PhaseSend /\ u.reply = r
    <3> HIDE DEF r
    <3> QED
      BY <1>0, <2>1, <2>4, ReplyChanges
  <2>6. ReadyFor(u, PhaseReply)
    <3> HIDE DEF u
    <3> QED
      BY <2>4, <2>5, PhasesInOrder DEF ReadyFor
  <2>7. TraceSound(Advance(u, PhaseReply))
    <3> HIDE DEF u
    <3> QED
      BY <1>0, <2>5, <2>6, AdvanceAddsUp
  <2> QED
    BY <1>3, <2>2, <2>3, <2>7, OneTrace DEF SendHandshake
<1> QED
  BY <1>1, <1>2, <1>3

\* A reply that is judged has its cause, and nothing else of the attempt changes.
LEMMA HandshakeJudged ==
  ASSUME NEW t \in TraceRecords, TimeKept(t), t.phase = PhaseReply, t.reply.received # "none", NEW cause \in Causes
  PROVE  LET u == FinishHandshake(t, cause) IN
         /\ u \in TraceRecords /\ TimeKept(u) /\ u.at = t.at /\ u.phase = PhaseReply
         /\ u.reply.received # "none" /\ u.reply.cause # "none"
<1> DEFINE u == FinishHandshake(t, cause)
           r == [received |-> t.reply.received, cause |-> cause]
<1>0. /\ t.reply \in [received : {"none"} \union ByteStates, cause : {"none"} \union Causes]
      /\ r \in [received : {"none"} \union ByteStates, cause : {"none"} \union Causes]
  BY DEF TraceRecords
<1>1. t.reply # NoReply
  BY DEF NoReply
<1>2. u = [t EXCEPT !.reply = r]
  BY <1>0, <1>1 DEF FinishHandshake, TraceRecords
<1>3. r.received # "none" /\ r.cause # "none"
  BY DEF Causes
<1> HIDE DEF r, u
<1>4. u \in TraceRecords /\ TimeKept(u) /\ u.at = t.at /\ u.phase = t.phase /\ u.reply = r
  BY <1>0, <1>2, ReplyChanges
<1>5. /\ u \in TraceRecords /\ TimeKept(u) /\ u.at = t.at /\ u.phase = PhaseReply
      /\ u.reply.received # "none" /\ u.reply.cause # "none"
  BY <1>3, <1>4
<1> QED
  BY <1>5 DEF u

\* Bytes of the reply arrive.
LEMMA ReplyArrives ==
  ASSUME NEW t \in TraceRecords, TimeKept(t), t.phase = PhaseReply, NEW state \in ByteStates
  PROVE  LET u == [t EXCEPT !.reply.received = state] IN
         /\ u \in TraceRecords /\ TimeKept(u) /\ u.at = t.at /\ u.phase = PhaseReply
         /\ u.reply.received # "none"
<1> DEFINE u == [t EXCEPT !.reply.received = state]
           r == [received |-> state, cause |-> t.reply.cause]
<1>0. r \in [received : {"none"} \union ByteStates, cause : {"none"} \union Causes]
  BY DEF TraceRecords
<1>1. u = [t EXCEPT !.reply = r]
  BY <1>0 DEF TraceRecords
<1>2. r.received # "none"
  BY DEF ByteStates
<1> HIDE DEF r, u
<1>3. u \in TraceRecords /\ TimeKept(u) /\ u.at = t.at /\ u.phase = t.phase /\ u.reply = r
  BY <1>0, <1>1, ReplyChanges
<1>4. u \in TraceRecords /\ TimeKept(u) /\ u.at = t.at /\ u.phase = PhaseReply /\ u.reply.received # "none"
  BY <1>2, <1>3
<1> QED
  BY <1>4 DEF u

\* The reply is read, in parts or to its end.
LEMMA TraceReplies ==
  ASSUME TraceInv, NEW a \in Attempts, ReplyBytes(a) \/ ReplyRead(a)
  PROVE  TraceInv'
<1> DEFINE t == trace[a]
           whole == [t EXCEPT !.reply.received = "complete"]
<1>0. t \in TraceRecords /\ TraceSound(t) /\ moment \in Nat
  BY DEF TraceInv
<1>1. t.at = "underway" /\ t.phase = PhaseReply /\ TimeKept(t) /\ t.reply.received # "none"
  BY <1>0, PhasesInOrder DEF ReplyBytes, ReplyRead, In, TraceSound, IsUnderWay, ReplyKept
<1>2. "handshake" \in Stages /\ "partial" \in ByteStates /\ "complete" \in ByteStates
  BY DEF Stages, ByteStates
<1>3. CASE ReplyBytes(a)
  <2> DEFINE u == [t EXCEPT !.reply.received = "partial"]
  <2>1. u \in TraceRecords /\ TimeKept(u) /\ u.at = t.at /\ u.phase = PhaseReply /\ u.reply.received # "none"
    BY <1>0, <1>1, <1>2, ReplyArrives
  <2>2. TraceSound(u)
    <3> HIDE DEF u
    <3> QED
      BY <1>1, <2>1, PhasesInOrder DEF TraceSound, IsUnderWay, ReplyKept
  <2> QED
    BY <1>3, <2>2, OneTrace DEF ReplyBytes
<1>4. /\ whole \in TraceRecords /\ TimeKept(whole) /\ whole.at = t.at /\ whole.phase = PhaseReply
      /\ whole.reply.received # "none"
  BY <1>0, <1>1, <1>2, ReplyArrives
<1>5. ASSUME NEW v \in {t, whole}, NEW cause \in Causes
      PROVE  /\ TraceSound(Finish(FinishHandshake(v, cause), "handshake"))
             /\ TraceSound(Advance(FinishHandshake(v, cause), PhaseWindow))
  <2> HIDE DEF whole
  <2> DEFINE u == FinishHandshake(v, cause)
  <2>1. /\ v \in TraceRecords /\ TimeKept(v) /\ v.at = "underway" /\ v.phase = PhaseReply
        /\ v.reply.received # "none"
    BY <1>0, <1>1, <1>4
  <2>2. /\ u \in TraceRecords /\ TimeKept(u) /\ u.at = "underway" /\ u.phase = PhaseReply
        /\ u.reply.received # "none" /\ u.reply.cause # "none"
    BY <2>1, HandshakeJudged
  <2> HIDE DEF u
  <2>3. ReplyKept(u) /\ ReadyFor(u, PhaseWindow)
    BY <2>2, PhasesInOrder DEF ReplyKept, ReadyFor
  <2>4. TraceSound(Finish(u, "handshake"))
    BY <1>0, <1>2, <2>2, <2>3, FinishAddsUp
  <2>5. TraceSound(Advance(u, PhaseWindow))
    BY <1>0, <2>2, <2>3, AdvanceAddsUp
  <2> QED
    BY <2>4, <2>5 DEF u
<1>6. CASE ReplyRead(a)
  <2> HIDE DEF whole
  <2>1. \/ \E cause \in Causes, v \in {t, whole} : Trace(a, Finish(FinishHandshake(v, cause), "handshake"))
        \/ Trace(a, Advance(FinishHandshake(whole, "valid"), PhaseWindow))
    BY <1>6 DEF ReplyRead, Causes, whole
  <2>2. "valid" \in Causes
    BY DEF Causes
  <2> QED
    BY <1>5, <2>1, <2>2, OneTrace
<1> QED
  BY <1>3, <1>6

\* The window is read, or the total timeout passes in whatever await the attempt is.
LEMMA TraceCloses ==
  ASSUME TraceInv, NEW a \in Attempts, ReadWindow(a) \/ TotalTimeout(a)
  PROVE  TraceInv'
<1> DEFINE t == trace[a]
<1>0. t \in TraceRecords /\ TraceSound(t) /\ moment \in Nat
  BY DEF TraceInv
<1>1. t.at = "underway" /\ IsUnderWay(t) /\ TimeKept(t) /\ ReplyKept(t)
  BY <1>0 DEF ReadWindow, TotalTimeout, In, TraceSound, IsUnderWay
<1>2. {"connected", "window", "total_timeout"} \subseteq Stages
  BY DEF Stages
<1>3. CASE ReadWindow(a)
  <2>1. t.phase = PhaseWindow /\ t.reply.cause # "none"
    BY <1>1, <1>3 DEF ReadWindow, In, IsUnderWay
  <2>2. \A stage \in Stages : TraceSound(Finish(t, stage))
    BY <1>0, <1>1, <2>1, FinishAddsUp
  <2> QED
    BY <1>2, <1>3, <2>2, OneTrace DEF ReadWindow
<1>4. CASE TotalTimeout(a)
  <2> DEFINE u == ReplyTimeout(t)
  <2>1. u \in TraceRecords /\ TimeKept(u) /\ ReplyKept(u) /\ (u.phase >= PhaseReply => u.reply.cause # "none")
    <3>1. CASE t.phase = PhaseReply /\ t.reply # NoReply /\ t.reply.cause = "none"
      <4>1. u = FinishHandshake(t, "timeout") /\ "timeout" \in Causes /\ t.reply.received # "none"
        BY <1>1, <3>1, PhasesInOrder DEF ReplyTimeout, FinishHandshake, Causes, ReplyKept
      <4> HIDE DEF u
      <4>2. /\ u \in TraceRecords /\ TimeKept(u) /\ u.phase = PhaseReply
            /\ u.reply.received # "none" /\ u.reply.cause # "none"
        BY <1>0, <1>1, <3>1, <4>1, HandshakeJudged
      <4> QED
        BY <4>2, PhasesInOrder DEF ReplyKept
    <3>2. CASE ~(t.phase = PhaseReply /\ t.reply # NoReply /\ t.reply.cause = "none")
      <4>1. u = t
        BY <3>2 DEF ReplyTimeout
      <4>2. t.phase = PhaseReply => t.reply # NoReply
        BY <1>1, PhasesInOrder DEF ReplyKept, NoReply
      <4>3. t.phase >= PhaseReply => t.phase = PhaseReply \/ t.phase = PhaseWindow
        BY <1>0, TraceFields DEF PhaseReply, PhaseWindow
      <4>4. t.phase >= PhaseReply => t.reply.cause # "none"
        BY <1>1, <3>2, <4>2, <4>3 DEF IsUnderWay
      <4> HIDE DEF u
      <4> QED
        BY <1>0, <1>1, <4>1, <4>4
    <3> QED
      BY <3>1, <3>2
  <2>2. TraceSound(Finish(u, "total_timeout"))
    <3> HIDE DEF u
    <3> QED
      BY <1>0, <1>2, <2>1, FinishAddsUp
  <2> QED
    BY <1>4, <2>2, OneTrace DEF TotalTimeout
<1> QED
  BY <1>3, <1>4

\* The clock ticks, an attempt is joined or a cohort is aborted.
LEMMA TraceRest ==
  ASSUME TraceInv, MomentPasses \/ AbortCohort \/ \E a \in Attempts : Join(a)
  PROVE  TraceInv'
<1>0. moment \in Nat /\ trace \in [Attempts -> TraceRecords] /\ \A a \in Attempts : TraceSound(trace[a])
  BY DEF TraceInv
<1>1. CASE MomentPasses
  <2>1. moment' = moment + 1 /\ trace' = trace
    BY <1>1 DEF MomentPasses
  <2>2. ASSUME NEW a \in Attempts PROVE TraceSound(trace[a])'
    <3>1. TraceSound(trace[a]) /\ trace[a].since \in Nat
      BY <1>0, TraceFields
    <3>2. trace[a].since <= moment => trace[a].since <= moment + 1
      BY <1>0, <3>1
    <3> QED
      BY <2>1, <3>1, <3>2 DEF TraceSound, IsUnderWay, IsOver, TimeKept, LeftBehind, ReplyKept
  <2> QED
    BY <1>0, <2>1, <2>2 DEF TraceInv
<1>2. ASSUME NEW b \in Attempts, NEW at \in {"joined", "panicked", "aborted"}
      PROVE  [NewTrace EXCEPT !.at = at] \in TraceRecords /\ [NewTrace EXCEPT !.at = at].at = at
  BY NewTraceSound DEF TraceRecords
<1>3. CASE AbortCohort \/ \E a \in Attempts : Join(a)
  <2>1. moment' = moment
    BY <1>3 DEF AbortCohort, Join
  <2>2. /\ trace' \in [Attempts -> TraceRecords]
        /\ \A b \in Attempts : trace'[b] = trace[b] \/ trace'[b].at \in {"joined", "panicked", "aborted"}
    BY <1>0, <1>2, <1>3 DEF AbortCohort, Join
  <2>3. ASSUME NEW b \in Attempts PROVE TraceSound(trace[b])'
    <3>1. CASE trace'[b] = trace[b]
      BY <1>0, <2>1, <3>1 DEF TraceSound, IsUnderWay, IsOver, TimeKept, LeftBehind, ReplyKept
    <3>2. CASE trace'[b].at \in {"joined", "panicked", "aborted"}
      BY <2>2, <3>2 DEF TraceSound
    <3> QED
      BY <2>2, <3>1, <3>2
  <2> QED
    BY <1>0, <2>1, <2>2, <2>3 DEF TraceInv
<1> QED
  BY <1>1, <1>3

\* The account of every attempt is sound in every interleaving of attempts, timeouts and
\* joins (connect_diagnostics.rs).
THEOREM TraceInvariant == TraceSpec => []TraceInv
<1>1. TraceInv /\ [TraceNext]_traceVars => TraceInv'
  <2> SUFFICES ASSUME TraceInv, [TraceNext]_traceVars PROVE TraceInv'
    OBVIOUS
  <2>1. CASE TraceNext
    BY <2>1, TraceOpening, TraceReplies, TraceCloses, TraceRest DEF TraceNext
  <2>2. CASE UNCHANGED traceVars
    BY <2>2 DEF traceVars, TraceInv, TraceSound, IsUnderWay, IsOver, TimeKept, LeftBehind, ReplyKept
  <2> QED
    BY <2>1, <2>2
<1> QED
  BY <1>1, TraceStart, PTL DEF TraceSpec

\* Wherever an attempt ends, by an answer, an error or the total timeout in any await
\* (connect_upstream_with_policy), exactly the phases it reached have a duration, the
\* durations add up to the time it took, and a handshake that was sent has its cause.
THEOREM TracesHold == TraceSpec => []TracesAddUp
<1>1. TraceInv => TracesAddUp
  <2> SUFFICES ASSUME TraceInv, NEW a \in Attempts, trace[a].at = "over"
               PROVE  LET t == trace[a]
                          reached == {p \in Phases : t.durations[p] # Unreached}
                      IN /\ reached = 1 .. t.phase
                         /\ Spent(t.durations) = t.ended - t.began
                         /\ (t.reply # NoReply) = (t.phase >= PhaseReply)
                         /\ t.reply # NoReply => t.reply.cause # "none"
    BY DEF TracesAddUp
  <2> DEFINE t == trace[a]
  <2>0. t \in TraceRecords /\ IsOver(t)
    BY DEF TraceInv, TraceSound
  <2> HIDE DEF t
  <2>1. {p \in Phases : t.durations[p] # Unreached} = 1 .. t.phase
    <3>1. \A p \in Phases : t.durations[p] # Unreached <=> p <= t.phase
      BY <2>0 DEF IsOver, LeftBehind, Unreached
    <3>2. t.phase \in 1 .. 4
      BY <2>0 DEF TraceRecords, Phases
    <3> QED
      BY <3>1, <3>2 DEF Phases
  <2>2. Spent(t.durations) = t.ended - t.began
    BY <2>0 DEF IsOver
  <2>3. (t.phase >= PhaseReply) \in BOOLEAN
    BY <2>0, TraceFields DEF PhaseReply
  <2>4. /\ (t.reply # NoReply) = (t.phase >= PhaseReply)
        /\ t.reply # NoReply => t.reply.cause # "none"
    <3>1. t.reply # NoReply <=> t.phase >= PhaseReply
      BY <2>0 DEF IsOver, ReplyKept, NoReply
    <3> QED
      BY <2>0, <2>3, <3>1 DEF IsOver
  <2> QED
    BY <2>1, <2>2, <2>4 DEF t
<1> QED
  BY <1>1, TraceInvariant, PTL

-----------------------------------------------------------------------------
(***************************************************************************)
(* The tracker.  An announce on the wire carries what its call was made    *)
(* with; an answer on the wire, by whomever and whenever it is read, is    *)
(* one that the tracker gave to that call, and stays good: the journal and *)
(* the seeded peers only grow.                                             *)
(***************************************************************************)
Calls ==
  [at : {"connecting", "announcing", "done", "failed"}, socket : Sockets, hash : SwarmHashes, port : Ports,
   event : WireEvents, why : {"none", "io", "timeout", "malformed", "mismatch", "tracker"},
   peers : SUBSET TrackerPeers]

JournalEntries == [ip : STRING, port : Ports, hash : SwarmHashes, event : WireEvents]

CallerOf(c) == <<IpOf[c.socket], c.port>>

\* What the tracker may answer a call
GoodAnswer(c, peers) ==
  /\ \E i \in EntriesOf(c.hash, CallerOf(c)) : journal[i].event = EventRead(c.event)
  /\ \A p \in peers :
       /\ p \in TrackerPeers /\ p # CallerOf(c)
       /\ <<c.hash, p>> \in seeded
          \/ \E i \in EntriesOf(c.hash, p) : journal[i].event # "stopped"

IsAnnounceOf(d, a) ==
  /\ d.tx = AnnounceTx(a) /\ call[a] \in Calls
  /\ d.from = call[a].socket /\ d.hash = call[a].hash /\ d.port = call[a].port /\ d.event = call[a].event

WireSound ==
  \A d \in wire :
    /\ d.kind = "announce" => \E a \in Announces : IsAnnounceOf(d, a)
    /\ d.kind = "announced" => \E a \in Announces :
         d.tx = AnnounceTx(a) /\ call[a] \in Calls /\ GoodAnswer(call[a], d.peers)

CallsSound ==
  /\ call \in [Announces -> {NoCall} \union Calls]
  /\ \A a \in Announces : call[a].at = "done" => GoodAnswer(call[a], call[a].peers)

TrackerTypes == journal \in Seq(JournalEntries) /\ registry \in [SwarmHashes -> [TrackerPeers -> {0, 1}]]

TrackerInv == TrackerTypes /\ CallsSound /\ WireSound /\ RegistryFollowsJournal

\* The registry follows the journal for one peer
Follows(h, p) ==
  /\ registry[h][p] \in {0, 1}
  /\ <<h, p>> \notin seeded =>
       (registry[h][p] = 1 <=>
          \E i \in EntriesOf(h, p) : /\ journal[i].event # "stopped"
                                     /\ \A j \in EntriesOf(h, p) : j <= i)

\* The journal only grows at its end, and the entries of a peer with it.
LEMMA JournalGrows ==
  ASSUME TrackerTypes, NEW e \in JournalEntries, journal' = Append(journal, e), NEW h, NEW p
  PROVE  /\ journal' \in Seq(JournalEntries) /\ Len(journal') = Len(journal) + 1 /\ Len(journal) \in Nat
         /\ \A i \in EntriesOf(h, p) : i \in EntriesOf(h, p)' /\ journal'[i] = journal[i]
         /\ \A i \in EntriesOf(h, p)' : i \in EntriesOf(h, p) \/ i = Len(journal) + 1
         /\ Len(journal) + 1 \in EntriesOf(h, p)' <=> e.hash = h /\ <<e.ip, e.port>> = p
         /\ journal'[Len(journal) + 1] = e
         /\ \A i \in EntriesOf(h, p) : i \in 1 .. Len(journal)
<1>1. /\ journal \in Seq(JournalEntries) /\ Len(journal) \in Nat
      /\ journal' \in Seq(JournalEntries) /\ Len(journal') = Len(journal) + 1
      /\ \A i \in 1 .. Len(journal) : journal'[i] = journal[i]
      /\ journal'[Len(journal) + 1] = e
  BY DEF TrackerTypes
<1>2. EntriesOf(h, p)' = {i \in 1 .. Len(journal') : /\ journal'[i].hash = h
                                                     /\ <<journal'[i].ip, journal'[i].port>> = p}
  BY DEF EntriesOf
<1> QED
  BY <1>1, <1>2 DEF EntriesOf

\* An answer that was good stays good.
LEMMA AnswersLast ==
  ASSUME NEW c, NEW peers, GoodAnswer(c, peers), seeded \subseteq seeded',
         \A h, p : \A i \in EntriesOf(h, p) : i \in EntriesOf(h, p)' /\ journal'[i] = journal[i]
  PROVE  GoodAnswer(c, peers)'
<1>1. \E i \in EntriesOf(c.hash, CallerOf(c))' : journal'[i].event = EventRead(c.event)
  BY DEF GoodAnswer
<1>2. ASSUME NEW p \in peers
      PROVE  /\ p \in TrackerPeers /\ p # CallerOf(c)
             /\ <<c.hash, p>> \in seeded' \/ \E i \in EntriesOf(c.hash, p)' : journal'[i].event # "stopped"
  BY DEF GoodAnswer
<1> QED
  BY <1>1, <1>2 DEF GoodAnswer, CallerOf, EntriesOf

\* A call that was made and is over or waits is a call.
LEMMA CallFields ==
  ASSUME CallsSound, NEW a \in Announces
  PROVE  /\ call[a].at # "idle" => call[a] \in Calls
         /\ call[a] \in Calls => /\ call[a].socket \in Sockets /\ call[a].hash \in SwarmHashes
                                 /\ call[a].port \in Ports /\ call[a].event \in WireEvents
                                 /\ call[a] # NoCall /\ call[a].at # "idle"
<1>1. call[a] = NoCall \/ call[a] \in Calls
  BY DEF CallsSound
<1>2. NoCall.at = "idle"
  BY DEF NoCall
<1>3. call[a] \in Calls => /\ call[a].at # "idle" /\ call[a].socket \in Sockets /\ call[a].hash \in SwarmHashes
                           /\ call[a].port \in Ports /\ call[a].event \in WireEvents
  BY DEF Calls
<1> QED
  BY <1>1, <1>2, <1>3

LEMMA TrackerStart == TrackerInit => TrackerInv
<1> SUFFICES ASSUME TrackerInit PROVE TrackerInv
  OBVIOUS
<1>1. TrackerTypes
  BY DEF TrackerInit, TrackerTypes
<1>2. CallsSound
  BY DEF TrackerInit, CallsSound, NoCall
<1>3. WireSound
  BY DEF TrackerInit, WireSound
<1>4. RegistryFollowsJournal
  <2>1. \A h, p : EntriesOf(h, p) = {}
    BY DEF TrackerInit, EntriesOf
  <2> QED
    BY <2>1 DEF TrackerInit, RegistryFollowsJournal
<1> QED
  BY <1>1, <1>2, <1>3, <1>4 DEF TrackerInv

\* A step that changes one call, none of whose arguments it touches, and may send a
\* request of that call.
LEMMA CallChanges ==
  ASSUME TrackerInv, NEW a \in Announces, NEW c \in Calls,
         call' = [call EXCEPT ![a] = c], UNCHANGED <<registry, journal, seeded>>,
         call[a] \in Calls => /\ c.socket = call[a].socket /\ c.hash = call[a].hash
                              /\ c.port = call[a].port /\ c.event = call[a].event,
         c.at = "done" => GoodAnswer(c, c.peers),
         \A d \in wire' : d \in wire \/ d.kind = "connect" \/ (d.kind = "announce" /\ IsAnnounceOf(d, a)')
  PROVE  TrackerInv'
<1> USE DEF TrackerInv
<1>1. TrackerTypes'
  <2>1. journal' = journal /\ registry' = registry /\ TrackerTypes
    OBVIOUS
  <2> QED
    BY ONLY <2>1, Zenon DEF TrackerTypes
<1>2. RegistryFollowsJournal'
  <2>1. journal' = journal /\ registry' = registry /\ seeded' = seeded /\ RegistryFollowsJournal
    OBVIOUS
  <2>2. \A h, p : EntriesOf(h, p)' = EntriesOf(h, p)
    BY <2>1 DEF EntriesOf
  <2>3. \A h \in SwarmHashes, p \in TrackerPeers : Follows(h, p)
    BY <2>1 DEF RegistryFollowsJournal, Follows
  <2>4. ASSUME NEW h \in SwarmHashes, NEW p \in TrackerPeers PROVE Follows(h, p)'
    BY ONLY <2>1, <2>2, <2>3 DEF Follows
  <2> QED
    BY <2>4 DEF RegistryFollowsJournal, Follows
<1>3. \A e, peers : GoodAnswer(e, peers) => GoodAnswer(e, peers)'
  BY DEF GoodAnswer, CallerOf, EntriesOf
<1>4. call' \in [Announces -> {NoCall} \union Calls]
  BY DEF CallsSound
<1>5. CallsSound'
  <2>1. ASSUME NEW b \in Announces, call'[b].at = "done" PROVE GoodAnswer(call'[b], call'[b].peers)
    BY <2>1 DEF CallsSound
  <2>2. ASSUME NEW b \in Announces, call'[b].at = "done" PROVE GoodAnswer(call[b], call[b].peers)'
    BY <1>3, <2>1, <2>2 DEF GoodAnswer, CallerOf, EntriesOf
  <2> QED
    BY <1>4, <2>2 DEF CallsSound
<1>6. WireSound'
  <2>1. ASSUME NEW b \in Announces, call[b] \in Calls
        PROVE  /\ call'[b] \in Calls /\ call'[b].socket = call[b].socket /\ call'[b].hash = call[b].hash
               /\ call'[b].port = call[b].port /\ call'[b].event = call[b].event
    BY <2>1 DEF CallsSound
  <2>2. ASSUME NEW d \in wire', d.kind = "announce" PROVE \E b \in Announces : IsAnnounceOf(d, b)'
    <3>1. CASE d \in wire
      <4>1. PICK b \in Announces : IsAnnounceOf(d, b)
        BY <2>2, <3>1 DEF WireSound
      <4>2. IsAnnounceOf(d, b)'
        BY <2>1, <4>1 DEF IsAnnounceOf
      <4> QED
        BY <4>2
    <3> QED
      BY <2>2, <3>1
  <2>3. ASSUME NEW d \in wire', d.kind = "announced"
        PROVE  \E b \in Announces : d.tx = AnnounceTx(b) /\ call'[b] \in Calls /\ GoodAnswer(call[b], d.peers)'
    <3>1. PICK b \in Announces : d.tx = AnnounceTx(b) /\ call[b] \in Calls /\ GoodAnswer(call[b], d.peers)
      BY <2>3 DEF WireSound
    <3>2. GoodAnswer(call'[b], d.peers)
      BY <2>1, <3>1 DEF GoodAnswer, CallerOf
    <3>3. GoodAnswer(call[b], d.peers)'
      BY <3>2 DEF GoodAnswer, CallerOf, EntriesOf
    <3> QED
      BY <2>1, <3>1, <3>3
  <2> QED
    BY <2>2, <2>3 DEF WireSound
<1> QED
  BY <1>1, <1>2, <1>5, <1>6

\* What is on the wire and what the calls returned stays good while answers do.
LEMMA AnswersKept ==
  ASSUME CallsSound, WireSound, call' = call,
         \A c, peers : GoodAnswer(c, peers) => GoodAnswer(c, peers)',
         \A d \in wire' : \/ d \in wire
                          \/ d.kind \notin {"announce", "announced"}
                          \/ /\ d.kind = "announced"
                             /\ \E a \in Announces : d.tx = AnnounceTx(a) /\ call[a] \in Calls
                                                     /\ GoodAnswer(call[a], d.peers)'
  PROVE  CallsSound' /\ WireSound'
<1>1. ASSUME NEW a \in Announces, NEW peers, GoodAnswer(call[a], peers) PROVE GoodAnswer(call[a], peers)'
  <2>1. PICK c : c = call[a]
    OBVIOUS
  <2>2. GoodAnswer(c, peers)'
    BY <1>1, <2>1
  <2>3. c = call'[a]
    BY <2>1
  <2> QED
    BY <2>2, <2>3 DEF GoodAnswer, CallerOf
<1>2. CallsSound'
  BY <1>1 DEF CallsSound
<1>3. ASSUME NEW d \in wire', d.kind = "announce" PROVE \E a \in Announces : IsAnnounceOf(d, a)'
  BY <1>3 DEF WireSound, IsAnnounceOf
<1>4. ASSUME NEW d \in wire', d.kind = "announced"
      PROVE  \E a \in Announces : d.tx = AnnounceTx(a) /\ call'[a] \in Calls /\ GoodAnswer(call[a], d.peers)'
  BY <1>1, <1>4 DEF WireSound
<1> QED
  BY <1>2, <1>3, <1>4 DEF WireSound

\* A call begins, is answered or fails.
LEMMA CallsMove ==
  ASSUME TrackerInv, NEW a \in Announces,
         \/ \E w \in Wanted[a] : AnnounceBegins(a, w[1], w[2], w[3], w[4])
         \/ \E d \in wire : ConnectReply(a, d) \/ AnnounceReply(a, d)
         \/ ReplyMissing(a)
  PROVE  TrackerInv'
<1>0. CallsSound /\ WireSound /\ call \in [Announces -> {NoCall} \union Calls]
  BY DEF TrackerInv, CallsSound
<1>1. CASE \E w \in Wanted[a] : AnnounceBegins(a, w[1], w[2], w[3], w[4])
  <2>1. PICK w \in Wanted[a] : AnnounceBegins(a, w[1], w[2], w[3], w[4])
    BY <1>1
  <2>2. w \in Sockets \X SwarmHashes \X Ports \X WireEvents
    BY TrackerAssumption
  <2>3. w[1] \in Sockets /\ w[2] \in SwarmHashes /\ w[3] \in Ports /\ w[4] \in WireEvents
    BY <2>2
  <2>4. call[a] \notin Calls
    BY <2>1 DEF AnnounceBegins, NoCall, Calls
  <2>5. ASSUME NEW at \in {"connecting", "failed"}, NEW why \in {"none", "io"}
        PROVE  Asked(w[1], w[2], w[3], w[4], at, why) \in Calls /\ Asked(w[1], w[2], w[3], w[4], at, why).at # "done"
    BY <2>3 DEF Asked, Calls
  <2>6. PICK c \in Calls : /\ call' = [call EXCEPT ![a] = c] /\ c.at # "done"
                           /\ wire' = wire \/ wire' = wire \union {ConnectRequest(a, w[1])}
    BY <2>1, <2>5 DEF AnnounceBegins
  <2>7. ConnectRequest(a, w[1]).kind = "connect"
    BY DEF ConnectRequest
  <2>8. UNCHANGED <<registry, journal, seeded>>
    BY <2>1 DEF AnnounceBegins
  <2>9. \A d \in wire' : d \in wire \/ d.kind = "connect"
    BY <2>6, <2>7
  <2> QED
    BY <2>4, <2>6, <2>8, <2>9, CallChanges
<1>2. ASSUME NEW why \in {"io", "timeout", "malformed", "mismatch", "tracker"}, Fails(a, why), call[a].at # "idle",
             UNCHANGED <<registry, journal, seeded>>
      PROVE  TrackerInv'
  <2>1. call[a] \in Calls
    BY <1>0, <1>2, CallFields
  <2> DEFINE c == [call[a] EXCEPT !.at = "failed", !.why = why]
  <2>2. /\ c \in Calls /\ c.at = "failed" /\ c.socket = call[a].socket /\ c.hash = call[a].hash
        /\ c.port = call[a].port /\ c.event = call[a].event
    BY <2>1 DEF Calls
  <2>3. call' = [call EXCEPT ![a] = c] /\ wire' = wire
    BY <1>0, <1>2, <2>1 DEF Fails, Calls
  <2> HIDE DEF c
  <2> QED
    BY <1>2, <2>2, <2>3, CallChanges
<1>3. CASE ReplyMissing(a)
  <2>1. \E why \in {"io", "timeout"} : Fails(a, why)
    BY <1>3 DEF ReplyMissing
  <2>2. call[a].at # "idle" /\ UNCHANGED <<registry, journal, seeded>>
    BY <1>3 DEF ReplyMissing, Waiting
  <2> QED
    BY <1>2, <2>1, <2>2
<1>4. ASSUME NEW d, NEW tx, NEW kind, Refusal(d, tx, kind) # "none"
      PROVE  Refusal(d, tx, kind) \in {"io", "timeout", "malformed", "mismatch", "tracker"}
  BY <1>4 DEF Refusal
<1>5. ASSUME NEW d \in wire, ConnectReply(a, d) PROVE TrackerInv'
  <2>1. call[a].at = "connecting" /\ call[a].at # "idle" /\ UNCHANGED <<registry, journal, seeded>>
    BY <1>5 DEF ConnectReply
  <2>2. call[a] \in Calls
    BY <1>0, <2>1, CallFields
  <2>3. \/ \E why \in {"io", "timeout", "malformed", "mismatch", "tracker"} : Fails(a, why)
        \/ /\ call' = [call EXCEPT ![a].at = "announcing"] /\ wire' = wire \union {AnnounceRequest(a)}
    BY <1>4, <1>5 DEF ConnectReply
  <2>4. CASE /\ call' = [call EXCEPT ![a].at = "announcing"] /\ wire' = wire \union {AnnounceRequest(a)}
    <3> DEFINE c == [call[a] EXCEPT !.at = "announcing"]
    <3>1. /\ c \in Calls /\ c.at = "announcing" /\ c.socket = call[a].socket /\ c.hash = call[a].hash
          /\ c.port = call[a].port /\ c.event = call[a].event
      BY <2>2 DEF Calls
    <3>2. call' = [call EXCEPT ![a] = c] /\ call'[a] = c
      BY <1>0, <2>2, <2>4 DEF Calls
    <3> HIDE DEF c
    <3>3. PICK r : r = AnnounceRequest(a)
      OBVIOUS
    <3>4. r.kind = "announce" /\ IsAnnounceOf(r, a)'
      BY <3>1, <3>2, <3>3 DEF AnnounceRequest, IsAnnounceOf
    <3>5. \A e \in wire' : e \in wire \/ e.kind = "connect" \/ (e.kind = "announce" /\ IsAnnounceOf(e, a)')
      BY <2>4, <3>3, <3>4
    <3> QED
      BY <2>1, <3>1, <3>2, <3>5, CallChanges
  <2> QED
    BY <1>2, <2>1, <2>3, <2>4
<1>6. ASSUME NEW d \in wire, AnnounceReply(a, d) PROVE TrackerInv'
  <2>1. call[a].at = "announcing" /\ call[a].at # "idle" /\ UNCHANGED <<registry, journal, seeded>>
    BY <1>6 DEF AnnounceReply
  <2>2. call[a] \in Calls
    BY <1>0, <2>1, CallFields
  <2>3. \/ \E why \in {"io", "timeout", "malformed", "mismatch", "tracker"} : Fails(a, why)
        \/ /\ Refusal(d, AnnounceTx(a), "announced") = "none" /\ wire' = wire
           /\ \E kept \in CutToBuffer(d.peers) : call' = [call EXCEPT ![a].at = "done", ![a].peers = kept]
    BY <1>4, <1>6 DEF AnnounceReply
  <2>4. CASE /\ Refusal(d, AnnounceTx(a), "announced") = "none" /\ wire' = wire
             /\ \E kept \in CutToBuffer(d.peers) : call' = [call EXCEPT ![a].at = "done", ![a].peers = kept]
    <3>1. d.kind = "announced" /\ d.tx = AnnounceTx(a)
      BY <2>4 DEF Refusal
    <3>2. PICK b \in Announces : d.tx = AnnounceTx(b) /\ GoodAnswer(call[b], d.peers)
      BY <1>0, <3>1 DEF WireSound
    <3>3. b = a
      BY <3>1, <3>2 DEF AnnounceTx
    <3>4. PICK kept \in CutToBuffer(d.peers) : call' = [call EXCEPT ![a].at = "done", ![a].peers = kept]
      BY <2>4
    <3>5. kept \subseteq d.peers
      BY DEF CutToBuffer
    <3>6. GoodAnswer(call[a], kept) /\ kept \subseteq TrackerPeers
      BY <3>2, <3>3, <3>5 DEF GoodAnswer
    <3> DEFINE c == [call[a] EXCEPT !.at = "done", !.peers = kept]
    <3>7. /\ c \in Calls /\ c.socket = call[a].socket /\ c.hash = call[a].hash
          /\ c.port = call[a].port /\ c.event = call[a].event /\ c.peers = kept
      BY <2>2, <3>6 DEF Calls
    <3>8. call' = [call EXCEPT ![a] = c]
      BY <1>0, <2>2, <3>4 DEF Calls
    <3> HIDE DEF c
    <3>9. GoodAnswer(c, c.peers)
      BY <3>6, <3>7 DEF GoodAnswer, CallerOf
    <3> QED
      BY <2>1, <2>4, <3>7, <3>8, <3>9, CallChanges
  <2> QED
    BY <1>2, <2>1, <2>3, <2>4
<1> QED
  BY <1>1, <1>3, <1>5, <1>6

\* The harness seeds a peer.
LEMMA SeedKeeps ==
  ASSUME TrackerInv, NEW w \in Seeds, Seed(w[1], w[2])
  PROVE  TrackerInv'
<1>0. TrackerTypes /\ CallsSound /\ WireSound /\ RegistryFollowsJournal
  BY DEF TrackerInv
<1>1. w[1] \in SwarmHashes /\ w[2] \in TrackerPeers /\ w = <<w[1], w[2]>>
  BY TrackerAssumption
<1>2. /\ registry' = [registry EXCEPT ![w[1]][w[2]] = IF @ = 0 THEN 1 ELSE @]
      /\ seeded' = seeded \union {<<w[1], w[2]>>} /\ call' = call /\ wire' = wire /\ journal' = journal
  BY DEF Seed
<1>3. TrackerTypes'
  <2>1. registry' \in [SwarmHashes -> [TrackerPeers -> {0, 1}]]
    BY <1>0, <1>1, <1>2 DEF TrackerTypes
  <2> QED
    BY <1>0, <1>2, <2>1 DEF TrackerTypes
<1>4. \A h, p : EntriesOf(h, p)' = EntriesOf(h, p)
  BY <1>2 DEF EntriesOf
<1>5. RegistryFollowsJournal'
  <2>1. ASSUME NEW h \in SwarmHashes, NEW p \in TrackerPeers PROVE Follows(h, p)'
    <3>1. Follows(h, p)
      BY <1>0 DEF RegistryFollowsJournal, Follows
    <3>2. registry'[h][p] \in {0, 1}
      BY <1>3 DEF TrackerTypes
    <3>3. <<h, p>> \notin seeded' => <<h, p>> \notin seeded /\ registry'[h][p] = registry[h][p]
      BY <1>0, <1>1, <1>2 DEF TrackerTypes
    <3> QED
      BY <1>2, <1>4, <3>1, <3>2, <3>3 DEF Follows
  <2> QED
    BY <2>1 DEF RegistryFollowsJournal, Follows
<1>6. \A h, p : \A i \in EntriesOf(h, p) : i \in EntriesOf(h, p)' /\ journal'[i] = journal[i]
  BY <1>2, <1>4
<1>7. \A c, peers : GoodAnswer(c, peers) => GoodAnswer(c, peers)'
  BY <1>2, <1>6, AnswersLast
<1> QED
  BY <1>0, <1>2, <1>3, <1>5, <1>7, AnswersKept DEF TrackerInv

\* Whatever else the tracker, or someone else's, sends is no announce and no answer.
LEMMA OthersSend ==
  ASSUME TrackerInv, TrackerStops \/ \E d \in wire : TakeConnect(d) \/ TakeElsewhere(d)
  PROVE  TrackerInv'
<1>0. TrackerTypes /\ CallsSound /\ WireSound /\ RegistryFollowsJournal
  BY DEF TrackerInv
<1>1. call' = call /\ registry' = registry /\ journal' = journal /\ seeded' = seeded
  BY DEF TrackerStops, TakeConnect, TakeElsewhere
<1>2. \A d \in wire' : d \in wire \/ d.kind \notin {"announce", "announced"}
  BY DEF TrackerStops, TakeConnect, TakeElsewhere
<1>3. \A h, p : EntriesOf(h, p)' = EntriesOf(h, p)
  BY <1>1 DEF EntriesOf
<1>4. \A c, peers : GoodAnswer(c, peers) => GoodAnswer(c, peers)'
  BY <1>1, <1>3, AnswersLast
<1>5. CallsSound' /\ WireSound'
  BY <1>0, <1>1, <1>2, <1>4, AnswersKept
<1>6. TrackerTypes'
  BY <1>0, <1>1 DEF TrackerTypes
<1>7. RegistryFollowsJournal'
  <2>1. ASSUME NEW h \in SwarmHashes, NEW p \in TrackerPeers PROVE Follows(h, p)'
    <3>1. Follows(h, p)
      BY <1>0 DEF RegistryFollowsJournal, Follows
    <3> QED
      BY <1>1, <1>3, <3>1 DEF Follows
  <2> QED
    BY <2>1 DEF RegistryFollowsJournal, Follows
<1> QED
  BY <1>5, <1>6, <1>7 DEF TrackerInv

\* The tracker takes an announce: it journals, registers and answers it.
LEMMA AnnounceTaken ==
  ASSUME TrackerInv, NEW d \in wire, TakeAnnounce(d)
  PROVE  TrackerInv'
<1>0. TrackerTypes /\ CallsSound /\ WireSound /\ RegistryFollowsJournal
  BY DEF TrackerInv
<1>1. PICK a \in Announces : IsAnnounceOf(d, a)
  BY <1>0 DEF TakeAnnounce, WireSound
<1> DEFINE me == <<IpOf[d.from], d.port>>
           e == [ip |-> IpOf[d.from], port |-> d.port, hash |-> d.hash, event |-> EventRead(d.event)]
           k == Len(journal) + 1
<1>2. /\ d.from \in Sockets /\ d.hash \in SwarmHashes /\ d.port \in Ports /\ d.event \in WireEvents
      /\ IpOf[d.from] \in STRING /\ call[a] \in Calls
  BY <1>0, <1>1, CallFields, TrackerAssumption DEF IsAnnounceOf
<1>3. EventRead(d.event) \in WireEvents
  BY <1>2 DEF EventRead, WireEvents
<1>4. e \in JournalEntries /\ journal' = Append(journal, e)
  BY <1>2, <1>3 DEF JournalEntries, TakeAnnounce
<1>5. e.hash = d.hash /\ <<e.ip, e.port>> = me /\ e.event = EventRead(d.event)
  OBVIOUS
<1>6. call' = call /\ seeded' = seeded /\ registry' = Registered(d)
  BY DEF TakeAnnounce
<1> HIDE DEF e
<1>7. \A h, p : \A i \in EntriesOf(h, p) : i \in EntriesOf(h, p)' /\ journal'[i] = journal[i]
  BY <1>0, <1>4, JournalGrows
<1>8. \A c, peers : GoodAnswer(c, peers) => GoodAnswer(c, peers)'
  BY <1>6, <1>7, AnswersLast
<1>9. IpOf[d.from] # "v6" => me \in TrackerPeers
  BY <1>2 DEF TrackerPeers
<1>10. ASSUME NEW p \in TrackerPeers, IpOf[d.from] = "v6" PROVE p # me
  BY <1>10 DEF TrackerPeers
<1> HIDE DEF me
<1>11. IpOf[d.from] # "v6" =>
         registry' = [registry EXCEPT ![d.hash][me] = IF EventRead(d.event) = "stopped" THEN 0
                                                      ELSE IF @ = 0 THEN @ + 1 ELSE @]
  BY <1>6 DEF Registered, me
<1>12. IpOf[d.from] = "v6" => registry' = registry
  BY <1>6 DEF Registered
<1>13. /\ registry' \in [SwarmHashes -> [TrackerPeers -> {0, 1}]]
       /\ \A h \in SwarmHashes, p \in TrackerPeers :
            IF h = d.hash /\ p = me THEN registry'[h][p] = IF EventRead(d.event) = "stopped" THEN 0 ELSE 1
                                    ELSE registry'[h][p] = registry[h][p]
  <2>0. registry \in [SwarmHashes -> [TrackerPeers -> {0, 1}]]
    BY <1>0 DEF TrackerTypes
  <2>1. CASE IpOf[d.from] = "v6"
    BY <1>10, <1>12, <2>0, <2>1
  <2>2. CASE IpOf[d.from] # "v6"
    <3>1. me \in TrackerPeers
      BY <1>9, <2>2
    <3> QED
      BY <1>2, <1>11, <2>0, <2>2, <3>1
  <2> QED
    BY <2>1, <2>2
<1>14. TrackerTypes'
  BY <1>0, <1>4, <1>13, JournalGrows DEF TrackerTypes
<1>15. ASSUME NEW h \in SwarmHashes, NEW p \in TrackerPeers PROVE Follows(h, p)'
  <2>0. Follows(h, p)
    BY <1>0 DEF RegistryFollowsJournal, Follows
  <2>1. /\ Len(journal) \in Nat
        /\ \A i \in EntriesOf(h, p) : i \in EntriesOf(h, p)' /\ journal'[i] = journal[i] /\ i \in 1 .. Len(journal)
        /\ \A i \in EntriesOf(h, p)' : i \in EntriesOf(h, p) \/ i = k
        /\ k \in EntriesOf(h, p)' <=> d.hash = h /\ me = p
        /\ journal'[k].event = EventRead(d.event)
    <3>1. /\ Len(journal) \in Nat
          /\ \A i \in EntriesOf(h, p) : i \in EntriesOf(h, p)' /\ journal'[i] = journal[i]
          /\ \A i \in EntriesOf(h, p)' : i \in EntriesOf(h, p) \/ i = k
          /\ k \in EntriesOf(h, p)' <=> e.hash = h /\ <<e.ip, e.port>> = p
          /\ journal'[k] = e
          /\ \A i \in EntriesOf(h, p) : i \in 1 .. Len(journal)
      BY <1>0, <1>4, JournalGrows
    <3> HIDE DEF k
    <3> QED
      BY <1>5, <3>1
  <2>2. registry'[h][p] \in {0, 1}
    BY <1>13
  <2> HIDE DEF k
  <2>3. CASE h = d.hash /\ p = me
    <3>1. registry'[h][p] = 1 <=> EventRead(d.event) # "stopped"
      BY <1>13, <2>3
    <3>2. k \in EntriesOf(h, p)' /\ \A j \in EntriesOf(h, p)' : j <= k
      BY <2>1, <2>3 DEF k
    <3>3. \A i \in EntriesOf(h, p)' : (\A j \in EntriesOf(h, p)' : j <= i) => i = k
      BY <2>1, <3>2 DEF k
    <3>4. registry'[h][p] = 1 <=> \E i \in EntriesOf(h, p)' : /\ journal'[i].event # "stopped"
                                                               /\ \A j \in EntriesOf(h, p)' : j <= i
      BY <2>1, <3>1, <3>2, <3>3
    <3> QED
      BY <2>2, <3>4 DEF Follows
  <2>4. CASE ~(h = d.hash /\ p = me)
    <3>1. EntriesOf(h, p)' = EntriesOf(h, p)
      BY <2>1, <2>4
    <3>2. registry'[h][p] = registry[h][p]
      BY <1>13, <2>4
    <3> QED
      BY <1>6, <2>0, <2>1, <3>1, <3>2 DEF Follows
  <2> QED
    BY <2>3, <2>4
<1>16. RegistryFollowsJournal'
  BY <1>15 DEF RegistryFollowsJournal, Follows
<1>17. PICK peers : peers = Others(registry'[d.hash], d)
  OBVIOUS
<1>18. PICK r : r = [to |-> d.from, kind |-> "announced", tx |-> d.tx, peers |-> peers]
  OBVIOUS
<1>19. r.kind = "announced" /\ r.tx = AnnounceTx(a) /\ r.peers = peers /\ wire' = wire \union {r}
  BY <1>1, <1>17, <1>18 DEF TakeAnnounce, IsAnnounceOf
<1>20. PICK c : c = call[a]
  OBVIOUS
<1>21. GoodAnswer(c, peers)'
  <2>1. c.hash = d.hash /\ CallerOf(c) = me /\ EventRead(c.event) = EventRead(d.event)
    BY <1>1, <1>20 DEF IsAnnounceOf, CallerOf, me
  <2>2. k \in EntriesOf(c.hash, me)' /\ journal'[k].event = EventRead(c.event)
    BY <1>0, <1>4, <1>5, <2>1, JournalGrows
  <2>3. ASSUME NEW p \in peers
        PROVE  /\ p \in TrackerPeers /\ p # me
               /\ <<c.hash, p>> \in seeded' \/ \E i \in EntriesOf(c.hash, p)' : journal'[i].event # "stopped"
    <3>1. p \in TrackerPeers /\ p # me /\ registry'[d.hash][p] > 0
      BY <1>17, <2>3 DEF Others, me
    <3>2. registry'[d.hash][p] = 1
      BY <1>2, <1>13, <3>1
    <3>3. Follows(d.hash, p)'
      BY <1>2, <1>15, <3>1
    <3> QED
      BY <2>1, <3>1, <3>2, <3>3 DEF Follows
  <2>4. CallerOf(c)' = CallerOf(c)
    BY DEF CallerOf
  <2> QED
    BY <2>1, <2>2, <2>3, <2>4 DEF GoodAnswer
<1>22. GoodAnswer(call[a], r.peers)'
  BY <1>6, <1>19, <1>20, <1>21 DEF GoodAnswer, CallerOf
<1>23. CallsSound' /\ WireSound'
  <2>1. \A f \in wire' : \/ f \in wire
                         \/ /\ f.kind = "announced"
                            /\ \E b \in Announces : f.tx = AnnounceTx(b) /\ call[b] \in Calls
                                                    /\ GoodAnswer(call[b], f.peers)'
    BY <1>2, <1>19, <1>22
  <2> QED
    BY <1>0, <1>6, <1>8, <2>1, AnswersKept
<1> QED
  BY <1>14, <1>16, <1>23 DEF TrackerInv

\* Calls, journal, registry and wire agree whatever is lost, delayed or doubled on the wire.
THEOREM TrackerInvariant == TrackerSpec => []TrackerInv
<1>1. TrackerInv /\ [TrackerNext]_trackerVars => TrackerInv'
  <2> SUFFICES ASSUME TrackerInv, [TrackerNext]_trackerVars PROVE TrackerInv'
    OBVIOUS
  <2>1. CASE TrackerNext
    BY <2>1, CallsMove, SeedKeeps, OthersSend, AnnounceTaken DEF TrackerNext
  <2>2. CASE UNCHANGED trackerVars
    <3>1. TrackerTypes' /\ CallsSound' /\ WireSound' /\ RegistryFollowsJournal'
      BY <2>2 DEF trackerVars, TrackerInv, TrackerTypes, CallsSound, WireSound, RegistryFollowsJournal, GoodAnswer,
                  CallerOf, EntriesOf, IsAnnounceOf
    <3> QED
      BY <3>1 DEF TrackerInv
  <2> QED
    BY <2>1, <2>2
<1> QED
  BY <1>1, TrackerStart, PTL DEF TrackerSpec

\* A call of announce (client.rs) that succeeds returns what the tracker answered to that
\* very announce, though any datagram may be lost, doubled or late and addresses are used
\* again; and the tracker's list of peers is what its journal says.
THEOREM TrackerHolds == TrackerSpec => []TrackerIsSound
<1>1. TrackerInv => TrackerIsSound
  BY DEF TrackerInv, TrackerIsSound, ResultIsOwn, CallsSound, GoodAnswer, CallerOf
<1> QED
  BY <1>1, TrackerInvariant, PTL

-----------------------------------------------------------------------------
\* The books of a pool's upstreams, kept side by side: the permits of its workers and
\* the account of its attempts are both right at every moment.
THEOREM UpstreamsHold == SlotsSpec /\ TraceSpec => []UpstreamsAreSound
<1>1. SlotsAreSound /\ TracesAddUp => UpstreamsAreSound
  BY DEF UpstreamsAreSound
<1> QED
  BY <1>1, SlotsHold, TracesHold, PTL
=============================================================================
