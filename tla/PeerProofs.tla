----------------------------- MODULE PeerProofs -----------------------------
(***************************************************************************)
(* The node among its peers, proved for every number of endpoints, caches, *)
(* leases and connections: the transports of a session (PeerAdmission),    *)
(* the writers of the warm peer file (WarmPeers), the registry of what is  *)
(* seeded (SeedRegistry) and the publishers over RTMP (RtmpIngest).        *)
(***************************************************************************)
EXTENDS PeerAdmission, WarmPeers, SeedRegistry, RtmpIngest, FiniteSetTheorems, TLAPS

-----------------------------------------------------------------------------
(***************************************************************************)
(* The transports of a session.  Which of the sets may hold anything is a  *)
(* matter of the session's position; in a connect round whatever is under  *)
(* way was tried, and what is about to be activated fits into the pool.    *)
(***************************************************************************)
RoundStages == {"fill", "join", "chosen"}

\* Where each kind of transport may be
TransportPlaces ==
  /\ dials # {} => turnStage \in RoundStages \union {"pool"}
  /\ ups # {} => turnStage \in RoundStages \union {"activate"}
  /\ active # {} => turnStage \in {"activate", "pool"}
  /\ turnStage # "pool" => receipts = {} /\ heldPeers = {} /\ gossip = {} /\ reserved = {} /\ leaked = {}

TransportTypes ==
  /\ dials \subseteq Peer /\ ups \subseteq Peer /\ active \subseteq Peer /\ receipts \subseteq Peer
  /\ heldPeers \subseteq Peer /\ gossip \subseteq Peer /\ reserved \subseteq Peer
  /\ leaked \subseteq Peer

\* No endpoint has two transports
TransportsApart ==
  /\ dials \cap (receipts \union heldPeers \union active \union ups) = {}
  /\ receipts \cap (heldPeers \union active) = {} /\ heldPeers \cap active = {}
  /\ ups \cap active = {}
  /\ leaked \cap (dials \union receipts \union heldPeers \union active) = {}
  /\ turnStage = "pool" => reserved = receipts \union dials \union leaked
  /\ turnStage \in RoundStages => dials \union ups \subseteq tried

TransportLimits ==
  /\ Cardinality(ups \union active) <= PoolSize \/ turnStage \in RoundStages
  /\ turnStage = "pool" => Cardinality(reserved) + Cardinality(heldPeers) + Cardinality(gossip) <= MaxParallel
  /\ Cardinality(dials \union ups) <= MaxParallel

TransportInv == TransportTypes /\ TransportPlaces /\ TransportsApart /\ TransportLimits

\* Sets of endpoints are finite and count as they should.
LEMMA PeerCounts ==
  ASSUME NEW A \in SUBSET Peer, NEW B \in SUBSET Peer
  PROVE  /\ Cardinality(A) \in Nat /\ Cardinality(B) \in Nat
         /\ Cardinality(A \union B) \in Nat
         /\ A \subseteq B => Cardinality(A) <= Cardinality(B)
         /\ Cardinality(A \union B) <= Cardinality(A) + Cardinality(B)
         /\ A \cap B = {} => Cardinality(A \union B) = Cardinality(A) + Cardinality(B)
<1>1. IsFiniteSet(A) /\ IsFiniteSet(B) /\ IsFiniteSet(A \union B) /\ IsFiniteSet(A \cap B)
  BY PeerAdmissionAssumption, FS_Subset, FS_Union
<1>2. /\ Cardinality(A) \in Nat /\ Cardinality(B) \in Nat /\ Cardinality(A \union B) \in Nat
      /\ Cardinality(A \cap B) \in Nat
  BY <1>1, FS_CardinalityType
<1>3. Cardinality(A \union B) = Cardinality(A) + Cardinality(B) - Cardinality(A \cap B)
  BY <1>1, FS_Union
<1>4. A \cap B = {} => Cardinality(A \cap B) = 0
  BY FS_EmptySet
<1>5. A \subseteq B => Cardinality(A) <= Cardinality(B)
  BY <1>1, FS_Subset
<1> QED
  BY <1>2, <1>3, <1>4, <1>5

\* Taking an element out, or putting a new one in.
LEMMA PeerCountsOne ==
  ASSUME NEW A \in SUBSET Peer, NEW a \in Peer
  PROVE  /\ Cardinality({}) = 0 /\ Cardinality({a}) = 1
         /\ a \in A => Cardinality(A \ {a}) = Cardinality(A) - 1
         /\ a \notin A => Cardinality(A \union {a}) = Cardinality(A) + 1
         /\ Cardinality(A \ {a}) <= Cardinality(A)
<1>1. IsFiniteSet(A)
  BY PeerAdmissionAssumption, FS_Subset
<1>2. Cardinality({}) = 0 /\ Cardinality({a}) = 1
  BY FS_EmptySet, FS_Singleton
<1>3. a \in A => Cardinality(A \ {a}) = Cardinality(A) - 1
  BY <1>1, FS_RemoveElement
<1>4. a \notin A => Cardinality(A \union {a}) = Cardinality(A) + 1
  BY <1>1, FS_AddElement
<1>5. Cardinality(A \ {a}) <= Cardinality(A)
  BY PeerCounts
<1> QED
  BY <1>2, <1>3, <1>4, <1>5

LEMMA LeastOfTwo ==
  ASSUME NEW m \in Int, NEW n \in Int
  PROVE  Min({m, n}) \in {m, n} /\ Min({m, n}) <= m /\ Min({m, n}) <= n
<1>1. \E x \in {m, n} : \A y \in {m, n} : x <= y
  <2>1. CASE m <= n
    BY <2>1
  <2>2. CASE n <= m
    BY <2>2
  <2> QED
    BY <2>1, <2>2
<1> QED
  BY <1>1 DEF Min

LEMMA GreatestOfTwo ==
  ASSUME NEW m \in Int, NEW n \in Int
  PROVE  Max({m, n}) \in {m, n} /\ m <= Max({m, n}) /\ n <= Max({m, n})
<1>1. \E x \in {m, n} : \A y \in {m, n} : x >= y
  <2>1. CASE n <= m
    BY <2>1
  <2>2. CASE m <= n
    BY <2>2
  <2> QED
    BY <2>1, <2>2
<1> QED
  BY <1>1 DEF Max

\* A loop over the sorted candidates takes no more than there is room for.
LEMMA FirstsFit ==
  ASSUME NEW C, NEW S \in SUBSET Peer, NEW room \in Int, NEW A \in Firsts(C, S, room)
  PROVE  A \subseteq S /\ A \in SUBSET Peer /\ Cardinality(A) \in Nat /\ (A = {} \/ Cardinality(A) <= room)
<1>1. A \subseteq S /\ Cardinality(A) = Min({Cardinality(S), IF room > 0 THEN room ELSE 0})
  BY DEF Firsts
<1>2. Cardinality(S) \in Nat /\ Cardinality(A) \in Nat
  BY <1>1, PeerCounts
<1>3. Cardinality(A) <= IF room > 0 THEN room ELSE 0
  <2>1. PICK m \in Int : m = Cardinality(S)
    BY <1>2
  <2>2. PICK n \in Int : n = IF room > 0 THEN room ELSE 0
    OBVIOUS
  <2>3. Min({m, n}) <= n
    BY LeastOfTwo
  <2>4. Cardinality(A) = Min({m, n})
    BY <1>1, <2>1, <2>2, Zenon
  <2> QED
    BY <2>2, <2>3, <2>4
<1>4. IsFiniteSet(A)
  BY <1>1, PeerAdmissionAssumption, FS_Subset
<1>5. Cardinality(A) = 0 => A = {}
  BY <1>4, FS_EmptySet
<1> QED
  BY <1>1, <1>2, <1>3, <1>5

\* What a refill adds to the reserved endpoints and the connect tasks
Refilled(act, res, tasks) ==
  \E A \in SUBSET Peer :
    /\ reserved' = res \union A /\ dials' = tasks \union A
    /\ A \cap (act \union heldPeers' \union res) = {}
    /\ A = {} \/ Cardinality(A) + Cardinality(res) + Cardinality(gossip') + Cardinality(heldPeers') <= MaxParallel

\* maybe_refill dials only endpoints without a transport, and within the limit.
LEMMA RefillFits ==
  ASSUME NEW C, NEW act \in SUBSET Peer, NEW res \in SUBSET Peer, NEW tasks \in SUBSET Peer,
         NEW exceptional, Refill(C, act, res, tasks, exceptional),
         heldPeers' \subseteq Peer, gossip' \subseteq Peer
  PROVE  Refilled(act, res, tasks)
<1>1. CASE reserved' = res /\ dials' = tasks
  BY <1>1 DEF Refilled
<1>2. CASE ~(reserved' = res /\ dials' = tasks)
  <2> DEFINE room == MaxParallel - Cardinality(gossip') - Cardinality(heldPeers')
             fits == {a \in Ready(C) \ (Busy(act) \union res) : C[a].turns = Min(Cohort(C, Busy(act), res))}
             left == room - Max({Cardinality(tasks), Cardinality(res)})
  <2>0. Ready(C) \subseteq Peer
    BY DEF Ready, Known
  <2>1. PICK A \in Firsts(C, fits, left) : reserved' = res \union A /\ dials' = tasks \union A
    BY <1>2 DEF Refill
  <2>2. fits \in SUBSET Peer /\ fits \cap (act \union heldPeers' \union res) = {}
    BY <2>0 DEF Busy
  <2>3. /\ Cardinality(tasks) \in Nat /\ Cardinality(res) \in Nat
        /\ Cardinality(gossip') \in Nat /\ Cardinality(heldPeers') \in Nat
    BY PeerCounts
  <2>4. MaxParallel \in Int
    BY PeerAdmissionAssumption
  <2>5. left \in Int /\ left <= room - Cardinality(res) /\ room \in Int
    <3>1. PICK m \in Int, n \in Int : m = Cardinality(tasks) /\ n = Cardinality(res)
      BY <2>3
    <3>2. Max({m, n}) \in {m, n} /\ n <= Max({m, n})
      BY GreatestOfTwo
    <3>3. Max({m, n}) = Max({Cardinality(tasks), Cardinality(res)})
      BY <3>1, Zenon
    <3> QED
      BY <2>3, <2>4, <3>1, <3>2, <3>3
  <2>6. A \subseteq fits /\ A \in SUBSET Peer /\ Cardinality(A) \in Nat /\ (A = {} \/ Cardinality(A) <= left)
    <3> HIDE DEF fits, left
    <3> QED
      BY <2>1, <2>2, <2>5, FirstsFit
  <2>7. A = {} \/ Cardinality(A) + Cardinality(res) + Cardinality(gossip') + Cardinality(heldPeers') <= MaxParallel
    <3> HIDE DEF left, fits
    <3> QED
      BY <2>3, <2>4, <2>5, <2>6
  <2>8. A \cap (act \union heldPeers' \union res) = {}
    <3> HIDE DEF fits
    <3> QED
      BY <2>2, <2>6
  <2> QED
    BY <2>1, <2>6, <2>7, <2>8 DEF Refilled
<1> QED
  BY <1>1, <1>2

\* An event of the pool that ends with maybe_refill: what it leaves must be apart and
\* within the limits, then so is what the refill adds.
LEMMA RefillKeeps ==
  ASSUME turnStage' = "pool", ups' = {},
         active' \subseteq Peer, receipts' \subseteq Peer, heldPeers' \subseteq Peer, gossip' \subseteq Peer,
         leaked' \subseteq Peer, Cardinality(active') <= PoolSize,
         NEW C, NEW res, NEW tasks \in SUBSET Peer, NEW exceptional,
         res = receipts' \union tasks \union leaked',
         Refill(C, active', res, tasks, exceptional),
         tasks \cap (receipts' \union heldPeers' \union active') = {},
         receipts' \cap (heldPeers' \union active') = {}, heldPeers' \cap active' = {},
         leaked' \cap (tasks \union receipts' \union heldPeers' \union active') = {},
         Cardinality(res) + Cardinality(heldPeers') + Cardinality(gossip') <= MaxParallel
  PROVE  TransportInv'
<1>0. res \in SUBSET Peer /\ active' \in SUBSET Peer
  OBVIOUS
<1>a. Refilled(active', res, tasks)
  BY <1>0, RefillFits
<1>1. PICK A \in SUBSET Peer :
        /\ reserved' = res \union A /\ dials' = tasks \union A
        /\ A \cap (active' \union heldPeers' \union res) = {}
        /\ A = {} \/ Cardinality(A) + Cardinality(res) + Cardinality(gossip') + Cardinality(heldPeers') <= MaxParallel
  BY <1>a DEF Refilled
<1>2. TransportTypes'
  BY <1>0, <1>1 DEF TransportTypes
<1>3. TransportPlaces'
  BY DEF TransportPlaces
<1>4. TransportsApart'
  BY <1>1 DEF TransportsApart, RoundStages
<1>5. TransportLimits'
  <2>1. Cardinality(reserved') + Cardinality(heldPeers') + Cardinality(gossip') <= MaxParallel
    <3>1. /\ Cardinality(A) \in Nat /\ Cardinality(res) \in Nat /\ Cardinality(gossip') \in Nat
          /\ Cardinality(heldPeers') \in Nat /\ Cardinality(res \union A) \in Nat
      BY <1>0, <1>1, PeerCounts
    <3>2. Cardinality(res \union A) <= Cardinality(res) + Cardinality(A)
      BY <1>0, <1>1, PeerCounts
    <3>3. MaxParallel \in Nat
      BY PeerAdmissionAssumption
    <3>4. CASE A = {}
      BY <1>1, <3>4
    <3>5. CASE A # {}
      BY <1>1, <3>1, <3>2, <3>3, <3>5
    <3> QED
      BY <3>4, <3>5
  <2>2. Cardinality(dials') <= MaxParallel
    <3>1. dials' \subseteq reserved' /\ reserved' \in SUBSET Peer /\ dials' \in SUBSET Peer
      BY <1>0, <1>1
    <3>2. Cardinality(dials') <= Cardinality(reserved') /\ Cardinality(dials') \in Nat /\ Cardinality(reserved') \in Nat
      BY <3>1, PeerCounts
    <3>3. Cardinality(gossip') \in Nat /\ Cardinality(heldPeers') \in Nat /\ MaxParallel \in Nat
      BY PeerCounts, PeerAdmissionAssumption
    <3> QED
      BY <2>1, <3>2, <3>3
  <2>3. ups' \union active' = active' /\ dials' \union ups' = dials'
    OBVIOUS
  <2> QED
    BY <2>1, <2>2, <2>3 DEF TransportLimits
<1> QED
  BY <1>2, <1>3, <1>4, <1>5 DEF TransportInv

\* shutdown of a pool leaves nothing.
LEMMA PoolEndsKeeps ==
  ASSUME NEW C, PoolEnds(C)
  PROVE  TransportInv'
<1>1. /\ turnStage' = "top" /\ active' = {} /\ reserved' = {} /\ receipts' = {} /\ heldPeers' = {}
      /\ gossip' = {} /\ dials' = {} /\ ups' = {} /\ leaked' = {}
  BY DEF PoolEnds
<1>2. Cardinality({}) = 0 /\ MaxParallel \in Nat /\ PoolSize \in Nat
  BY FS_EmptySet, PeerAdmissionAssumption
<1>3. TransportTypes' /\ TransportPlaces' /\ TransportsApart'
  BY <1>1 DEF TransportTypes, TransportPlaces, TransportsApart, RoundStages
<1>4. ups' \union active' = {} /\ dials' \union ups' = {}
  BY <1>1
<1>5. TransportLimits'
  BY <1>1, <1>2, <1>4 DEF TransportLimits
<1> QED
  BY <1>3, <1>5 DEF TransportInv

LEMMA TransportStart == AdmissionInit => TransportInv
<1> SUFFICES ASSUME AdmissionInit PROVE TransportInv
  OBVIOUS
<1>1. Cardinality({}) = 0 /\ MaxParallel \in Nat /\ PoolSize \in Nat
  BY FS_EmptySet, PeerAdmissionAssumption
<1>2. /\ turnStage = "top" /\ active = {} /\ reserved = {} /\ receipts = {} /\ heldPeers = {}
      /\ gossip = {} /\ dials = {} /\ ups = {} /\ leaked = {}
  BY DEF AdmissionInit
<1>3. TransportTypes /\ TransportPlaces /\ TransportsApart
  BY <1>2 DEF TransportTypes, TransportPlaces, TransportsApart, RoundStages
<1>4. ups \union active = {} /\ dials \union ups = {}
  BY <1>2
<1>5. TransportLimits
  BY <1>1, <1>2, <1>4 DEF TransportLimits
<1> QED
  BY <1>3, <1>5 DEF TransportInv

NoTransports ==
  /\ dials = {} /\ ups = {} /\ active = {} /\ receipts = {} /\ heldPeers = {} /\ gossip = {} /\ reserved = {}
  /\ leaked = {}

heldVars == <<dials, ups, active, receipts, heldPeers, gossip, reserved, leaked>>

LEMMA NothingHeld ==
  ASSUME NoTransports'
  PROVE  TransportInv'
<1>1. Cardinality({}) = 0 /\ MaxParallel \in Nat /\ PoolSize \in Nat
  BY FS_EmptySet, PeerAdmissionAssumption
<1>2. TransportTypes' /\ TransportPlaces' /\ TransportsApart'
  BY DEF NoTransports, TransportTypes, TransportPlaces, TransportsApart
<1>3. ups' \union active' = {} /\ dials' \union ups' = {}
  BY DEF NoTransports
<1>4. TransportLimits'
  BY <1>1, <1>3 DEF NoTransports, TransportLimits
<1> QED
  BY <1>2, <1>4 DEF TransportInv

\* Where a session rests it holds nothing; where it moves on in a round it holds what it held.
LEMMA RestKeeps ==
  ASSUME TransportInv, UNCHANGED heldVars,
         \/ turnStage \notin RoundStages \union {"activate", "pool"}
         \/ turnStage' = turnStage /\ tried' = tried
         \/ turnStage \in RoundStages /\ turnStage' \in RoundStages /\ tried' = tried
  PROVE  TransportInv'
<1>1. CASE turnStage \notin RoundStages \union {"activate", "pool"}
  <2>1. NoTransports
    BY <1>1 DEF TransportInv, TransportPlaces, NoTransports, RoundStages
  <2>2. NoTransports'
    BY <2>1 DEF NoTransports, heldVars
  <2> QED
    BY <2>2, NothingHeld
<1>2. CASE ~(turnStage \notin RoundStages \union {"activate", "pool"})
  <2>1. TransportTypes' /\ TransportPlaces' /\ TransportsApart'
    BY <1>2 DEF TransportInv, TransportTypes, TransportPlaces, TransportsApart, heldVars, RoundStages
  <2>2. TransportLimits'
    BY <1>2 DEF TransportInv, TransportLimits, heldVars, RoundStages
  <2> QED
    BY <2>1, <2>2 DEF TransportInv
<1> QED
  BY <1>1, <1>2

\* The steps of a session at rest, and those that leave its transports alone.
LEMMA RestingSteps ==
  ASSUME TransportInv,
         RoundStarts \/ CohortStarts \/ RoundFails \/ Wakes \/ RoundLearns \/ Ticks \/ GraceEnds \/ StartupExpires
         \/ \E a \in Peer : Produces(a)
  PROVE  TransportInv'
<1>1. UNCHANGED heldVars
  BY DEF RoundStarts, CohortStarts, RoundFails, Wakes, RoundLearns, Ticks, GraceEnds, StartupExpires, Produces, PoolStage,
         heldVars, transportVars, poolVars, roundVars
<1>2. \/ turnStage \notin RoundStages \union {"activate", "pool"}
      \/ turnStage' = turnStage /\ tried' = tried
      \/ turnStage \in RoundStages /\ turnStage' \in RoundStages /\ tried' = tried
  BY DEF RoundStarts, CohortStarts, RoundFails, Wakes, RoundLearns, Ticks, GraceEnds, StartupExpires, Produces, PoolStage,
         roundVars, RoundStages
<1> QED
  BY <1>1, <1>2, RestKeeps

\* In a round nothing of a pool is held.
LEMMA RoundHolds ==
  ASSUME TransportInv, turnStage \in RoundStages
  PROVE  /\ active = {} /\ receipts = {} /\ heldPeers = {} /\ gossip = {} /\ reserved = {} /\ leaked = {}
         /\ dials \in SUBSET Peer /\ ups \in SUBSET Peer /\ dials \cap ups = {} /\ dials \union ups \subseteq tried
         /\ Cardinality(dials \union ups) <= MaxParallel
         /\ Cardinality({}) = 0 /\ MaxParallel \in Nat /\ PoolSize \in Nat
<1>1. Cardinality({}) = 0 /\ MaxParallel \in Nat /\ PoolSize \in Nat
  BY FS_EmptySet, PeerAdmissionAssumption
<1> QED
  BY <1>1 DEF TransportInv, TransportTypes, TransportPlaces, TransportsApart, TransportLimits, RoundStages

\* A step of a round that ends in the round: what is under way was tried and is within
\* the limit.
LEMMA RoundKeeps ==
  ASSUME TransportInv, turnStage \in RoundStages, turnStage' \in RoundStages, UNCHANGED poolVars,
         dials' \in SUBSET Peer, ups' \in SUBSET Peer, dials' \cap ups' = {}, dials' \union ups' \subseteq tried',
         Cardinality(dials' \union ups') <= MaxParallel
  PROVE  TransportInv'
<1>0. /\ active' = {} /\ receipts' = {} /\ heldPeers' = {} /\ gossip' = {} /\ reserved' = {} /\ leaked' = {}
  BY RoundHolds DEF poolVars, transportVars
<1>1. TransportTypes' /\ TransportPlaces' /\ TransportsApart'
  BY <1>0 DEF TransportTypes, TransportPlaces, TransportsApart, RoundStages
<1>2. TransportLimits'
  BY <1>0 DEF TransportLimits, RoundStages
<1> QED
  BY <1>1, <1>2 DEF TransportInv

\* A connect round fills up, joins its attempts and chooses among them.
LEMMA RoundSteps ==
  ASSUME TransportInv, Fills \/ Chooses \/ \E a \in Peer : DialEnds(a)
  PROVE  TransportInv'
<1>0. turnStage \in RoundStages
  BY DEF Fills, Chooses, DialEnds, RoundStages
<1> USE RoundHolds
<1>1. CASE Fills
  <2>1. PICK A \in Firsts(cand, Dialable(cand), MaxParallel - Cardinality(dials \union ups)) :
          dials' = dials \union A /\ tried' = tried \union A
    BY <1>1 DEF Fills
  <2>2. Dialable(cand) \in SUBSET Peer /\ Dialable(cand) \cap tried = {}
    BY DEF Dialable, Ready, Known
  <2>3. Cardinality(dials \union ups) \in Nat
    BY <1>0, PeerCounts
  <2>4. /\ A \subseteq Dialable(cand) /\ A \in SUBSET Peer /\ Cardinality(A) \in Nat
        /\ (A = {} \/ Cardinality(A) <= MaxParallel - Cardinality(dials \union ups))
    <3>1. PICK room \in Int : room = MaxParallel - Cardinality(dials \union ups)
      BY <1>0, <2>3
    <3>2. A \in Firsts(cand, Dialable(cand), room)
      BY <3>1
    <3> QED
      BY <2>2, <3>1, <3>2, FirstsFit
  <2>5. ups' = ups /\ turnStage' \in RoundStages /\ UNCHANGED poolVars
    BY <1>1 DEF Fills, RoundStages
  <2>6. Cardinality(dials' \union ups') <= MaxParallel
    <3>1. dials' \union ups' = (dials \union ups) \union A
      BY <2>1, <2>5
    <3>2. Cardinality((dials \union ups) \union A) <= Cardinality(dials \union ups) + Cardinality(A)
          /\ Cardinality((dials \union ups) \union A) \in Nat
      BY <1>0, <2>4, PeerCounts
    <3>3. CASE A = {}
      BY <1>0, <3>1, <3>3
    <3>4. CASE A # {}
      <4>1. PICK k \in Nat, m \in Nat, n \in Nat :
              /\ k = Cardinality((dials \union ups) \union A) /\ m = Cardinality(dials \union ups)
              /\ n = Cardinality(A)
        BY <2>3, <2>4, <3>2
      <4>2. k <= m + n /\ n <= MaxParallel - m /\ MaxParallel \in Nat
        BY <1>0, <2>4, <3>2, <3>4, <4>1
      <4>3. k <= MaxParallel
        BY <4>2
      <4> QED
        BY <3>1, <4>1, <4>3
    <3> QED
      BY <3>3, <3>4
  <2>7. dials' \in SUBSET Peer /\ ups' \in SUBSET Peer /\ dials' \cap ups' = {} /\ dials' \union ups' \subseteq tried'
    BY <1>0, <2>1, <2>2, <2>4, <2>5
  <2> QED
    BY <1>0, <2>5, <2>6, <2>7, RoundKeeps
<1>3. CASE Chooses
  <2>1. CASE ups = {}
    <3>1. NoTransports'
      BY <1>0, <1>3, <2>1 DEF Chooses, NoTransports, transportVars
    <3> QED
      BY <3>1, NothingHeld
  <2>2. CASE ups # {}
    <3>1. PICK U \in SUBSET ups : ups' = U /\ Cardinality(U) = Min({PoolSize, Cardinality(ups)})
      BY <1>3, <2>2 DEF Chooses
    <3>2. /\ turnStage' = "activate" /\ dials' = {} /\ active' = {} /\ receipts' = {} /\ heldPeers' = {}
          /\ gossip' = {} /\ reserved' = {} /\ leaked' = {}
      BY <1>0, <1>3, <2>2 DEF Chooses, transportVars
    <3>3. Cardinality(U) <= PoolSize
      <4>0. Cardinality(ups) \in Int /\ PoolSize \in Int
        BY <1>0, PeerCounts
      <4>1. PICK m \in Int, n \in Int : m = PoolSize /\ n = Cardinality(ups)
        BY <4>0
      <4>2. Min({m, n}) <= m
        BY LeastOfTwo
      <4>3. Cardinality(U) = Min({m, n})
        BY <3>1, <4>1, Zenon
      <4> QED
        BY <4>1, <4>2, <4>3
    <3>4. Cardinality(U) <= MaxParallel
      <4>1. U \subseteq dials \union ups /\ U \in SUBSET Peer /\ dials \union ups \in SUBSET Peer
        BY <1>0
      <4>2. Cardinality(U) <= Cardinality(dials \union ups) /\ Cardinality(U) \in Nat
            /\ Cardinality(dials \union ups) \in Nat
        BY <4>1, PeerCounts
      <4> QED
        BY <1>0, <4>2
    <3>5. TransportTypes' /\ TransportPlaces' /\ TransportsApart'
      BY <1>0, <3>1, <3>2 DEF TransportTypes, TransportPlaces, TransportsApart, RoundStages
    <3>6. ups' \union active' = U /\ dials' \union ups' = U
      BY <3>1, <3>2
    <3>7. TransportLimits'
      BY <3>2, <3>3, <3>4, <3>6 DEF TransportLimits
    <3> QED
      BY <3>5, <3>7 DEF TransportInv
  <2> QED
    BY <2>1, <2>2
<1>4. ASSUME NEW a \in Peer, DialEnds(a) PROVE TransportInv'
  <2>1. a \in dials /\ dials' = dials \ {a} /\ turnStage' \in RoundStages /\ tried' = tried /\ UNCHANGED poolVars
    BY <1>4 DEF DialEnds, RoundStages
  <2>2. ups' = ups \/ ups' = ups \union {a}
    BY <1>4 DEF DialEnds
  <2>3. dials' \union ups' \subseteq dials \union ups /\ dials' \union ups' \in SUBSET Peer
    BY <1>0, <2>1, <2>2
  <2>4. Cardinality(dials' \union ups') <= MaxParallel
    <3>1. PICK A \in SUBSET Peer, B \in SUBSET Peer : A = dials' \union ups' /\ B = dials \union ups
      BY <1>0, <2>3
    <3>2. Cardinality(A) <= Cardinality(B) /\ Cardinality(A) \in Nat /\ Cardinality(B) \in Nat
      BY <2>3, <3>1, PeerCounts
    <3> QED
      BY <1>0, <3>1, <3>2
  <2>5. dials' \in SUBSET Peer /\ ups' \in SUBSET Peer /\ dials' \cap ups' = {} /\ dials' \union ups' \subseteq tried'
    BY <1>0, <2>1, <2>2
  <2> QED
    BY <1>0, <2>1, <2>4, <2>5, RoundKeeps
<1> QED
  BY <1>1, <1>3, <1>4

\* What holds of the transports of a running pool.
LEMMA PoolHolds ==
  ASSUME TransportInv, turnStage = "pool"
  PROVE  /\ ups = {} /\ active \in SUBSET Peer /\ receipts \in SUBSET Peer /\ heldPeers \in SUBSET Peer
         /\ gossip \in SUBSET Peer /\ dials \in SUBSET Peer /\ reserved \in SUBSET Peer
         /\ leaked \in SUBSET Peer /\ reserved = receipts \union dials \union leaked
         /\ leaked \cap (dials \union receipts \union heldPeers \union active) = {}
         /\ dials \cap (receipts \union heldPeers \union active) = {}
         /\ receipts \cap (heldPeers \union active) = {} /\ heldPeers \cap active = {}
         /\ Cardinality(active) <= PoolSize
         /\ Cardinality(reserved) + Cardinality(heldPeers) + Cardinality(gossip) <= MaxParallel
         /\ Cardinality(reserved) \in Nat /\ Cardinality(heldPeers) \in Nat /\ Cardinality(gossip) \in Nat
         /\ Cardinality(active) \in Nat /\ Cardinality({}) = 0 /\ MaxParallel \in Nat /\ PoolSize \in Nat
<1>1. Cardinality({}) = 0 /\ MaxParallel \in Nat /\ PoolSize \in Nat
  BY FS_EmptySet, PeerAdmissionAssumption
<1>2. /\ ups = {} /\ active \in SUBSET Peer /\ receipts \in SUBSET Peer /\ heldPeers \in SUBSET Peer
      /\ gossip \in SUBSET Peer /\ dials \in SUBSET Peer /\ reserved \in SUBSET Peer
      /\ leaked \in SUBSET Peer /\ reserved = receipts \union dials \union leaked
      /\ leaked \cap (dials \union receipts \union heldPeers \union active) = {}
      /\ dials \cap (receipts \union heldPeers \union active) = {}
      /\ receipts \cap (heldPeers \union active) = {} /\ heldPeers \cap active = {}
  BY DEF TransportInv, TransportTypes, TransportPlaces, TransportsApart, RoundStages
<1>3. Cardinality(ups \union active) <= PoolSize
  BY DEF TransportInv, TransportLimits, RoundStages
<1>4. ups \union active = active
  BY <1>2
<1>5. Cardinality(reserved) + Cardinality(heldPeers) + Cardinality(gossip) <= MaxParallel
  BY DEF TransportInv, TransportLimits
<1>6. /\ Cardinality(reserved) \in Nat /\ Cardinality(heldPeers) \in Nat /\ Cardinality(gossip) \in Nat
      /\ Cardinality(active) \in Nat
  BY <1>2, PeerCounts
<1> QED
  BY <1>1, <1>2, <1>3, <1>4, <1>5, <1>6

\* The upstreams of a round are activated, and the pool starts.
LEMMA ActivatingSteps ==
  ASSUME TransportInv, PoolStarts \/ \E a \in Peer : Activates(a)
  PROVE  TransportInv'
<1>0. /\ turnStage = "activate" /\ dials = {} /\ receipts = {} /\ heldPeers = {} /\ gossip = {} /\ reserved = {}
      /\ leaked = {}
      /\ ups \in SUBSET Peer /\ active \in SUBSET Peer /\ ups \cap active = {}
  BY DEF PoolStarts, Activates, TransportInv, TransportTypes, TransportPlaces, TransportsApart, RoundStages
<1>1. Cardinality(ups \union active) <= PoolSize /\ Cardinality(dials \union ups) <= MaxParallel
  BY <1>0 DEF TransportInv, TransportLimits, RoundStages
<1>2. Cardinality({}) = 0 /\ MaxParallel \in Nat /\ PoolSize \in Nat
  BY FS_EmptySet, PeerAdmissionAssumption
<1>3. CASE PoolStarts
  <2>1. CASE active = {}
    BY <1>3, <2>1, PoolEndsKeeps DEF PoolStarts
  <2>2. CASE active # {}
    <3>1. /\ turnStage' = "pool" /\ ups = {} /\ ups' = {} /\ heldPeers' = {} /\ gossip' = {} /\ active' = active
          /\ receipts' = {} /\ leaked' = {} /\ Refill(cand, active', {}, {}, FALSE)
      BY <1>0, <1>3, <2>2 DEF PoolStarts, roundVars
    <3>2. ups \union active = active'
      BY <3>1
    <3>3. Cardinality({}) + Cardinality(heldPeers') + Cardinality(gossip') <= MaxParallel
      BY <1>2, <3>1
    <3>4. /\ {} = receipts' \union {} \union leaked' /\ {} \in SUBSET Peer /\ leaked' \subseteq Peer
          /\ leaked' \cap ({} \union receipts' \union heldPeers' \union active') = {}
          /\ {} \cap (receipts' \union heldPeers' \union active') = {}
          /\ receipts' \cap (heldPeers' \union active') = {} /\ heldPeers' \cap active' = {}
          /\ Cardinality(active') <= PoolSize
          /\ active' \subseteq Peer /\ receipts' \subseteq Peer /\ heldPeers' \subseteq Peer /\ gossip' \subseteq Peer
      BY <1>0, <1>1, <3>1, <3>2
    <3> QED
      BY <3>1, <3>3, <3>4, RefillKeeps
  <2> QED
    BY <2>1, <2>2
<1>4. ASSUME NEW a \in Peer, Activates(a) PROVE TransportInv'
  <2>1. /\ turnStage' = "activate" /\ a \in ups /\ ups' = ups \ {a} /\ dials' = {} /\ receipts' = {}
        /\ heldPeers' = {} /\ gossip' = {} /\ reserved' = {} /\ leaked' = {}
    BY <1>0, <1>4 DEF Activates
  <2>2. active' = active \/ active' = active \union {a}
    BY <1>4 DEF Activates
  <2>3. TransportTypes' /\ TransportPlaces' /\ TransportsApart'
    BY <1>0, <2>1, <2>2 DEF TransportTypes, TransportPlaces, TransportsApart, RoundStages
  <2>4. PICK A \in SUBSET Peer, B \in SUBSET Peer, D \in SUBSET Peer :
          A = ups' \union active' /\ B = ups \union active /\ D = ups'
    BY <1>0, <2>1, <2>2
  <2>5. A \subseteq B /\ D \subseteq ups /\ dials \union ups = ups /\ dials' \union ups' = D
    BY <1>0, <2>1, <2>2, <2>4
  <2>6. /\ Cardinality(A) <= Cardinality(B) /\ Cardinality(D) <= Cardinality(ups)
        /\ Cardinality(A) \in Nat /\ Cardinality(B) \in Nat /\ Cardinality(D) \in Nat /\ Cardinality(ups) \in Nat
    BY <1>0, <2>5, PeerCounts
  <2>7. Cardinality(A) <= PoolSize /\ Cardinality(D) <= MaxParallel
    BY <1>1, <1>2, <2>4, <2>5, <2>6
  <2>8. TransportLimits'
    BY <2>1, <2>4, <2>5, <2>7 DEF TransportLimits
  <2> QED
    BY <2>3, <2>8 DEF TransportInv
<1> QED
  BY <1>3, <1>4

\* A connect task of the pool ends.
LEMMA PoolDialSteps ==
  ASSUME TransportInv, NEW a \in Peer, PoolDialEnds(a)
  PROVE  TransportInv'
<1>0. /\ turnStage = "pool" /\ turnStage' = "pool" /\ a \in dials /\ ups' = ups
      /\ active' = active /\ heldPeers' = heldPeers /\ gossip' = gossip /\ leaked' = leaked
  BY DEF PoolDialEnds, PoolStage, roundVars
<1> USE PoolHolds
<1>1. CASE receipts' = receipts \union {a} /\ dials' = dials \ {a} /\ reserved' = reserved
  <2>1. TransportTypes' /\ TransportPlaces' /\ TransportsApart'
    BY <1>0, <1>1 DEF TransportTypes, TransportPlaces, TransportsApart, RoundStages
  <2>2. PICK D \in SUBSET Peer : D = dials' \union ups' /\ D \subseteq reserved
    BY <1>0, <1>1
  <2>3. Cardinality(D) <= Cardinality(reserved) /\ Cardinality(D) \in Nat
    BY <1>0, <2>2, PeerCounts
  <2>4. Cardinality(D) <= MaxParallel
    BY <1>0, <2>3
  <2>5. ups' \union active' = active
    BY <1>0
  <2>6. TransportLimits'
    BY <1>0, <1>1, <2>2, <2>4, <2>5 DEF TransportLimits
  <2> QED
    BY <2>1, <2>6 DEF TransportInv
<1>2. CASE /\ receipts' = receipts
           /\ \E C : Refill(C, active, reserved \ {a}, dials \ {a}, FALSE)
  <2>1. PICK C : Refill(C, active', reserved \ {a}, dials \ {a}, FALSE)
    BY <1>0, <1>2
  <2>2. reserved \ {a} = receipts' \union (dials \ {a}) \union leaked' /\ dials \ {a} \in SUBSET Peer
    BY <1>0, <1>2
  <2>3. Cardinality(reserved \ {a}) <= Cardinality(reserved) /\ Cardinality(reserved \ {a}) \in Nat
    BY <1>0, PeerCounts
  <2>4. Cardinality(reserved \ {a}) + Cardinality(heldPeers') + Cardinality(gossip') <= MaxParallel
    BY <1>0, <2>3
  <2>5. /\ (dials \ {a}) \cap (receipts' \union heldPeers' \union active') = {}
        /\ leaked' \cap ((dials \ {a}) \union receipts' \union heldPeers' \union active') = {} /\ leaked' \subseteq Peer
        /\ receipts' \cap (heldPeers' \union active') = {} /\ heldPeers' \cap active' = {}
        /\ Cardinality(active') <= PoolSize /\ ups' = {}
        /\ active' \subseteq Peer /\ receipts' \subseteq Peer /\ heldPeers' \subseteq Peer /\ gossip' \subseteq Peer
    BY <1>0, <1>2
  <2> QED
    BY <1>0, <2>1, <2>2, <2>4, <2>5, RefillKeeps
<1> QED
  BY <1>1, <1>2 DEF PoolDialEnds

\* A connect task of the pool panics, and its endpoint stays reserved.
LEMMA PanicSteps ==
  ASSUME TransportInv, NEW a \in Peer, PoolDialPanics(a)
  PROVE  TransportInv'
<1>0. /\ turnStage = "pool" /\ turnStage' = "pool" /\ a \in dials /\ ups' = ups /\ dials' = dials \ {a}
      /\ leaked' = leaked \union {a}
      /\ UNCHANGED <<active, reserved, receipts, heldPeers, gossip>>
  BY DEF PoolDialPanics, PoolStage, roundVars
<1> USE PoolHolds
<1>1. TransportTypes' /\ TransportPlaces' /\ TransportsApart'
  BY <1>0 DEF TransportTypes, TransportPlaces, TransportsApart, RoundStages
<1>2. PICK D \in SUBSET Peer : D = dials' \union ups' /\ D \subseteq reserved
  BY <1>0
<1>3. Cardinality(D) <= Cardinality(reserved) /\ Cardinality(D) \in Nat
  BY <1>0, <1>2, PeerCounts
<1>4. Cardinality(D) <= MaxParallel
  BY <1>0, <1>3
<1>5. ups' \union active' = active
  BY <1>0
<1>6. TransportLimits'
  BY <1>0, <1>2, <1>4, <1>5 DEF TransportLimits
<1> QED
  BY <1>1, <1>6 DEF TransportInv

\* on_refill takes a transport from the channel.
LEMMA ReceivingSteps ==
  ASSUME TransportInv, NEW a \in Peer, ReceivesUpstream(a)
  PROVE  TransportInv'
<1>0. /\ turnStage = "pool" /\ turnStage' = "pool" /\ a \in receipts /\ ups' = ups
      /\ active' = active /\ receipts' = receipts \ {a} /\ heldPeers = {} /\ gossip = {} /\ leaked' = leaked
  BY DEF ReceivesUpstream, PoolStage, roundVars
<1> USE PoolHolds
<1>1. PICK C : Refill(C, active', reserved \ {a}, dials, FALSE)
  BY <1>0 DEF ReceivesUpstream
<1>2. \/ heldPeers' = {} /\ gossip' = {}
      \/ heldPeers' = {} /\ gossip' = {a}
      \/ heldPeers' = {a} /\ gossip' = {}
  BY <1>0 DEF ReceivesUpstream, Corroborated
<1>3. a \in reserved /\ a \notin dials /\ a \notin active /\ a \notin leaked
  BY <1>0
<1>4. Cardinality(reserved \ {a}) = Cardinality(reserved) - 1 /\ Cardinality({a}) = 1
  BY <1>0, <1>3, PeerCountsOne
<1>5. Cardinality(reserved \ {a}) + Cardinality(heldPeers') + Cardinality(gossip') <= MaxParallel
  <2>1. Cardinality({}) = 0 /\ Cardinality(reserved) \in Nat /\ MaxParallel \in Nat
    BY <1>0, PeerCounts, PeerCountsOne, PeerAdmissionAssumption
  <2>2. Cardinality(reserved) <= MaxParallel
    BY <1>0, <2>1
  <2>3. \/ Cardinality(heldPeers') = 0 /\ Cardinality(gossip') = 0
        \/ Cardinality(heldPeers') = 0 /\ Cardinality(gossip') = 1
        \/ Cardinality(heldPeers') = 1 /\ Cardinality(gossip') = 0
    BY <1>2, <1>4, <2>1, Zenon
  <2> HIDE PoolHolds
  <2> QED
    BY <1>4, <2>1, <2>2, <2>3
<1>6. reserved \ {a} = receipts' \union dials \union leaked'
  BY <1>0, <1>3
<1>7. /\ dials \cap (receipts' \union heldPeers' \union active') = {}
      /\ leaked' \cap (dials \union receipts' \union heldPeers' \union active') = {} /\ leaked' \subseteq Peer
      /\ receipts' \cap (heldPeers' \union active') = {} /\ heldPeers' \cap active' = {}
      /\ Cardinality(active') <= PoolSize /\ ups' = {} /\ dials \in SUBSET Peer
      /\ active' \subseteq Peer /\ receipts' \subseteq Peer /\ heldPeers' \subseteq Peer /\ gossip' \subseteq Peer
  BY <1>0, <1>2, <1>3
<1> QED
  BY <1>0, <1>1, <1>5, <1>6, <1>7, RefillKeeps

\* finish_activation looks again at what held when its write began.
LEMMA ActivationSteps ==
  ASSUME TransportInv, NEW a \in Peer, ActivationEnds(a)
  PROVE  TransportInv'
<1>0. /\ turnStage = "pool" /\ turnStage' = "pool" /\ heldPeers = {a} /\ heldPeers' = {} /\ ups' = ups
      /\ receipts' = receipts /\ gossip' = gossip /\ leaked' = leaked
  BY DEF ActivationEnds, PoolStage, roundVars
<1> USE PoolHolds
<1>1. Cardinality({a}) = 1 /\ a \notin reserved /\ a \notin active
  BY <1>0, PeerCountsOne
<1>2. \/ active' = active
      \/ active' = active \union {a} /\ Cardinality(active) < PoolSize
      \/ \E b \in active : active' = (active \ {b}) \union {a}
  BY DEF ActivationEnds, Replaces
<1>3. PICK C : Refill(C, active', reserved, dials, FALSE)
  BY DEF ActivationEnds
<1>4. Cardinality(active') <= PoolSize /\ active' \subseteq active \union {a}
  <2>1. Cardinality(active) \in Nat /\ PoolSize \in Nat /\ Cardinality(active) <= PoolSize /\ active \in SUBSET Peer
    BY <1>0, PeerCounts, PeerAdmissionAssumption
  <2>2. CASE active' = active
    BY <2>1, <2>2
  <2>3. CASE active' = active \union {a} /\ Cardinality(active) < PoolSize
    <3>1. Cardinality(active \union {a}) = Cardinality(active) + 1
      BY <1>1, <2>1, PeerCountsOne
    <3> QED
      BY <2>1, <2>3, <3>1
  <2>4. CASE \E b \in active : active' = (active \ {b}) \union {a}
    <3>1. PICK b \in active : active' = (active \ {b}) \union {a}
      BY <2>4
    <3>2. PICK A \in SUBSET Peer : A = active \ {b} /\ a \notin A /\ b \in Peer
      BY <1>1, <2>1
    <3>3. Cardinality(A) = Cardinality(active) - 1
      BY <2>1, <3>2, PeerCountsOne
    <3>4. Cardinality(A \union {a}) = Cardinality(A) + 1
      BY <3>2, PeerCountsOne
    <3>5. active' = A \union {a} /\ active' \subseteq active \union {a}
      BY <3>1, <3>2
    <3> HIDE PoolHolds
    <3> QED
      BY <2>1, <3>3, <3>4, <3>5
  <2> HIDE PoolHolds
  <2> QED
    BY <1>2, <2>2, <2>3, <2>4
<1>5. Cardinality(reserved) + Cardinality(heldPeers') + Cardinality(gossip') <= MaxParallel
  BY <1>0, <1>1
<1>6. reserved = receipts' \union dials \union leaked'
  BY <1>0
<1>7. /\ dials \cap (receipts' \union heldPeers' \union active') = {}
      /\ receipts' \cap (heldPeers' \union active') = {} /\ heldPeers' \cap active' = {}
      /\ leaked' \cap (dials \union receipts' \union heldPeers' \union active') = {} /\ leaked' \subseteq Peer
      /\ ups' = {} /\ dials \in SUBSET Peer
      /\ active' \subseteq Peer /\ receipts' \subseteq Peer /\ heldPeers' \subseteq Peer /\ gossip' \subseteq Peer
  BY <1>0, <1>1, <1>4
<1> QED
  BY <1>0, <1>3, <1>4, <1>5, <1>6, <1>7, RefillKeeps

\* News for a running pool: gossip, a report of the search or a cooldown that is over.
LEMMA NewsSteps ==
  ASSUME TransportInv,
         PoolLearns \/ CandidateRetry
         \/ (\E S, k : GossipEnds(S, k))
         \/ (\E a, k : Gossiped(a, k))
  PROVE  TransportInv'
<1>0. /\ turnStage = "pool" /\ turnStage' = "pool" /\ heldPeers' = heldPeers /\ ups' = ups
      /\ receipts' = receipts /\ active' = active /\ (gossip' = gossip \/ gossip' = {}) /\ leaked' = leaked
  BY DEF PoolLearns, CandidateRetry, Gossiped, GossipEnds, PoolStage, roundVars
<1> USE PoolHolds
<1>1. \E C, exceptional : Refill(C, active, reserved, dials, exceptional)
  <2> HIDE PoolHolds
  <2>1. CASE PoolLearns
    BY <2>1, Zenon DEF PoolLearns
  <2>2. CASE CandidateRetry
    BY <2>2, Zenon DEF CandidateRetry
  <2>3. ASSUME NEW a, NEW k, Gossiped(a, k)
        PROVE  \E C, exceptional : Refill(C, active, reserved, dials, exceptional)
    BY <2>3, Zenon DEF Gossiped
  <2>4. ASSUME NEW S, NEW k, GossipEnds(S, k)
        PROVE  \E C, exceptional : Refill(C, active, reserved, dials, exceptional)
    BY <2>4, Zenon DEF GossipEnds
  <2> QED
    BY <2>1, <2>2, <2>3, <2>4
<1>2. PICK C, exceptional : Refill(C, active', reserved, dials, exceptional)
  BY <1>0, <1>1
<1>3. Cardinality(reserved) + Cardinality(heldPeers') + Cardinality(gossip') <= MaxParallel
  <2>1. /\ Cardinality({}) = 0 /\ Cardinality(reserved) \in Nat /\ Cardinality(heldPeers) \in Nat
        /\ Cardinality(gossip) \in Nat /\ MaxParallel \in Nat
        /\ Cardinality(reserved) + Cardinality(heldPeers) + Cardinality(gossip) <= MaxParallel
    BY <1>0, PeerCounts, FS_EmptySet, PeerAdmissionAssumption
  <2>2. Cardinality(gossip') = Cardinality(gossip) \/ Cardinality(gossip') = 0
    BY <1>0, <2>1
  <2>3. Cardinality(heldPeers') = Cardinality(heldPeers)
    BY <1>0
  <2> HIDE PoolHolds
  <2> QED
    BY <2>1, <2>2, <2>3
<1>4. reserved = receipts' \union dials \union leaked'
  BY <1>0
<1>5. /\ dials \cap (receipts' \union heldPeers' \union active') = {}
      /\ leaked' \cap (dials \union receipts' \union heldPeers' \union active') = {} /\ leaked' \subseteq Peer
      /\ receipts' \cap (heldPeers' \union active') = {} /\ heldPeers' \cap active' = {}
      /\ ups' = {} /\ dials \in SUBSET Peer /\ Cardinality(active') <= PoolSize
      /\ active' \subseteq Peer /\ receipts' \subseteq Peer /\ heldPeers' \subseteq Peer /\ gossip' \subseteq Peer
  BY <1>0
<1> QED
  BY <1>0, <1>2, <1>3, <1>4, <1>5, RefillKeeps

\* A peer of the pool is lost, or the pool ends.
LEMMA LosingSteps ==
  ASSUME TransportInv, PoolIsStale \/ ConsumerLeaves \/ \E a \in Peer : PeerIsLost(a)
  PROVE  TransportInv'
<1>0. CASE ConsumerLeaves
  <2>1. NoTransports'
    BY <1>0 DEF ConsumerLeaves, NoTransports
  <2> QED
    BY <2>1, NothingHeld
<1>1. CASE \E C : PoolEnds(C)
  BY <1>1, PoolEndsKeeps
<1>2. CASE ~ConsumerLeaves /\ ~\E C : PoolEnds(C)
  <2>1. PICK a \in Peer : PeerIsLost(a)
    BY <1>2 DEF PoolIsStale
  <2>2. PICK C : /\ turnStage = "pool" /\ PoolStage /\ active' \subseteq active
                 /\ UNCHANGED <<receipts, heldPeers, gossip, leaked>> /\ Refill(C, active', reserved, dials, FALSE)
    BY <1>2, <2>1 DEF PeerIsLost
  <2>3. /\ turnStage' = "pool" /\ heldPeers' = heldPeers /\ ups' = ups /\ receipts' = receipts /\ gossip' = gossip
        /\ leaked' = leaked
    BY <2>2 DEF PoolStage, roundVars
  <2> USE PoolHolds
  <2>4. Cardinality(active') <= PoolSize
    <3>1. PICK A \in SUBSET Peer : A = active' /\ A \subseteq active
      BY <2>2
    <3>2. Cardinality(A) <= Cardinality(active) /\ Cardinality(A) \in Nat
      BY <2>2, <3>1, PeerCounts
    <3> QED
      BY <2>2, <3>1, <3>2
  <2>5. Cardinality(reserved) + Cardinality(heldPeers') + Cardinality(gossip') <= MaxParallel
    BY <2>2, <2>3
  <2>6. reserved = receipts' \union dials \union leaked'
    BY <2>2, <2>3
  <2>7. /\ dials \cap (receipts' \union heldPeers' \union active') = {}
        /\ leaked' \cap (dials \union receipts' \union heldPeers' \union active') = {} /\ leaked' \subseteq Peer
        /\ receipts' \cap (heldPeers' \union active') = {} /\ heldPeers' \cap active' = {}
        /\ ups' = {} /\ dials \in SUBSET Peer
        /\ active' \subseteq Peer /\ receipts' \subseteq Peer /\ heldPeers' \subseteq Peer /\ gossip' \subseteq Peer
    BY <2>2, <2>3
  <2> QED
    BY <2>2, <2>3, <2>4, <2>5, <2>6, <2>7, RefillKeeps
<1> QED
  BY <1>0, <1>1, <1>2

\* Transports are apart and within the limits in every state of a session.
THEOREM TransportInvariant == AdmissionSpec => []TransportInv
<1>1. TransportInv /\ [AdmissionNext]_admissionVars => TransportInv'
  <2> SUFFICES ASSUME TransportInv, [AdmissionNext]_admissionVars PROVE TransportInv'
    OBVIOUS
  <2>1. CASE AdmissionNext
    BY <2>1, RestingSteps, RoundSteps, ActivatingSteps, PoolDialSteps, PanicSteps, ReceivingSteps, ActivationSteps,
       NewsSteps, LosingSteps DEF AdmissionNext, AdmissionStep
  <2>2. CASE UNCHANGED admissionVars
    <3>1. UNCHANGED heldVars /\ turnStage' = turnStage /\ tried' = tried
      BY <2>2 DEF admissionVars, heldVars, transportVars, poolVars, roundVars
    <3> QED
      BY <3>1, RestKeeps
  <2> QED
    BY <2>1, <2>2
<1> QED
  BY <1>1, TransportStart, PTL DEF AdmissionSpec

\* follow_live, connect_pool and maybe_refill never have two transports of one endpoint,
\* nor more of them than their limits, whichever attempt, activation, replacement or loss
\* comes first; what is reserved is dialled or queued, unless a connect task panicked.
THEOREM TransportsHold == AdmissionSpec => []TransportsAreOwned
<1>1. TransportInv => TransportsAreOwned
  <2> SUFFICES ASSUME TransportInv PROVE TransportsAreOwned
    OBVIOUS
  <2>0. Cardinality({}) = 0 /\ MaxParallel \in Nat /\ PoolSize \in Nat
    BY FS_EmptySet, PeerAdmissionAssumption
  <2>1. /\ dials \cap (receipts \union heldPeers \union active \union ups) = {}
        /\ receipts \cap (heldPeers \union active) = {} /\ heldPeers \cap active = {}
        /\ ups \cap active = {} /\ ups \cap (receipts \union heldPeers \union leaked) = {}
        /\ leaked \cap (dials \union receipts \union heldPeers \union active) = {}
    BY DEF TransportInv, TransportsApart, TransportPlaces, RoundStages
  <2>2. receipts \union dials \union leaked = IF turnStage = "pool" THEN reserved ELSE dials
    BY DEF TransportInv, TransportsApart, TransportPlaces
  <2> DEFINE places == <<dials, receipts, heldPeers, active, ups, leaked>>
  <2>3. ASSUME NEW i \in 1 .. 6, NEW j \in 1 .. 6, i # j PROVE places[i] \cap places[j] = {}
    <3>1. /\ i = 1 \/ i = 2 \/ i = 3 \/ i = 4 \/ i = 5 \/ i = 6
          /\ j = 1 \/ j = 2 \/ j = 3 \/ j = 4 \/ j = 5 \/ j = 6
      OBVIOUS
    <3> QED
      BY <2>1, <2>3, <3>1
  <2>4. OneTransportEach
    BY <2>2, <2>3 DEF OneTransportEach
  <2>5. Cardinality(active) <= PoolSize
    <3>1. CASE active = {}
      BY <2>0, <3>1
    <3>2. CASE active # {}
      <4>1. PICK A \in SUBSET Peer, B \in SUBSET Peer : A = active /\ B = ups \union active
        BY DEF TransportInv, TransportTypes
      <4>2. Cardinality(B) <= PoolSize
        BY <3>2, <4>1 DEF TransportInv, TransportLimits, TransportPlaces, RoundStages
      <4>3. Cardinality(A) <= Cardinality(B) /\ Cardinality(A) \in Nat /\ Cardinality(B) \in Nat
        BY <4>1, PeerCounts
      <4> QED
        BY <2>0, <4>1, <4>2, <4>3
    <3> QED
      BY <3>1, <3>2
  <2>6. Cardinality(reserved) + Cardinality(heldPeers) + Cardinality(gossip) <= MaxParallel
    BY <2>0 DEF TransportInv, TransportLimits, TransportPlaces
  <2>7. TransportsAreBounded
    BY <2>5, <2>6 DEF TransportInv, TransportLimits, TransportsAreBounded
  <2> QED
    BY <2>4, <2>7 DEF TransportsAreOwned
<1> QED
  BY <1>1, TransportInvariant, PTL

-----------------------------------------------------------------------------
(***************************************************************************)
(* The writers of the warm peer file.  A writer that is running belongs to *)
(* the path's owner, to the one that is being dropped, or to the retired   *)
(* handle of the registry, which an owner without a thread may have        *)
(* forgotten: then the slot stays for good, and the path with it.          *)
(***************************************************************************)
WritesOn(c) == writer[c].pc \notin {"none", "done"}
Owns(c) == cache[c].is \in {"owner", "dropping"}
Active(c) == Owns(c) \/ WritesOn(c)

\* What the records are made of
CacheShape(r) ==
  [is |-> r.is, rows |-> r.rows, revision |-> r.revision, persisted |-> r.persisted, loaded |-> r.loaded,
   stop |-> r.stop]
WriterShape(w) ==
  [pc |-> w.pc, dir |-> w.dir, rows |-> w.rows, revision |-> w.revision, last |-> w.last,
   synced |-> w.synced, wrote |-> w.wrote]
WarmShape ==
  /\ cache = [c \in Caches |-> CacheShape(cache[c])]
  /\ writer = [c \in Caches |-> WriterShape(writer[c])]
  /\ slot = [on |-> slot.on, owner |-> slot.owner, retired |-> slot.retired]

\* What the slot says of a cache
SlotFits(c) ==
  /\ cache[c].is = "owner" => slot.on /\ slot.owner = {c} /\ slot.retired = {}
  /\ cache[c].is = "dropping" => slot.on /\ slot.owner = {} /\ slot.retired = {}
  /\ WritesOn(c) => \/ Owns(c)
                    \/ cache[c].is = "gone" /\ slot.on /\ slot.owner = {} /\ slot.retired \in {{}, {c}}

WarmInv ==
  /\ WarmShape
  /\ \A c \in Caches : SlotFits(c)
  /\ \A c, d \in Caches : Active(c) /\ Active(d) => c = d

\* An update of one field of a record leaves the others.
LEMMA CacheIs ==
  ASSUME NEW r, r = CacheShape(r), NEW v
  PROVE  [r EXCEPT !.is = v] = CacheShape([r EXCEPT !.is = v]) /\ [r EXCEPT !.is = v].is = v
<1>1. PICK i, R, n, p, l, s : r = [is |-> i, rows |-> R, revision |-> n, persisted |-> p, loaded |-> l, stop |-> s]
  BY DEF CacheShape
<1> QED
  BY <1>1 DEF CacheShape

LEMMA CacheRows ==
  ASSUME NEW r, r = CacheShape(r), NEW v
  PROVE  [r EXCEPT !.rows = v] = CacheShape([r EXCEPT !.rows = v]) /\ [r EXCEPT !.rows = v].is = r.is
<1>1. PICK i, R, n, p, l, s : r = [is |-> i, rows |-> R, revision |-> n, persisted |-> p, loaded |-> l, stop |-> s]
  BY DEF CacheShape
<1> QED
  BY <1>1 DEF CacheShape

LEMMA CacheRevision ==
  ASSUME NEW r, r = CacheShape(r), NEW v
  PROVE  [r EXCEPT !.revision = v] = CacheShape([r EXCEPT !.revision = v]) /\ [r EXCEPT !.revision = v].is = r.is
<1>1. PICK i, R, n, p, l, s : r = [is |-> i, rows |-> R, revision |-> n, persisted |-> p, loaded |-> l, stop |-> s]
  BY DEF CacheShape
<1> QED
  BY <1>1 DEF CacheShape

LEMMA CachePersisted ==
  ASSUME NEW r, r = CacheShape(r), NEW v
  PROVE  [r EXCEPT !.persisted = v] = CacheShape([r EXCEPT !.persisted = v]) /\ [r EXCEPT !.persisted = v].is = r.is
<1>1. PICK i, R, n, p, l, s : r = [is |-> i, rows |-> R, revision |-> n, persisted |-> p, loaded |-> l, stop |-> s]
  BY DEF CacheShape
<1> QED
  BY <1>1 DEF CacheShape

LEMMA CacheLoaded ==
  ASSUME NEW r, r = CacheShape(r), NEW v
  PROVE  [r EXCEPT !.loaded = v] = CacheShape([r EXCEPT !.loaded = v]) /\ [r EXCEPT !.loaded = v].is = r.is
<1>1. PICK i, R, n, p, l, s : r = [is |-> i, rows |-> R, revision |-> n, persisted |-> p, loaded |-> l, stop |-> s]
  BY DEF CacheShape
<1> QED
  BY <1>1 DEF CacheShape

LEMMA CacheStop ==
  ASSUME NEW r, r = CacheShape(r), NEW v
  PROVE  [r EXCEPT !.stop = v] = CacheShape([r EXCEPT !.stop = v]) /\ [r EXCEPT !.stop = v].is = r.is
<1>1. PICK i, R, n, p, l, s : r = [is |-> i, rows |-> R, revision |-> n, persisted |-> p, loaded |-> l, stop |-> s]
  BY DEF CacheShape
<1> QED
  BY <1>1 DEF CacheShape

LEMMA WriterPc ==
  ASSUME NEW w, w = WriterShape(w), NEW v
  PROVE  [w EXCEPT !.pc = v] = WriterShape([w EXCEPT !.pc = v]) /\ [w EXCEPT !.pc = v].pc = v
<1>1. PICK p, d, R, n, l, s, o :
        w = [pc |-> p, dir |-> d, rows |-> R, revision |-> n, last |-> l, synced |-> s, wrote |-> o]
  BY DEF WriterShape
<1> QED
  BY <1>1 DEF WriterShape

LEMMA WriterDir ==
  ASSUME NEW w, w = WriterShape(w), NEW v
  PROVE  [w EXCEPT !.dir = v] = WriterShape([w EXCEPT !.dir = v]) /\ [w EXCEPT !.dir = v].pc = w.pc
<1>1. PICK p, d, R, n, l, s, o :
        w = [pc |-> p, dir |-> d, rows |-> R, revision |-> n, last |-> l, synced |-> s, wrote |-> o]
  BY DEF WriterShape
<1> QED
  BY <1>1 DEF WriterShape

LEMMA WriterRows ==
  ASSUME NEW w, w = WriterShape(w), NEW v
  PROVE  [w EXCEPT !.rows = v] = WriterShape([w EXCEPT !.rows = v]) /\ [w EXCEPT !.rows = v].pc = w.pc
<1>1. PICK p, d, R, n, l, s, o :
        w = [pc |-> p, dir |-> d, rows |-> R, revision |-> n, last |-> l, synced |-> s, wrote |-> o]
  BY DEF WriterShape
<1> QED
  BY <1>1 DEF WriterShape

LEMMA WriterRevision ==
  ASSUME NEW w, w = WriterShape(w), NEW v
  PROVE  [w EXCEPT !.revision = v] = WriterShape([w EXCEPT !.revision = v]) /\ [w EXCEPT !.revision = v].pc = w.pc
<1>1. PICK p, d, R, n, l, s, o :
        w = [pc |-> p, dir |-> d, rows |-> R, revision |-> n, last |-> l, synced |-> s, wrote |-> o]
  BY DEF WriterShape
<1> QED
  BY <1>1 DEF WriterShape

LEMMA WriterLast ==
  ASSUME NEW w, w = WriterShape(w), NEW v
  PROVE  [w EXCEPT !.last = v] = WriterShape([w EXCEPT !.last = v]) /\ [w EXCEPT !.last = v].pc = w.pc
<1>1. PICK p, d, R, n, l, s, o :
        w = [pc |-> p, dir |-> d, rows |-> R, revision |-> n, last |-> l, synced |-> s, wrote |-> o]
  BY DEF WriterShape
<1> QED
  BY <1>1 DEF WriterShape

LEMMA WriterWrote ==
  ASSUME NEW w, w = WriterShape(w), NEW v
  PROVE  [w EXCEPT !.wrote = v] = WriterShape([w EXCEPT !.wrote = v]) /\ [w EXCEPT !.wrote = v].pc = w.pc
<1>1. PICK p, d, R, n, l, s, o :
        w = [pc |-> p, dir |-> d, rows |-> R, revision |-> n, last |-> l, synced |-> s, wrote |-> o]
  BY DEF WriterShape
<1> QED
  BY <1>1 DEF WriterShape

LEMMA WriterSynced ==
  ASSUME NEW w, w = WriterShape(w), NEW v
  PROVE  [w EXCEPT !.synced = v] = WriterShape([w EXCEPT !.synced = v]) /\ [w EXCEPT !.synced = v].pc = w.pc
<1>1. PICK p, d, R, n, l, s, o :
        w = [pc |-> p, dir |-> d, rows |-> R, revision |-> n, last |-> l, synced |-> s, wrote |-> o]
  BY DEF WriterShape
<1> QED
  BY <1>1 DEF WriterShape

\* A step that leaves the registry and what each cache is.
LEMMA WarmKeeps ==
  ASSUME WarmInv, WarmShape', slot' = slot,
         \A c \in Caches : cache'[c].is = cache[c].is,
         \A c \in Caches : writer'[c].pc \notin {"none", "done"} => WritesOn(c)
  PROVE  WarmInv'
BY DEF WarmInv, SlotFits, WritesOn, Owns, Active

\* A step of one cache, and of its writer.
LEMMA WarmShapes ==
  ASSUME WarmInv, NEW c \in Caches, NEW r, NEW w,
         cache' = [cache EXCEPT ![c] = r] \/ (cache' = cache /\ r = cache[c]),
         writer' = [writer EXCEPT ![c] = w] \/ (writer' = writer /\ w = writer[c]),
         r = CacheShape(r), w = WriterShape(w),
         slot' = [on |-> slot'.on, owner |-> slot'.owner, retired |-> slot'.retired]
  PROVE  /\ WarmShape'
         /\ cache'[c] = r /\ writer'[c] = w
         /\ \A d \in Caches \ {c} : cache'[d] = cache[d] /\ writer'[d] = writer[d]
<1>1. /\ cache = [d \in Caches |-> CacheShape(cache[d])]
      /\ writer = [d \in Caches |-> WriterShape(writer[d])]
  BY DEF WarmInv, WarmShape
<1>2. \A d \in Caches : cache'[d] = IF d = c THEN r ELSE cache[d]
  BY <1>1
<1>3. \A d \in Caches : writer'[d] = IF d = c THEN w ELSE writer[d]
  BY <1>1
<1>4. \A d \in Caches : cache[d] = CacheShape(cache[d]) /\ writer[d] = WriterShape(writer[d])
  BY <1>1
<1>5. cache' = [d \in Caches |-> cache'[d]] /\ writer' = [d \in Caches |-> writer'[d]]
  BY <1>1
<1>6. cache' = [d \in Caches |-> CacheShape(cache'[d])]
  BY <1>2, <1>4, <1>5, Zenon
<1>7. writer' = [d \in Caches |-> WriterShape(writer'[d])]
  BY <1>3, <1>4, <1>5, Zenon
<1> QED
  BY <1>2, <1>3, <1>6, <1>7 DEF WarmShape

\* A step of one cache that leaves the registry, what the cache is and whether it writes.
LEMMA WarmKeepsOne ==
  ASSUME WarmInv, NEW c \in Caches, NEW r, NEW w, slot' = slot,
         cache' = [cache EXCEPT ![c] = r] \/ (cache' = cache /\ r = cache[c]),
         writer' = [writer EXCEPT ![c] = w] \/ (writer' = writer /\ w = writer[c]),
         r = CacheShape(r), w = WriterShape(w), r.is = cache[c].is,
         w.pc \notin {"none", "done"} => WritesOn(c)
  PROVE  WarmInv'
<1>1. slot' = [on |-> slot'.on, owner |-> slot'.owner, retired |-> slot'.retired]
  BY DEF WarmInv, WarmShape
<1>2. /\ WarmShape' /\ cache'[c] = r /\ writer'[c] = w
      /\ \A d \in Caches \ {c} : cache'[d] = cache[d] /\ writer'[d] = writer[d]
  BY <1>1, WarmShapes
<1> QED
  BY <1>2, WarmKeeps DEF WritesOn

\* The steps of a writer, and those of a handle that keep its cache.
LEMMA WritingSteps ==
  ASSUME WarmInv, NEW c \in Caches,
         \/ ReadsHints(c) \/ Stops(c) \/ Opens(c) \/ Loads(c) \/ Snapshots(c) \/ Acknowledges(c)
         \/ TempWritten(c) \/ TempSynced(c) \/ Renames(c) \/ DirSynced(c) \/ SaveFails(c)
         \/ \E seen \in Sightings : Records(c, seen)
  PROVE  WarmInv'
<1>0. cache[c] = CacheShape(cache[c]) /\ writer[c] = WriterShape(writer[c])
  BY DEF WarmInv, WarmShape
<1>1. CASE ReadsHints(c)
  <2> DEFINE R == PrunedRows(cache[c].rows)
             r == [cache[c] EXCEPT !.rows = R]
  <2>1. cache' = [cache EXCEPT ![c] = r] /\ writer' = writer /\ slot' = slot
    BY <1>1 DEF ReadsHints
  <2> HIDE DEF R
  <2>2. r = CacheShape(r) /\ r.is = cache[c].is
    BY <1>0, CacheRows
  <2> HIDE DEF r
  <2> QED
    BY <1>0, <2>1, <2>2, WarmKeepsOne DEF WritesOn
<1>2. CASE Stops(c)
  <2> DEFINE r == [cache[c] EXCEPT !.stop = TRUE]
  <2>1. cache' = [cache EXCEPT ![c] = r] /\ writer' = writer /\ slot' = slot
    BY <1>2 DEF Stops
  <2>2. r = CacheShape(r) /\ r.is = cache[c].is
    BY <1>0, CacheStop
  <2> HIDE DEF r
  <2> QED
    BY <1>0, <2>1, <2>2, WarmKeepsOne DEF WritesOn
<1>3. CASE Opens(c)
  <2> DEFINE w == [writer[c] EXCEPT !.pc = "load"]
             v == [w EXCEPT !.dir = TRUE]
  <2>1. /\ cache' = cache /\ slot' = slot /\ WritesOn(c)
        /\ writer' = [writer EXCEPT ![c] = w] \/ writer' = [writer EXCEPT ![c] = v]
    BY <1>3 DEF Opens, WritesOn
  <2>2. w = WriterShape(w)
    BY <1>0, WriterPc
  <2> HIDE DEF w
  <2>3. v = WriterShape(v)
    BY <2>2, WriterDir
  <2> HIDE DEF v
  <2> QED
    BY <1>0, <2>1, <2>2, <2>3, WarmKeepsOne
<1>4. CASE Loads(c)
  <2> DEFINE R == IF writer[c].dir /\ Parses(file) THEN InsertAll(cache[c].rows, file.rows) ELSE cache[c].rows
             q == [cache[c] EXCEPT !.loaded = TRUE]
             r == [q EXCEPT !.rows = R]
             w == [writer[c] EXCEPT !.pc = "wait"]
  <2>0. q.rows = cache[c].rows
    BY <1>0 DEF CacheShape
  <2>1. /\ cache' = [cache EXCEPT ![c] = r] /\ writer' = [writer EXCEPT ![c] = w] /\ slot' = slot /\ WritesOn(c)
    BY <1>4, <2>0 DEF Loads, WritesOn
  <2> HIDE DEF R
  <2>2. q = CacheShape(q) /\ q.is = cache[c].is
    BY <1>0, CacheLoaded
  <2> HIDE DEF q
  <2>3. r = CacheShape(r) /\ r.is = cache[c].is
    BY <2>2, CacheRows
  <2>3a. w = WriterShape(w)
    BY <1>0, WriterPc
  <2> HIDE DEF r, w
  <2> QED
    BY <2>1, <2>3, <2>3a, WarmKeepsOne
<1>5. CASE Snapshots(c)
  <2> DEFINE R == PrunedRows(cache[c].rows)
             r == [cache[c] EXCEPT !.rows = R]
             w == [writer[c] EXCEPT !.pc = "write"]
             v == [w EXCEPT !.rows = R]
             u == [v EXCEPT !.revision = cache[c].revision]
             t == [u EXCEPT !.last = cache[c].stop]
  <2>1. cache' = [cache EXCEPT ![c] = r] /\ writer' = [writer EXCEPT ![c] = t] /\ slot' = slot /\ WritesOn(c)
    BY <1>5 DEF Snapshots, WritesOn
  <2> HIDE DEF R
  <2>2. r = CacheShape(r) /\ r.is = cache[c].is
    BY <1>0, CacheRows
  <2>2a. w = WriterShape(w)
    BY <1>0, WriterPc
  <2> HIDE DEF r, w
  <2>3. v = WriterShape(v)
    BY <2>2, <2>2a, WriterRows
  <2> HIDE DEF v
  <2>4. u = WriterShape(u)
    BY <2>3, WriterRevision
  <2> HIDE DEF u
  <2>5. t = WriterShape(t)
    BY <2>4, WriterLast
  <2> HIDE DEF t
  <2> QED
    BY <2>1, <2>2, <2>2a, <2>5, WarmKeepsOne
<1>6. CASE TempWritten(c) \/ TempSynced(c)
  <2> DEFINE w == [writer[c] EXCEPT !.pc = IF writer[c].pc = "write" THEN "sync" ELSE "rename"]
             v == [w EXCEPT !.synced = TRUE]
             u == [w EXCEPT !.synced = FALSE]
  <2>1. /\ cache' = cache /\ slot' = slot /\ WritesOn(c)
        /\ writer' = [writer EXCEPT ![c] = v] \/ writer' = [writer EXCEPT ![c] = u]
    BY <1>6 DEF TempWritten, TempSynced, WritesOn
  <2>2. w = WriterShape(w)
    BY <1>0, WriterPc
  <2> HIDE DEF w
  <2>3. v = WriterShape(v) /\ u = WriterShape(u)
    BY <2>2, WriterSynced
  <2> HIDE DEF v, u
  <2> QED
    BY <1>0, <2>1, <2>3, WarmKeepsOne
<1>6a. CASE Renames(c)
  <2> DEFINE w == [writer[c] EXCEPT !.pc = "settle"]
  <2>1. /\ cache' = cache /\ slot' = slot /\ WritesOn(c) /\ writer' = [writer EXCEPT ![c] = w]
    BY <1>6a DEF Renames, WritesOn
  <2>2. w = WriterShape(w)
    BY <1>0, WriterPc
  <2> HIDE DEF w
  <2> QED
    BY <1>0, <2>1, <2>2, WarmKeepsOne
<1>6b. CASE DirSynced(c) \/ SaveFails(c)
  <2> DEFINE w == [writer[c] EXCEPT !.pc = "acknowledge"]
             v == [w EXCEPT !.wrote = TRUE]
             u == [w EXCEPT !.wrote = FALSE]
  <2>1. /\ cache' = cache /\ slot' = slot /\ WritesOn(c)
        /\ writer' = [writer EXCEPT ![c] = v] \/ writer' = [writer EXCEPT ![c] = u]
    BY <1>6b DEF DirSynced, SaveFails, WritesOn
  <2>2. w = WriterShape(w)
    BY <1>0, WriterPc
  <2> HIDE DEF w
  <2>3. v = WriterShape(v) /\ u = WriterShape(u)
    BY <2>2, WriterWrote
  <2> HIDE DEF v, u
  <2> QED
    BY <1>0, <2>1, <2>3, WarmKeepsOne
<1>7. CASE Acknowledges(c)
  <2> DEFINE n == IF writer[c].wrote THEN Acknowledged(c) ELSE cache[c].persisted
             R == IF writer[c].last THEN {} ELSE cache[c].rows
             q == [cache[c] EXCEPT !.persisted = n]
             r == [q EXCEPT !.rows = R]
             d == writer[c].dir
             t == [NoWriter EXCEPT !.pc = "wait"]
             u == [t EXCEPT !.dir = d]
             v == [writer[c] EXCEPT !.pc = "done"]
             w == IF writer[c].last THEN v ELSE u
  <2>0. q.rows = cache[c].rows
    BY <1>0 DEF CacheShape
  <2>1. /\ cache' = [cache EXCEPT ![c] = r]
        /\ writer' = [writer EXCEPT ![c] = w] /\ slot' = slot /\ WritesOn(c)
    BY <1>7, <2>0 DEF Acknowledges, WritesOn
  <2> HIDE DEF n, R, d
  <2>2. q = CacheShape(q) /\ q.is = cache[c].is
    BY <1>0, CachePersisted
  <2>2a. v = WriterShape(v)
    BY <1>0, WriterPc
  <2>2z. NoWriter = WriterShape(NoWriter)
    BY DEF WriterShape, NoWriter
  <2>2b. t = WriterShape(t)
    BY <2>2z, WriterPc
  <2> HIDE DEF q, t, v
  <2>3. r = CacheShape(r) /\ r.is = cache[c].is
    BY <2>2, CacheRows
  <2>3a. u = WriterShape(u)
    BY <2>2b, WriterDir
  <2> HIDE DEF u
  <2>4. w = WriterShape(w)
    BY <2>2a, <2>3a
  <2> HIDE DEF r, w
  <2> QED
    BY <1>0, <2>1, <2>3, <2>4, WarmKeepsOne
<1>8. ASSUME NEW seen \in Sightings, Records(c, seen) PROVE WarmInv'
  <2> DEFINE R == InsertRow(cache[c].rows, [swarm |-> seen[1], host |-> seen[2], source |-> seen[3], at |-> second])
             q == [cache[c] EXCEPT !.rows = R]
             n == cache[c].revision + 1
             r == [q EXCEPT !.revision = n]
  <2>0. q.revision = cache[c].revision
    BY <1>0 DEF CacheShape
  <2>1. cache' = [cache EXCEPT ![c] = r] /\ writer' = writer /\ slot' = slot
    BY <1>8, <2>0 DEF Records
  <2> HIDE DEF R, n
  <2>2. q = CacheShape(q) /\ q.is = cache[c].is
    BY <1>0, CacheRows
  <2> HIDE DEF q
  <2>3. r = CacheShape(r) /\ r.is = cache[c].is
    BY <2>2, CacheRevision
  <2> HIDE DEF r
  <2> QED
    BY <1>0, <2>1, <2>3, WarmKeepsOne DEF WritesOn
<1> QED
  BY <1>1, <1>2, <1>3, <1>4, <1>5, <1>6, <1>6a, <1>6b, <1>7, <1>8

\* An owner comes and goes.
LEMMA OwnerSteps ==
  ASSUME WarmInv, NEW c \in Caches, NewCache(c) \/ Releases(c) \/ Retires(c)
  PROVE  WarmInv'
<1>0. /\ slot = [on |-> slot.on, owner |-> slot.owner, retired |-> slot.retired]
      /\ cache[c] = CacheShape(cache[c]) /\ writer[c] = WriterShape(writer[c])
      /\ \A d \in Caches : SlotFits(d)
      /\ \A d, e \in Caches : Active(d) /\ Active(e) => d = e
  BY DEF WarmInv, WarmShape
<1>a. cache[c] = CacheShape(cache[c]) /\ writer[c] = WriterShape(writer[c])
  BY <1>0
<1> DEFINE Kept(m) == [cache EXCEPT ![c] = [[cache[c] EXCEPT !.is = m] EXCEPT !.loaded = TRUE]]
<1>b. NewCache(c) => /\ cache[c].is = "unused"
                     /\ \/ /\ cache' \in {Kept("memory"), Kept("orphan")} /\ writer' = writer /\ slot' = Swept
                        \/ /\ cache' = [cache EXCEPT ![c] = [cache[c] EXCEPT !.is = "owner"]]
                           /\ writer' = [Joined EXCEPT ![c] = [Joined[c] EXCEPT !.pc = "open"]]
                           /\ ~Swept.on /\ slot' = [on |-> TRUE, owner |-> {c}, retired |-> {}]
  BY DEF NewCache
<1>c. \A m \in {"memory", "orphan"} : Kept(m)[c].is = m
  <2>1. cache = [d \in Caches |-> cache[d]]
    BY DEF WarmInv, WarmShape
  <2>2. ASSUME NEW m PROVE [[cache[c] EXCEPT !.is = m] EXCEPT !.loaded = TRUE].is = m
    <3> DEFINE q == [cache[c] EXCEPT !.is = m]
    <3>1. q = CacheShape(q) /\ q.is = m
      BY <1>a, CacheIs
    <3> HIDE DEF q
    <3>2. [q EXCEPT !.loaded = TRUE].is = m
      BY <3>1, CacheLoaded
    <3> QED
      BY <3>2 DEF q
  <2> QED
    BY <2>1, <2>2
<1>d. [cache EXCEPT ![c] = [cache[c] EXCEPT !.is = "owner"]][c].is = "owner"
  <2>1. cache = [d \in Caches |-> cache[d]]
    BY DEF WarmInv, WarmShape
  <2>2. [cache[c] EXCEPT !.is = "owner"].is = "owner"
    BY <1>a, CacheIs
  <2> QED
    BY <2>1, <2>2
<1>1. CASE Releases(c) /\ cache[c].is = "owner"
  <2> DEFINE r == [cache[c] EXCEPT !.is = "dropping"]
  <2>1. cache' = [cache EXCEPT ![c] = r] /\ writer' = writer /\ slot' = [slot EXCEPT !.owner = {}]
    BY <1>1 DEF Releases
  <2>2. r = CacheShape(r)
    BY <1>a, CacheIs
  <2>2a. r.is = "dropping"
    BY <1>0 DEF CacheShape
  <2>3. slot' = [on |-> slot.on, owner |-> {}, retired |-> slot.retired]
    BY <1>0, <2>1
  <2>3b. slot' = [on |-> slot'.on, owner |-> slot'.owner, retired |-> slot'.retired]
    BY <2>3
  <2> HIDE DEF r
  <2>4. /\ WarmShape' /\ cache'[c] = r /\ writer'[c] = writer[c]
        /\ \A d \in Caches \ {c} : cache'[d] = cache[d] /\ writer'[d] = writer[d]
    BY <1>a, <2>1, <2>2, <2>3b, WarmShapes
  <2> QED
    BY <1>0, <1>1, <2>2, <2>2a, <2>3, <2>4 DEF WarmInv, SlotFits, WritesOn, Owns, Active
<1>2. CASE Releases(c) /\ cache[c].is \in {"memory", "orphan"}
  <2> DEFINE q == [cache[c] EXCEPT !.is = "gone"]
             r == [q EXCEPT !.rows = {}]
  <2>1. /\ cache' = [cache EXCEPT ![c] = r] /\ writer' = writer
        /\ slot' = slot \/ slot' = [slot EXCEPT !.retired = {}]
    BY <1>2 DEF Releases
  <2>2. q = CacheShape(q)
    BY <1>a, CacheIs
  <2>2a. q.is = "gone"
    BY <1>0 DEF CacheShape
  <2> HIDE DEF q
  <2>3. r = CacheShape(r)
    BY <2>2, <2>2a, CacheRows
  <2>3a. r.is = "gone"
    BY <2>2, <2>2a DEF CacheShape
  <2>3c. slot' = slot \/ slot' = [on |-> slot.on, owner |-> slot.owner, retired |-> {}]
    BY <1>0, <2>1
  <2>3d. slot'.on = slot.on /\ slot'.owner = slot.owner /\ slot'.retired \in {slot.retired, {}}
    BY <1>0, <2>3c
  <2>3b. slot' = [on |-> slot'.on, owner |-> slot'.owner, retired |-> slot'.retired]
    BY <1>0, <2>3c
  <2> HIDE DEF r
  <2>4. /\ WarmShape' /\ cache'[c] = r /\ writer'[c] = writer[c]
        /\ \A d \in Caches \ {c} : cache'[d] = cache[d] /\ writer'[d] = writer[d]
    BY <1>a, <2>1, <2>3, <2>3b, WarmShapes
  <2> QED
    BY <1>0, <1>2, <2>1, <2>3, <2>3a, <2>3d, <2>4 DEF WarmInv, SlotFits, WritesOn, Owns, Active
<1>3. CASE Retires(c)
  <2> DEFINE r == [cache[c] EXCEPT !.is = "gone"]
  <2>1. /\ cache' = [cache EXCEPT ![c] = r] /\ writer' = writer
        /\ slot' = [slot EXCEPT !.retired = {c}] /\ cache[c].is = "dropping"
    BY <1>3 DEF Retires
  <2>2. r = CacheShape(r)
    BY <1>a, CacheIs
  <2>2a. r.is = "gone"
    BY <1>0 DEF CacheShape
  <2>3. slot' = [on |-> slot.on, owner |-> slot.owner, retired |-> {c}]
    BY <1>0, <2>1
  <2>3b. slot' = [on |-> slot'.on, owner |-> slot'.owner, retired |-> slot'.retired]
    BY <2>3
  <2> HIDE DEF r
  <2>4. /\ WarmShape' /\ cache'[c] = r /\ writer'[c] = writer[c]
        /\ \A d \in Caches \ {c} : cache'[d] = cache[d] /\ writer'[d] = writer[d]
    BY <1>a, <2>1, <2>2, <2>3b, WarmShapes
  <2> QED
    BY <1>0, <2>1, <2>2, <2>2a, <2>3, <2>4 DEF WarmInv, SlotFits, WritesOn, Owns, Active
<1>4. CASE NewCache(c) /\ cache'[c].is # "owner"
  <2> DEFINE m == IF cache' = Kept("orphan") THEN "orphan" ELSE "memory"
             q == [cache[c] EXCEPT !.is = m]
             r == [q EXCEPT !.loaded = TRUE]
  <2>0. cache = [d \in Caches |-> cache[d]]
    BY DEF WarmInv, WarmShape
  <2>1. cache' = [cache EXCEPT ![c] = r] /\ writer' = writer /\ slot' = Swept /\ cache[c].is = "unused"
    BY <1>4, <1>b, <1>d
  <2> HIDE DEF m
  <2>2. q = CacheShape(q)
    BY <1>a, CacheIs
  <2>2a. q.is = m
    BY <1>0 DEF CacheShape
  <2> HIDE DEF q
  <2>3. r = CacheShape(r)
    BY <2>2, <2>2a, CacheLoaded
  <2>3a. r.is \in {"memory", "orphan"}
    BY <2>2, <2>2a DEF CacheShape, m
  <2> HIDE DEF r
  <2>4. slot' = slot \/ (slot' = NoSlot /\ slot.owner = {} /\ slot.retired # {}
                          /\ \A d \in slot.retired : writer[d].pc = "done")
    BY <2>1 DEF Swept
  <2>4a. slot' = [on |-> slot'.on, owner |-> slot'.owner, retired |-> slot'.retired]
    BY <1>0, <2>4 DEF NoSlot
  <2>5. /\ WarmShape' /\ cache'[c] = r /\ writer'[c] = writer[c]
        /\ \A d \in Caches \ {c} : cache'[d] = cache[d] /\ writer'[d] = writer[d]
    BY <1>a, <2>1, <2>3, <2>4a, WarmShapes
  <2>6. CASE slot' = slot
    BY <1>0, <2>1, <2>3, <2>3a, <2>5, <2>6 DEF WarmInv, SlotFits, WritesOn, Owns, Active
  <2>7. CASE slot' # slot
    <3>1. \A d \in Caches : ~Owns(d) /\ ~WritesOn(d)
      BY <1>0, <2>4, <2>7 DEF SlotFits, WritesOn, Owns
    <3> QED
      BY <2>1, <2>3a, <2>5, <3>1 DEF WarmInv, SlotFits, WritesOn, Owns, Active
  <2> QED
    BY <2>6, <2>7
<1>5. CASE NewCache(c) /\ cache'[c].is = "owner"
  <2> DEFINE r == [cache[c] EXCEPT !.is = "owner"]
             w == [Joined[c] EXCEPT !.pc = "open"]
  <2>0. /\ cache = [d \in Caches |-> cache[d]]
        /\ \A d \in Caches : cache[d] = CacheShape(cache[d]) /\ writer[d] = WriterShape(writer[d])
    BY DEF WarmInv, WarmShape
  <2>1. /\ cache' = [cache EXCEPT ![c] = r] /\ writer' = [Joined EXCEPT ![c] = w] /\ ~Swept.on
        /\ slot' = [on |-> TRUE, owner |-> {c}, retired |-> {}]
    BY <1>5, <1>b, <1>c
  <2>2. r = CacheShape(r)
    BY <1>a, CacheIs
  <2>2a. r.is = "owner"
    BY <1>0 DEF CacheShape
  <2>2b. NoWriter = WriterShape(NoWriter) /\ NoWriter.pc = "none"
    BY DEF NoWriter, WriterShape
  <2>2c. \A d \in Caches : /\ Joined[d] = WriterShape(Joined[d])
                           /\ Joined[d].pc \notin {"none", "done"} => WritesOn(d)
    BY <2>0, <2>2b DEF Joined, WritesOn
  <2>2d. Joined = [d \in Caches |-> Joined[d]]
    BY DEF Joined
  <2>2e. Joined[c] = WriterShape(Joined[c])
    BY <2>2c
  <2> HIDE DEF Joined
  <2>2f. w = WriterShape(w)
    BY <2>2e, WriterPc
  <2> HIDE DEF r, w
  <2>3. \A d \in Caches : /\ cache'[d] = IF d = c THEN r ELSE cache[d]
                          /\ writer'[d] = IF d = c THEN w ELSE Joined[d]
    BY <2>0, <2>1, <2>2d
  <2>3a. cache' = [d \in Caches |-> cache'[d]] /\ writer' = [d \in Caches |-> writer'[d]]
    BY <2>0, <2>1, <2>2d
  <2>3b. \A d \in Caches : cache'[d] = CacheShape(cache'[d]) /\ writer'[d] = WriterShape(writer'[d])
    BY <2>0, <2>2, <2>2c, <2>2f, <2>3
  <2>3c. /\ cache' = [d \in Caches |-> CacheShape(cache'[d])]
         /\ writer' = [d \in Caches |-> WriterShape(writer'[d])]
    BY <2>3a, <2>3b, Zenon
  <2>4. \/ ~slot.on
        \/ slot.owner = {} /\ slot.retired # {} /\ \A d \in slot.retired : writer[d].pc = "done"
    BY <2>1 DEF Swept
  <2>5. \A d \in Caches : ~Owns(d) /\ ~WritesOn(d)
    BY <1>0, <2>4 DEF SlotFits, WritesOn, Owns
  <2>6. \A d \in Caches \ {c} : ~Active(d)'
    BY <2>2c, <2>3, <2>5 DEF WritesOn, Owns, Active
  <2>7. WarmShape'
    BY <2>1, <2>3c DEF WarmShape
  <2>8. cache'[c].is = "owner"
    BY <2>2a, <2>3
  <2> QED
    BY <2>1, <2>6, <2>7, <2>8 DEF WarmInv, SlotFits, WritesOn, Owns, Active
<1> QED
  BY <1>1, <1>2, <1>3, <1>4, <1>5 DEF Releases

\* The process dies, or time passes.
LEMMA ProcessSteps ==
  ASSUME WarmInv, WarmCrash \/ WarmTicks \/ UNCHANGED warmVars
  PROVE  WarmInv'
<1>1. CASE WarmTicks \/ UNCHANGED warmVars
  BY <1>1 DEF WarmTicks, warmVars, WarmInv, WarmShape, SlotFits, WritesOn, Owns, Active
<1>2. CASE WarmCrash
  <2> DEFINE G(c) == IF cache[c].is = "unused" THEN NoCache
                     ELSE [NoCache EXCEPT !.is = "gone", !.revision = cache[c].revision]
  <2>0. writer' = [c \in Caches |-> NoWriter] /\ slot' = NoSlot
    BY <1>2, Zenon DEF WarmCrash
  <2>0a. cache' = [c \in Caches |-> G(c)]
    BY <1>2, Zenon DEF WarmCrash
  <2>0b. ASSUME NEW c \in Caches PROVE G(c) = NoCache \/ G(c) = [[NoCache EXCEPT !.is = "gone"] EXCEPT !.revision = cache[c].revision]
    BY DEF NoCache
  <2> HIDE DEF G
  <2>0c. \A c \in Caches : cache'[c] = G(c)
    BY <2>0a
  <2>1. ASSUME NEW c \in Caches
        PROVE  /\ cache'[c] = CacheShape(cache'[c]) /\ cache'[c].is \in {"unused", "gone"}
               /\ writer'[c] = WriterShape(writer'[c]) /\ writer'[c].pc = "none"
    <3>1. writer'[c] = NoWriter
      BY <2>0
    <3>2. cache[c] = CacheShape(cache[c])
      BY DEF WarmInv, WarmShape
    <3> DEFINE n == cache[c].revision
               q == [NoCache EXCEPT !.is = "gone"]
               r == [q EXCEPT !.revision = n]
    <3>3. cache'[c] = NoCache \/ cache'[c] = r
      BY <2>0b, <2>0c, Zenon
    <3> HIDE DEF n
    <3>4. NoCache = CacheShape(NoCache) /\ NoCache.is = "unused"
      BY DEF NoCache, CacheShape
    <3>5. q = CacheShape(q) /\ q.is = "gone"
      BY <3>4, CacheIs
    <3> HIDE DEF q
    <3>6. r = CacheShape(r) /\ r.is = "gone"
      BY <3>5, CacheRevision
    <3> HIDE DEF r
    <3>7. cache'[c] = CacheShape(cache'[c]) /\ cache'[c].is \in {"unused", "gone"}
      BY <3>3, <3>4, <3>6
    <3> QED
      BY <3>1, <3>7 DEF NoWriter, WriterShape
  <2>2. cache' = [c \in Caches |-> cache'[c]] /\ writer' = [c \in Caches |-> writer'[c]]
    BY <2>0, <2>0a
  <2>3. cache' = [c \in Caches |-> CacheShape(cache'[c])] /\ writer' = [c \in Caches |-> WriterShape(writer'[c])]
    BY <2>1, <2>2, Zenon
  <2>4. slot' = [on |-> FALSE, owner |-> {}, retired |-> {}]
    BY <2>0 DEF NoSlot
  <2> QED
    BY <2>1, <2>3, <2>4 DEF WarmInv, WarmShape, SlotFits, WritesOn, Owns, Active
<1> QED
  BY <1>1, <1>2

\* Every running writer is accounted for in every state.
THEOREM WarmInvariant == WarmSpec => []WarmInv
<1>1. WarmInit => WarmInv
  BY DEF WarmInit, WarmInv, WarmShape, CacheShape, WriterShape, NoSlot, NoCache, NoWriter, SlotFits, WritesOn, Owns, Active
<1>2. WarmInv /\ [WarmNext]_warmVars => WarmInv'
  BY WritingSteps, OwnerSteps, ProcessSteps DEF WarmNext
<1> QED
  BY <1>1, <1>2, PTL DEF WarmSpec

\* WarmPeerCache and its worker: at most one writer thread touches the file, also while an owner is
\* being replaced, and sweep never shows the path free while it is still being written.
THEOREM WritersHold == WarmSpec => []OneWriter
<1>1. WarmInv => OneWriter
  BY DEF WarmInv, SlotFits, WritesOn, Owns, Active, OneWriter
<1> QED
  BY <1>1, WarmInvariant, PTL

-----------------------------------------------------------------------------
(***************************************************************************)
(* The publishers over RTMP.  A stream number has one owner; only the last *)
(* claim of the current generation can still be valid, and the stream of a *)
(* valid claim is the accepted one from the moment it is inserted, also    *)
(* while its connection tries to publish again.  A connection that a       *)
(* deletion cut off is retired, or its stream still lies in the map and    *)
(* will retire it before it can claim again.                               *)
(***************************************************************************)
AcceptedStages == {"live", "frame", "push", "claim"}

RtmpTypes ==
  /\ claims \in 0 .. MaxClaims /\ generation \in Nat \ {0}
  /\ producer \in 0 .. claims /\ streams \in 0 .. claims
  /\ data \subseteq 1 .. claims /\ cancel \subseteq 0 .. claims
  /\ DOMAIN at = RtmpSessions /\ mine \in [RtmpSessions -> 0 .. claims]
  /\ born \in [StreamNos -> Nat] /\ DOMAIN owner = StreamNos
  /\ DOMAIN emitted = StreamNos

\* The stream a connection's callbacks name is its own; an idle one names none.
StreamsAreOwned ==
  \A c \in RtmpSessions : (mine[c] # 0 => owner[mine[c]] = c) /\ (at[c] = "idle" => mine[c] = 0)

\* Only the admitted producer can be valid.
OneProducer ==
  \A n \in StreamNos : born[n] <= generation /\ (born[n] = generation /\ n \notin cancel => producer = n)

ValidIsAccepted ==
  \A c \in RtmpSessions :
    at[c] \in AcceptedStages /\ mine[c] \in data /\ SessionValid(mine[c]) => streams = mine[c]

SeveredIsRetired ==
  \A c \in RtmpSessions \cap severed :
    /\ at[c] \notin {"claim", "insert"} /\ mine[c] \in cancel \union {0}
    /\ c \in retired \/ (streams = mine[c] /\ mine[c] \in data /\ at[c] # "remove")

RtmpInv == RtmpTypes /\ StreamsAreOwned /\ OneProducer /\ ValidIsAccepted /\ SeveredIsRetired

\* Two connections never name the same stream.
LEMMA StreamsApart ==
  ASSUME RtmpInv, NEW c \in RtmpSessions, NEW d \in RtmpSessions, mine[c] = mine[d], mine[c] # 0
  PROVE  c = d
BY DEF RtmpInv, StreamsAreOwned

LEMMA RtmpStart == RtmpInit => RtmpInv
<1> SUFFICES ASSUME RtmpInit PROVE RtmpInv
  OBVIOUS
<1>0. /\ at = [c \in RtmpSessions |-> "idle"] /\ mine = [c \in RtmpSessions |-> 0]
      /\ streams = 0 /\ severed = {} /\ data = {} /\ cancel = {} /\ generation = 1 /\ stopping = FALSE
      /\ producer = 0 /\ claims = 0
      /\ owner = [n \in StreamNos |-> "nobody"] /\ born = [n \in StreamNos |-> 0]
      /\ emitted = [n \in StreamNos |-> <<>>]
  BY DEF RtmpInit
<1>1. RtmpTypes
  BY <1>0, RtmpAssumption DEF RtmpTypes
<1>2. StreamsAreOwned /\ SeveredIsRetired /\ ValidIsAccepted
  BY <1>0 DEF StreamsAreOwned, SeveredIsRetired, ValidIsAccepted
<1>3. OneProducer
  BY <1>0 DEF OneProducer
<1> QED
  BY <1>1, <1>2, <1>3 DEF RtmpInv

\* The stream of a connection that was cut off lies in the map, or it is retired.
LEMMA SeveredHolds ==
  ASSUME RtmpInv, NEW c \in RtmpSessions, c \in severed, c \notin retired
  PROVE  /\ streams = mine[c] /\ mine[c] \in data /\ mine[c] \in cancel /\ mine[c] # 0 /\ at[c] # "remove"
         /\ owner[streams] = c /\ Buried = {c} /\ ~SessionValid(mine[c])
<1>1. streams = mine[c] /\ mine[c] \in data /\ mine[c] \in cancel \union {0} /\ at[c] # "remove"
  BY DEF RtmpInv, SeveredIsRetired
<1>2. mine[c] # 0
  BY <1>1 DEF RtmpInv, RtmpTypes
<1>3. owner[mine[c]] = c
  BY <1>2 DEF RtmpInv, StreamsAreOwned
<1> QED
  BY <1>1, <1>2, <1>3 DEF Buried, SessionValid

\* The checks before a claim.
LEMMA PublishSteps ==
  ASSUME RtmpInv, NEW c \in RtmpSessions, OnPublish(c)
  PROVE  RtmpInv'
<1>1. UNCHANGED <<mine, streams, data, cancel, severed, emitted, generation, stopping, producer, claims, owner, born>>
  BY DEF OnPublish, registryVars
<1>2. /\ at[c] \in {"idle", "live"} /\ retired \subseteq retired'
      /\ at' = at \/ (at' = [at EXCEPT ![c] = "claim"] /\ c \notin retired /\ c \notin Buried)
  BY DEF OnPublish, Goes
<1>3. RtmpTypes' /\ StreamsAreOwned' /\ OneProducer'
  BY <1>1, <1>2 DEF RtmpInv, RtmpTypes, StreamsAreOwned, OneProducer, StreamNos
<1>4. \A d \in RtmpSessions : at'[d] = at[d] \/ (d = c /\ at[d] \in {"idle", "live"} /\ at'[d] = "claim")
  BY <1>2 DEF RtmpInv, RtmpTypes
<1>5. at'[c] = "claim" => c \notin severed
  BY <1>2, SeveredHolds
<1>6. SeveredIsRetired'
  BY <1>1, <1>2, <1>4, <1>5 DEF RtmpInv, SeveredIsRetired
<1>7. ValidIsAccepted'
  BY <1>1, <1>4 DEF RtmpInv, RtmpTypes, StreamsAreOwned, ValidIsAccepted, SessionValid, GenerationCancelled, AcceptedStages
<1> QED
  BY <1>3, <1>6, <1>7 DEF RtmpInv

\* A claim is granted or refused.
LEMMA ClaimSteps ==
  ASSUME RtmpInv, NEW c \in RtmpSessions, AcquireProducer(c)
  PROVE  RtmpInv'
<1>0. UNCHANGED <<streams, retired, cancel, severed, emitted>> /\ at[c] = "claim" /\ c \notin severed
  BY DEF AcquireProducer, RtmpInv, SeveredIsRetired
<1>1. CASE Claimable /\ claims < MaxClaims
  <2> DEFINE n == claims + 1
  <2>1. /\ claims' = n /\ producer' = n /\ owner' = [owner EXCEPT ![n] = c] /\ born' = [born EXCEPT ![n] = generation]
        /\ mine' = [mine EXCEPT ![c] = n] /\ data' = data \union {n} /\ at' = [at EXCEPT ![c] = "insert"]
        /\ generation' = generation /\ stopping' = stopping
    BY <1>1 DEF AcquireProducer, Goes
  <2>2. n \in StreamNos /\ n \in Nat /\ n # 0 /\ n \notin cancel /\ claims \in Nat
    BY <1>1, RtmpAssumption DEF RtmpInv, RtmpTypes, StreamNos
  <2>3. RtmpTypes'
    <3>1. /\ claims' \in 0 .. MaxClaims /\ producer' \in 0 .. claims' /\ streams' \in 0 .. claims'
          /\ generation' \in Nat \ {0}
      BY <1>0, <1>1, <2>1, RtmpAssumption DEF RtmpInv, RtmpTypes
    <3>2. data' \subseteq 1 .. claims' /\ cancel' \subseteq 0 .. claims'
      BY <1>0, <2>1 DEF RtmpInv, RtmpTypes
    <3>3. mine' \in [RtmpSessions -> 0 .. claims']
      BY <2>1 DEF RtmpInv, RtmpTypes
    <3>4. born' \in [StreamNos -> Nat] /\ DOMAIN at' = RtmpSessions /\ DOMAIN owner' = StreamNos
          /\ DOMAIN emitted' = StreamNos
      BY <1>0, <2>1, <2>2 DEF RtmpInv, RtmpTypes
    <3> QED
      BY <3>1, <3>2, <3>3, <3>4 DEF RtmpTypes
  <2>4. ASSUME NEW d \in RtmpSessions, d # c
        PROVE  mine'[d] = mine[d] /\ at'[d] = at[d] /\ mine[d] # n /\ mine[d] \in 0 .. claims
    BY <2>1, <2>4 DEF RtmpInv, RtmpTypes
  <2>5. mine'[c] = n /\ at'[c] = "insert"
    BY <2>1 DEF RtmpInv, RtmpTypes
  <2>6. \A m \in StreamNos : /\ m # n => owner'[m] = owner[m] /\ born'[m] = born[m]
                             /\ owner'[n] = c /\ born'[n] = generation
    BY <2>1, <2>2 DEF RtmpInv, RtmpTypes
  <2>7. StreamsAreOwned'
    <3> SUFFICES ASSUME NEW d \in RtmpSessions
                 PROVE  (mine'[d] # 0 => owner'[mine'[d]] = d) /\ (at'[d] = "idle" => mine'[d] = 0)
      BY DEF StreamsAreOwned
    <3>1. CASE d = c
      BY <2>2, <2>5, <2>6, <3>1
    <3>2. CASE d # c
      <4>1. mine[d] # 0 => mine[d] \in StreamNos /\ owner[mine[d]] = d
        BY <2>4, <3>2, RtmpAssumption DEF RtmpInv, RtmpTypes, StreamsAreOwned, StreamNos
      <4> QED
        BY <2>4, <2>6, <3>2, <4>1 DEF RtmpInv, StreamsAreOwned
    <3> QED
      BY <3>1, <3>2
  <2>8. OneProducer'
    <3> SUFFICES ASSUME NEW m \in StreamNos
                 PROVE  born'[m] <= generation' /\ (born'[m] = generation' /\ m \notin cancel' => producer' = m)
      BY DEF OneProducer
    <3>1. CASE m = n
      BY <2>1, <2>6, <3>1 DEF RtmpInv, RtmpTypes
    <3>2. CASE m # n
      <4>1. born'[m] = born[m] /\ born[m] <= generation /\ (born[m] = generation /\ m \notin cancel => producer = m)
        BY <2>6, <3>2 DEF RtmpInv, OneProducer
      <4>2. m # 0 /\ (producer # 0 => producer \in cancel)
        BY <1>1, RtmpAssumption DEF Claimable, StreamNos
      <4> QED
        BY <1>0, <2>1, <4>1, <4>2
    <3> QED
      BY <3>1, <3>2
  <2>9. ValidIsAccepted'
    <3> SUFFICES ASSUME NEW d \in RtmpSessions, at'[d] \in AcceptedStages, mine'[d] \in data', SessionValid(mine[d])'
                 PROVE  streams' = mine'[d]
      BY DEF ValidIsAccepted
    <3>1. d # c
      BY <2>5 DEF AcceptedStages
    <3>2. mine[d] \in data /\ at[d] \in AcceptedStages /\ mine'[d] = mine[d] /\ mine[d] # n
      BY <2>1, <2>4, <3>1
    <3>3. mine[d] \in StreamNos
      BY <3>2, RtmpAssumption DEF RtmpInv, RtmpTypes, StreamNos
    <3>4. SessionValid(mine[d])
      BY <1>0, <2>1, <2>6, <3>2, <3>3 DEF SessionValid, GenerationCancelled
    <3> QED
      BY <1>0, <3>2, <3>4 DEF RtmpInv, ValidIsAccepted
  <2>10. SeveredIsRetired'
    BY <1>0, <2>1, <2>4 DEF RtmpInv, SeveredIsRetired
  <2> QED
    BY <2>3, <2>7, <2>8, <2>9, <2>10 DEF RtmpInv
<1>2. CASE ~(Claimable /\ claims < MaxClaims)
  <2>1. /\ UNCHANGED <<mine, data, generation, stopping, producer, claims, owner, born>>
        /\ at' = [at EXCEPT ![c] = IF mine[c] = 0 THEN "idle" ELSE "live"]
    BY <1>2 DEF AcquireProducer, registryVars, Goes
  <2>2. RtmpTypes' /\ OneProducer'
    BY <1>0, <2>1 DEF RtmpInv, RtmpTypes, OneProducer, StreamNos
  <2>3. /\ \A d \in RtmpSessions : d # c => at'[d] = at[d]
        /\ at'[c] = IF mine[c] = 0 THEN "idle" ELSE "live"
    BY <2>1 DEF RtmpInv, RtmpTypes
  <2>4. StreamsAreOwned'
    BY <2>1, <2>3 DEF RtmpInv, StreamsAreOwned
  <2>5. ValidIsAccepted'
    BY <1>0, <2>1, <2>3 DEF RtmpInv, ValidIsAccepted, SessionValid, GenerationCancelled, AcceptedStages
  <2>6. SeveredIsRetired'
    BY <1>0, <2>1, <2>3 DEF RtmpInv, SeveredIsRetired
  <2> QED
    BY <2>2, <2>4, <2>5, <2>6 DEF RtmpInv
<1> QED
  BY <1>1, <1>2

\* A callback of c: what it may do to the map, the producers and the tombstones.
CallbackStep(c, where) ==
  /\ UNCHANGED <<generation, stopping, producer, claims, owner, born>> /\ DOMAIN emitted' = StreamNos
  /\ at' = [at EXCEPT ![c] = where] /\ where \notin {"claim", "insert"}
  /\ mine' = mine \/ mine' = [mine EXCEPT ![c] = 0]
  /\ where = "idle" => mine' = [mine EXCEPT ![c] = 0]
  /\ \/ streams' = streams
     \/ streams' = 0 /\ streams = mine[c] /\ (mine[c] \notin data' \/ mine' = [mine EXCEPT ![c] = 0])
     \/ streams' = mine[c] /\ (streams = 0 \/ streams \in cancel)
  /\ at[c] \in AcceptedStages \/ where \notin AcceptedStages \/ streams' = mine[c]
  /\ data' \subseteq data /\ data \ data' \subseteq {mine[c]}
  /\ cancel \subseteq cancel' /\ cancel' \ cancel \subseteq {mine[c]}
  /\ severed' \subseteq severed /\ retired \ retired' \subseteq {c} /\ severed \ severed' \subseteq {c}
  /\ \/ c \in retired' \/ c \notin severed'
     \/ c \notin retired /\ mine' = mine /\ streams' = streams /\ data' = data /\ where # "remove"
  /\ streams' # streams => Buried \subseteq retired' \union {c}

LEMMA CallbackKeeps ==
  ASSUME RtmpInv, NEW c \in RtmpSessions, NEW where, CallbackStep(c, where)
  PROVE  RtmpInv'
<1> USE DEF CallbackStep
<1>1. RtmpTypes'
  <2>1. mine[c] \in 0 .. claims
    BY DEF RtmpInv, RtmpTypes
  <2>2. mine' \in [RtmpSessions -> 0 .. claims]
    BY <2>1 DEF RtmpInv, RtmpTypes
  <2>3. streams' \in 0 .. claims
    BY <2>1 DEF RtmpInv, RtmpTypes
  <2>4. cancel' \subseteq 0 .. claims /\ data' \subseteq 1 .. claims
    BY <2>1 DEF RtmpInv, RtmpTypes
  <2> QED
    BY <2>2, <2>3, <2>4 DEF RtmpInv, RtmpTypes
<1>2. /\ \A d \in RtmpSessions : d # c => at'[d] = at[d] /\ mine'[d] = mine[d]
      /\ at'[c] = where /\ mine'[c] \in {mine[c], 0} /\ (where = "idle" => mine'[c] = 0)
      /\ mine' = [mine EXCEPT ![c] = 0] => mine'[c] = 0
  BY DEF RtmpInv, RtmpTypes
<1>3. StreamsAreOwned'
  BY <1>2 DEF RtmpInv, StreamsAreOwned
<1>4. OneProducer'
  BY DEF RtmpInv, OneProducer
<1>5. ASSUME NEW d \in RtmpSessions, SessionValid(mine[d])', mine'[d] = mine[d]
      PROVE  SessionValid(mine[d])
  BY <1>5 DEF SessionValid, GenerationCancelled
<1>6. ValidIsAccepted'
  <2> SUFFICES ASSUME NEW d \in RtmpSessions, at'[d] \in AcceptedStages, mine'[d] \in data', SessionValid(mine[d])'
               PROVE  streams' = mine'[d]
    BY DEF ValidIsAccepted
  <2>1. mine'[d] # 0
    BY DEF RtmpInv, RtmpTypes
  <2>2. mine'[d] = mine[d] /\ SessionValid(mine[d]) /\ mine[d] \in data /\ mine[d] \notin cancel
    BY <1>2, <1>5, <2>1 DEF SessionValid
  <2>3. CASE d = c
    BY <1>2, <2>1, <2>2, <2>3 DEF RtmpInv, ValidIsAccepted
  <2>4. CASE d # c
    <3>1. streams = mine[d]
      BY <1>2, <2>2, <2>4 DEF RtmpInv, ValidIsAccepted
    <3>2. mine[c] # mine[d]
      BY <2>1, <2>2, <2>4, StreamsApart
    <3> QED
      BY <2>1, <2>2, <3>1, <3>2
  <2> QED
    BY <2>3, <2>4
<1>7. SeveredIsRetired'
  <2> SUFFICES ASSUME NEW d \in RtmpSessions, d \in severed'
               PROVE  /\ at'[d] \notin {"claim", "insert"} /\ mine'[d] \in cancel' \union {0}
                      /\ d \in retired' \/ (streams' = mine'[d] /\ mine'[d] \in data' /\ at'[d] # "remove")
    BY DEF SeveredIsRetired
  <2>1. at[d] \notin {"claim", "insert"} /\ mine[d] \in cancel \union {0}
    BY DEF RtmpInv, SeveredIsRetired
  <2>2. at'[d] \notin {"claim", "insert"} /\ mine'[d] \in cancel' \union {0}
    BY <1>2, <2>1
  <2>3. ASSUME d \notin retired' PROVE streams' = mine'[d] /\ mine'[d] \in data' /\ at'[d] # "remove"
    <3>1. CASE d = c
      BY <1>2, <2>3, <3>1 DEF RtmpInv, SeveredIsRetired
    <3>2. CASE d # c
      <4>1. d \notin retired
        BY <2>3, <3>2
      <4>2. streams = mine[d] /\ mine[d] \in data /\ mine[d] # 0 /\ Buried = {d} /\ at[d] # "remove"
        BY <4>1, SeveredHolds
      <4>3. mine[c] # mine[d]
        BY <3>2, <4>2, StreamsApart
      <4> QED
        BY <1>2, <2>3, <3>2, <4>2, <4>3
    <3> QED
      BY <3>1, <3>2
  <2> QED
    BY <2>2, <2>3
<1> QED
  BY <1>1, <1>3, <1>4, <1>6, <1>7 DEF RtmpInv

\* A stream that leaves the map with its connection buries nobody else.
LEMMA RemovalHolds ==
  ASSUME RtmpInv, NEW c \in RtmpSessions, streams = mine[c]
  PROVE  Buried \subseteq {c}
BY DEF Buried, RtmpInv, StreamsAreOwned

\* What every callback leaves alone.
LEMMA CallbackFrame ==
  ASSUME RtmpInv, UNCHANGED registryVars, emitted' = emitted
  PROVE  UNCHANGED <<generation, stopping, producer, claims, owner, born>> /\ DOMAIN emitted' = StreamNos
BY DEF RtmpInv, RtmpTypes, registryVars

\* A claimed stream is accepted, or dropped again.
LEMMA InsertSteps ==
  ASSUME RtmpInv, NEW c \in RtmpSessions, Insert(c)
  PROVE  RtmpInv'
<1>0. /\ UNCHANGED <<generation, stopping, producer, claims, owner, born>> /\ DOMAIN emitted' = StreamNos
      /\ severed' = severed /\ c \notin severed /\ at[c] = "insert"
  BY CallbackFrame DEF Insert, RtmpInv, SeveredIsRetired
<1>1. CASE mine[c] \in cancel \/ (streams # 0 /\ (streams \notin cancel \/ c \in Buried))
  <2>1. /\ Drops(mine[c]) /\ mine' = [mine EXCEPT ![c] = 0] /\ at' = [at EXCEPT ![c] = "idle"] /\ streams' = streams
        /\ retired \subseteq retired'
    BY <1>1 DEF Insert, Goes
  <2>2. CallbackStep(c, "idle")
    BY <1>0, <2>1 DEF CallbackStep, Drops, AcceptedStages
  <2> QED
    BY <2>2, CallbackKeeps
<1>2. CASE ~(mine[c] \in cancel \/ (streams # 0 /\ (streams \notin cancel \/ c \in Buried)))
  <2>1. /\ mine' = mine /\ data' = data /\ cancel' = cancel /\ at' = [at EXCEPT ![c] = "live"]
        /\ streams' = mine[c] /\ retired' = retired \union Buried /\ (streams = 0 \/ streams \in cancel)
    BY <1>2 DEF Insert, Goes
  <2>2. CallbackStep(c, "live")
    BY <1>0, <2>1 DEF CallbackStep
  <2> QED
    BY <2>2, CallbackKeeps
<1> QED
  BY <1>1, <1>2

\* A frame is looked up, and its push returns.
LEMMA FrameSteps ==
  ASSUME RtmpInv, NEW c \in RtmpSessions, OnFrame(c) \/ \E ok \in BOOLEAN : Pushed(c, ok)
  PROVE  RtmpInv'
<1>1. CASE OnFrame(c)
  <2>1. /\ UNCHANGED <<generation, stopping, producer, claims, owner, born>> /\ DOMAIN emitted' = StreamNos
        /\ UNCHANGED <<severed, retired, mine, streams, data, cancel>>
        /\ at[c] = "live" /\ at' = [at EXCEPT ![c] = "frame"]
    BY <1>1, CallbackFrame DEF OnFrame, Goes
  <2>2. CallbackStep(c, "frame")
    BY <2>1 DEF CallbackStep, AcceptedStages
  <2> QED
    BY <2>2, CallbackKeeps
<1>2. ASSUME NEW ok \in BOOLEAN, Pushed(c, ok) PROVE RtmpInv'
  <2>1. /\ UNCHANGED <<generation, stopping, producer, claims, owner, born>> /\ DOMAIN emitted' = StreamNos
        /\ UNCHANGED <<severed, mine>> /\ at[c] = "push" /\ at' = [at EXCEPT ![c] = "live"]
    BY <1>2, CallbackFrame DEF Pushed, Goes
  <2>2. \/ UNCHANGED <<streams, retired, data, cancel>>
        \/ retired' = retired \union {c} /\ Drops(mine[c]) /\ RemoveCurrent(mine[c])
    BY <1>2 DEF Pushed
  <2>3. CallbackStep(c, "live")
    BY <2>1, <2>2, RemovalHolds DEF CallbackStep, AcceptedStages, Drops, RemoveCurrent
  <2> QED
    BY <2>3, CallbackKeeps
<1> QED
  BY <1>1, <1>2

\* A media frame is refused, remembered, dropped or packed.
LEMMA MediaSteps ==
  ASSUME RtmpInv, NEW c \in RtmpSessions, NEW kind \in {"video", "audio"}, NEW count \in 1 .. 2, PushMedia(c, kind, count)
  PROVE  RtmpInv'
<1>1. /\ UNCHANGED <<generation, stopping, producer, claims, owner, born>> /\ UNCHANGED <<severed, mine>> /\ at[c] = "frame"
  BY DEF PushMedia, registryVars
<1>2. DOMAIN emitted' = StreamNos
  BY DEF PushMedia, RtmpInv, RtmpTypes
<1>3. \/ at' = [at EXCEPT ![c] = "live"] /\ UNCHANGED <<streams, retired, data, cancel>>
      \/ at' = [at EXCEPT ![c] = "live"] /\ retired' = retired \union {c} /\ Drops(mine[c]) /\ RemoveCurrent(mine[c])
      \/ at' = [at EXCEPT ![c] = "push"] /\ UNCHANGED <<streams, retired, data, cancel>>
  BY DEF PushMedia, Goes
<1>4. CallbackStep(c, "live") \/ CallbackStep(c, "push")
  BY <1>1, <1>2, <1>3, RemovalHolds DEF CallbackStep, AcceptedStages, Drops, RemoveCurrent
<1> QED
  BY <1>4, CallbackKeeps

\* A connection ends its publication.
LEMMA UnpublishSteps ==
  ASSUME RtmpInv, NEW c \in RtmpSessions, OnUnpublish(c) \/ Finish(c) \/ RemoveStream(c)
  PROVE  RtmpInv'
<1>0. UNCHANGED <<generation, stopping, producer, claims, owner, born>> /\ DOMAIN emitted' = StreamNos /\ severed' = severed
  BY CallbackFrame DEF OnUnpublish, Finish, RemoveStream
<1>1. CASE OnUnpublish(c)
  <2>1. UNCHANGED <<streams, retired, data, cancel>> /\ at[c] = "live"
    BY <1>1 DEF OnUnpublish
  <2>2. CASE Found(c)
    <3>1. at' = [at EXCEPT ![c] = "unpublish"] /\ mine' = mine
      BY <1>1, <2>2 DEF OnUnpublish, Goes
    <3>2. CallbackStep(c, "unpublish")
      BY <1>0, <2>1, <3>1 DEF CallbackStep, AcceptedStages
    <3> QED
      BY <3>2, CallbackKeeps
  <2>3. CASE ~Found(c)
    <3>1. at' = [at EXCEPT ![c] = "idle"] /\ mine' = [mine EXCEPT ![c] = 0]
      BY <1>1, <2>3 DEF OnUnpublish, Goes
    <3>2. c \in retired \/ c \notin severed
      BY <2>3, SeveredHolds DEF Found
    <3>3. CallbackStep(c, "idle")
      BY <1>0, <2>1, <3>1, <3>2 DEF CallbackStep, AcceptedStages
    <3> QED
      BY <3>3, CallbackKeeps
  <2> QED
    BY <2>2, <2>3
<1>2. CASE Finish(c)
  <2>1. /\ UNCHANGED <<mine, streams>> /\ Drops(mine[c]) /\ at' = [at EXCEPT ![c] = "remove"]
        /\ retired' = IF mine[c] \in data /\ ~SessionValid(mine[c]) THEN retired \union {c} ELSE retired
    BY <1>2 DEF Finish, Goes
  <2>2. c \in retired' \/ c \notin severed
    BY <2>1, SeveredHolds
  <2>3. CallbackStep(c, "remove")
    BY <1>0, <2>1, <2>2 DEF CallbackStep, AcceptedStages, Drops
  <2> QED
    BY <2>3, CallbackKeeps
<1>3. CASE RemoveStream(c)
  <2>1. /\ UNCHANGED <<data, cancel>> /\ at[c] = "remove" /\ RemoveCurrent(mine[c]) /\ retired \subseteq retired'
        /\ mine' = [mine EXCEPT ![c] = 0] /\ at' = [at EXCEPT ![c] = "idle"]
    BY <1>3 DEF RemoveStream, Goes
  <2>2. c \in retired \/ c \notin severed
    BY <2>1, SeveredHolds
  <2>3. CallbackStep(c, "idle")
    BY <1>0, <2>1, <2>2, RemovalHolds DEF CallbackStep, AcceptedStages, RemoveCurrent
  <2> QED
    BY <2>3, CallbackKeeps
<1> QED
  BY <1>1, <1>2, <1>3

\* A connection goes.
LEMMA DisconnectSteps ==
  ASSUME RtmpInv, NEW c \in RtmpSessions, OnDisconnect(c) \/ Discard(c)
  PROVE  RtmpInv'
<1>0. UNCHANGED <<generation, stopping, producer, claims, owner, born>> /\ DOMAIN emitted' = StreamNos
  BY CallbackFrame DEF OnDisconnect, Discard
<1>1. CASE OnDisconnect(c)
  <2>1. UNCHANGED <<streams, data, cancel>>
    BY <1>1 DEF OnDisconnect
  <2>2. CASE Found(c)
    <3>1. at' = [at EXCEPT ![c] = "broken"] /\ UNCHANGED <<mine, retired, severed>>
      BY <1>1, <2>2 DEF OnDisconnect, Goes
    <3>2. CallbackStep(c, "broken")
      BY <1>0, <2>1, <3>1 DEF CallbackStep, AcceptedStages
    <3> QED
      BY <3>2, CallbackKeeps
  <2>3. CASE ~Found(c)
    <3>1. /\ at' = [at EXCEPT ![c] = "idle"] /\ mine' = [mine EXCEPT ![c] = 0]
          /\ retired' = retired \ {c} /\ severed' = severed \ {c}
      BY <1>1, <2>3 DEF OnDisconnect, Goes
    <3>2. CallbackStep(c, "idle")
      BY <1>0, <2>1, <3>1 DEF CallbackStep, AcceptedStages
    <3> QED
      BY <3>2, CallbackKeeps
  <2> QED
    BY <2>2, <2>3
<1>2. CASE Discard(c)
  <2>1. /\ Drops(mine[c]) /\ RemoveCurrent(mine[c]) /\ at' = [at EXCEPT ![c] = "idle"] /\ mine' = [mine EXCEPT ![c] = 0]
        /\ retired' = retired \ {c} /\ severed' = severed \ {c}
    BY <1>2 DEF Discard, Goes
  <2>2. CallbackStep(c, "idle")
    BY <1>0, <2>1, RemovalHolds DEF CallbackStep, AcceptedStages, Drops, RemoveCurrent
  <2> QED
    BY <2>2, CallbackKeeps
<1> QED
  BY <1>1, <1>2

\* The broadcast is deleted: its producer is cancelled, and the next entry is of a new generation.
LEMMA RegistrySteps ==
  ASSUME RtmpInv, DeleteBroadcast \/ StopHolds \/ StopEnds \/ UNCHANGED rtmpVars
  PROVE  RtmpInv'
<1>1. CASE DeleteBroadcast
  <2>1. /\ UNCHANGED <<at, mine, streams, retired, data, emitted, generation, producer, claims, owner, born>>
        /\ stopping' = TRUE /\ cancel \subseteq cancel' /\ cancel' \subseteq cancel \union {producer}
        /\ producer # 0 => producer \in cancel'
        /\ \A c \in RtmpSessions : c \in severed' =>
             c \in severed \/ (at[c] \in {"live", "frame", "push"} /\ streams = mine[c] /\ mine[c] = producer /\ producer \in data)
    BY <1>1 DEF DeleteBroadcast
  <2>2. RtmpTypes'
    BY <2>1 DEF RtmpInv, RtmpTypes, StreamNos
  <2>3. StreamsAreOwned' /\ OneProducer'
    BY <2>1 DEF RtmpInv, StreamsAreOwned, OneProducer, StreamNos
  <2>4. ValidIsAccepted'
    BY <2>1 DEF RtmpInv, ValidIsAccepted, SessionValid, GenerationCancelled
  <2>5. SeveredIsRetired'
    BY <2>1 DEF RtmpInv, SeveredIsRetired
  <2> QED
    BY <2>2, <2>3, <2>4, <2>5 DEF RtmpInv
<1>2. CASE StopEnds
  <2>1. /\ UNCHANGED <<at, mine, streams, retired, data, cancel, emitted, severed, claims, owner, born>>
        /\ generation' = generation + 1 /\ producer' = 0
    BY <1>2 DEF StopEnds
  <2>2. RtmpTypes'
    BY <2>1 DEF RtmpInv, RtmpTypes, StreamNos
  <2>3. \A n \in StreamNos : born[n] \in Nat /\ born[n] <= generation /\ generation \in Nat
    BY DEF RtmpInv, RtmpTypes, OneProducer
  <2>4. StreamsAreOwned' /\ OneProducer' /\ SeveredIsRetired'
    BY <2>1, <2>3 DEF RtmpInv, StreamsAreOwned, OneProducer, SeveredIsRetired, StreamNos
  <2>5. ASSUME NEW c \in RtmpSessions, mine'[c] \in data' PROVE ~SessionValid(mine[c])'
    <3>1. mine[c] \in StreamNos
      BY <2>1, <2>5, RtmpAssumption DEF RtmpInv, RtmpTypes, StreamNos
    <3> QED
      BY <2>1, <2>3, <3>1 DEF SessionValid, GenerationCancelled
  <2>6. ValidIsAccepted'
    BY <2>5 DEF ValidIsAccepted
  <2> QED
    BY <2>2, <2>4, <2>6 DEF RtmpInv
<1>3. CASE StopHolds \/ UNCHANGED rtmpVars
  <2>1. UNCHANGED <<at, mine, streams, retired, data, cancel, emitted, severed, generation, stopping, producer, claims, owner, born>>
    BY <1>3 DEF StopHolds, rtmpVars, registryVars
  <2>2. RtmpTypes' /\ StreamsAreOwned' /\ OneProducer'
    BY <2>1 DEF RtmpInv, RtmpTypes, StreamsAreOwned, OneProducer, StreamNos
  <2>3. ValidIsAccepted' /\ SeveredIsRetired'
    BY <2>1 DEF RtmpInv, ValidIsAccepted, SeveredIsRetired, SessionValid, GenerationCancelled
  <2> QED
    BY <2>2, <2>3 DEF RtmpInv
<1> QED
  BY <1>1, <1>2, <1>3

\* The invariant of the RTMP ingress.
THEOREM RtmpInvariant == RtmpSpec => []RtmpInv
<1>1. RtmpInv /\ [RtmpNext]_rtmpVars => RtmpInv'
  BY PublishSteps, ClaimSteps, InsertSteps, FrameSteps, MediaSteps, UnpublishSteps, DisconnectSteps, RegistrySteps
     DEF RtmpNext
<1> QED
  BY <1>1, RtmpStart, PTL DEF RtmpSpec

\* A frame is ingested only for the accepted stream of the admitted producer.
LEMMA IngestSteps ==
  ASSUME RtmpInv, [RtmpNext]_rtmpVars
  PROVE  IngestIsFenced
<1> SUFFICES ASSUME NEW n \in StreamNos, emitted'[n] # emitted[n]
             PROVE  n = producer /\ born[n] = generation /\ ~stopping /\ n = streams
  BY DEF IngestIsFenced
<1>1. PICK c \in RtmpSessions, kind \in {"video", "audio"}, count \in 1 .. 2 : PushMedia(c, kind, count)
  BY DEF RtmpNext, rtmpVars, OnPublish, AcquireProducer, Insert, OnFrame, Pushed, OnUnpublish, Finish, RemoveStream,
         OnDisconnect, Discard, DeleteBroadcast, StopHolds, StopEnds
<1>2. at[c] = "frame" /\ at'[c] = "push" /\ n = mine[c]
  BY <1>1 DEF PushMedia, RtmpInv, RtmpTypes
<1>3. at' # [at EXCEPT ![c] = "live"]
  BY <1>2 DEF RtmpInv, RtmpTypes
<1>4. mine[c] \in data /\ SessionValid(mine[c])
  BY <1>1, <1>3 DEF PushMedia, Goes
<1>5. streams = mine[c]
  BY <1>2, <1>4 DEF RtmpInv, ValidIsAccepted, AcceptedStages
<1> QED
  BY <1>2, <1>4, <1>5 DEF RtmpInv, OneProducer, SessionValid, GenerationCancelled

\* rtmp.rs: a publisher that was replaced, or whose broadcast was deleted, writes nothing into the
\* stream of its successor, and the accepted stream of a valid producer stays the one in the map,
\* however the callbacks of the connections and the deletion interleave.
THEOREM PublishersHold == RtmpSpec => PublishersAreFenced
<1>1. RtmpInv => AcceptedIsMapped /\ SeveredIsOver
  BY DEF RtmpInv, RtmpTypes, ValidIsAccepted, SeveredIsRetired, AcceptedIsMapped, SeveredIsOver, Publishes,
         AcceptedStages, SessionValid
<1>2. RtmpInv /\ [RtmpNext]_rtmpVars => [IngestIsFenced]_rtmpVars
  BY IngestSteps
<1> QED
  BY <1>1, <1>2, RtmpInvariant, PTL DEF RtmpSpec, PublishersAreFenced

-----------------------------------------------------------------------------
(***************************************************************************)
(* The registry of what is seeded.  A lease holds the entries of its keys  *)
(* as long as it lives, so they are neither reaped nor replaced: they are  *)
(* present, count the lease, and a broadcast's two keys know each other.   *)
(* A store is never taken away from an entry that has one.                 *)
(***************************************************************************)
SeedStages == {"idle", "rendezvous", "make", "publish", "finish", "lease", "leased"}
SeedEntries ==
  [gen : Nat \ {0}, store : Nat, meta : BOOLEAN, producers : Nat, kind : {"leech", "broadcast"},
   canonical : SeedKeys \union {NoKey}, aliases : SUBSET SeedKeys]
LeaseRecords == [at : SeedStages, store : Nat, rendezvous : Nat, keys : Seq(SeedKeys \X Nat)]

LeaseTypes ==
  /\ seedEntry \in [SeedKeys -> SeedEntries \union {NoSeed}]
  /\ lessee \in [Lessees -> LeaseRecords]
  /\ made \in Seq(Nat) /\ creating \in [SeedKeys -> 0 .. Len(made)]
  /\ nextGen \in Nat \ {0} /\ nextMade \in Nat \ {0}

\* The keys of a lessee, and its leases on the entries that are registered now.
KeysOf(l) == IF l \in DOMAIN Leechers THEN {Leechers[l]} ELSE {Broadcasters[l][1], Broadcasters[l][2]}
LeaseOn(k) == <<k, seedEntry[k].gen>>
LeasesOf(l) ==
  IF l \in DOMAIN Leechers THEN <<LeaseOn(Leechers[l])>>
  ELSE <<LeaseOn(Broadcasters[l][1]), LeaseOn(Broadcasters[l][2])>>

Leased(l) == lessee[l].at = "leased"
LeasedOn(k) == {l \in Lessees : Leased(l) /\ k \in KeysOf(l)}

\* What a lessee holds fits where it stands.
LesseeFits(l) ==
  /\ lessee[l].at = "make" => lessee[l].rendezvous \in 1 .. Len(made)
  /\ lessee[l].at \in {"publish", "finish", "lease", "leased"} => lessee[l].store # 0
  /\ ~Leased(l) => lessee[l].keys = <<>>
  /\ Leased(l) => /\ lessee[l].keys = LeasesOf(l)
                  /\ \A k \in KeysOf(l) : /\ Present(k)
                                          /\ l \in DOMAIN Broadcasters => KeysOf(l) \subseteq seedEntry[k].aliases
                  /\ seedEntry[InfohashOf(l)].store = lessee[l].store

EntryCounts(k) == Present(k) => seedEntry[k].producers = Cardinality(LeasedOn(k))

LeaseInv ==
  /\ LeaseTypes
  /\ \A l \in Lessees : LesseeFits(l)
  /\ \A k \in SeedKeys : EntryCounts(k)

ConnTypes ==
  /\ conn \in [Inbound -> [at : {"none", "handshake", "serving"}, key : SeedKeys \union {NoKey},
                           canonical : SeedKeys \union {NoKey}]]
  /\ counts \in [SeedKeys -> Nat] /\ bindings \in [SeedKeys -> SeedKeys \union {NoKey}]

\* A connection that is served has a key, which is bound to what it counts for.
ConnFits(c) ==
  IF conn[c].at = "serving"
  THEN conn[c].key \in SeedKeys /\ conn[c].canonical \in SeedKeys /\ bindings[conn[c].key] = conn[c].canonical
  ELSE conn[c].key = NoKey /\ conn[c].canonical = NoKey

CountedFor(k) == {c \in Inbound : conn[c].canonical = k}
ConnInv ==
  /\ ConnTypes
  /\ \A c \in Inbound : ConnFits(c)
  /\ \A k \in SeedKeys : counts[k] = Cardinality(CountedFor(k))

\* The keys that are used are keys of the registry.
LEMMA KeysHold ==
  ASSUME NEW l \in Lessees
  PROVE  KeysOf(l) \subseteq SeedKeys /\ InfohashOf(l) \in KeysOf(l)
<1>1. CASE l \in DOMAIN Leechers
  BY <1>1 DEF KeysOf, InfohashOf, SeedKeys, Range
<1>2. CASE l \notin DOMAIN Leechers
  <2>1. l \in DOMAIN Broadcasters
    BY <1>2 DEF Lessees
  <2>2. Broadcasters[l] \in Range(Broadcasters)
    BY <2>1 DEF Range
  <2>3. {Broadcasters[l][1], Broadcasters[l][2]} \subseteq SeedKeys
    BY <2>2 DEF SeedKeys
  <2> QED
    BY <1>2, <2>3 DEF KeysOf, InfohashOf
<1> QED
  BY <1>1, <1>2

LEMMA EntriesHold ==
  ASSUME LeaseTypes, NEW k \in SeedKeys
  PROVE  Present(k) <=> seedEntry[k] \in SeedEntries
<1>1. seedEntry[k] \in SeedEntries \union {NoSeed}
  BY DEF LeaseTypes
<1>2. NoSeed \notin SeedEntries
  <2> SUFFICES ASSUME NoSeed \in SeedEntries PROVE FALSE
    OBVIOUS
  <2>1. NoSeed.gen # 0
    BY DEF SeedEntries
  <2> QED
    BY <2>1 DEF NoSeed
<1> QED
  BY <1>1, <1>2 DEF Present

\* require_canonical changes nothing else.
LEMMA RequiresHolds ==
  ASSUME NEW e \in SeedEntries, NEW q \in SeedKeys
  PROVE  /\ Requires(e, q) \in SeedEntries /\ Requires(e, q).gen = e.gen /\ Requires(e, q).store = e.store
         /\ Requires(e, q).producers = e.producers /\ Requires(e, q).aliases = e.aliases
BY DEF Requires, SeedEntries

LEMMA EntryOrHolds ==
  ASSUME LeaseTypes, NEW k \in SeedKeys, NEW q \in SeedKeys
  PROVE  /\ EntryOr(k, q) \in SeedEntries
         /\ Present(k) => EntryOr(k, q) = seedEntry[k]
         /\ ~Present(k) => EntryOr(k, q).producers = 0 /\ EntryOr(k, q).gen = nextGen
<1>1. CASE Present(k)
  BY <1>1, EntriesHold DEF EntryOr
<1>2. CASE ~Present(k)
  <2>1. EntryOr(k, q) = [gen |-> nextGen, store |-> 0, meta |-> FALSE, producers |-> 0, kind |-> "leech",
                         canonical |-> q, aliases |-> {}]
    BY <1>2 DEF EntryOr, NewEntry
  <2>2. nextGen \in Nat \ {0}
    BY DEF LeaseTypes
  <2> QED
    BY <1>2, <2>1, <2>2 DEF SeedEntries
<1> QED
  BY <1>1, <1>2

\* What is leased is present, and there are finitely many leases.
LEMMA LeasedHolds ==
  ASSUME LeaseInv, NEW k \in SeedKeys
  PROVE  /\ IsFiniteSet(LeasedOn(k)) /\ Cardinality(LeasedOn(k)) \in Nat
         /\ ~Present(k) => LeasedOn(k) = {} /\ Cardinality(LeasedOn(k)) = 0
<1>1. IsFiniteSet(LeasedOn(k))
  BY SeedAssumption, FS_Subset DEF LeasedOn
<1>2. ~Present(k) => LeasedOn(k) = {}
  BY DEF LeaseInv, LesseeFits, LeasedOn
<1> QED
  BY <1>1, <1>2, FS_CardinalityType, FS_EmptySet

\* An entry keeps what leases rely on; n more leases count on it.
EntryStep(k, n) ==
  /\ Present(k) => /\ Present(k)' /\ seedEntry'[k].gen = seedEntry[k].gen
                   /\ seedEntry[k].aliases \subseteq seedEntry'[k].aliases
                   /\ seedEntry[k].store # 0 => seedEntry'[k].store = seedEntry[k].store
  /\ Present(k)' => seedEntry'[k].producers = (IF Present(k) THEN seedEntry[k].producers ELSE 0) + n

\* A lessee that has no lease moves, and perhaps has one then.
LesseeStep(l, r) ==
  /\ ~Leased(l) /\ lessee' = [lessee EXCEPT ![l] = r] /\ LeaseTypes' /\ Len(made) <= Len(made')
  /\ LesseeFits(l)'
  /\ \A k \in SeedKeys : EntryStep(k, IF r.at = "leased" /\ k \in KeysOf(l) THEN 1 ELSE 0)

LEMMA LesseeKeeps ==
  ASSUME LeaseInv, NEW l \in Lessees, NEW r, LesseeStep(l, r)
  PROVE  LeaseInv'
<1>0. /\ lessee'[l] = r /\ \A m \in Lessees \ {l} : lessee'[m] = lessee[m]
  BY DEF LesseeStep, LeaseInv, LeaseTypes
<1>1. ASSUME NEW m \in Lessees PROVE LesseeFits(m)'
  <2>1. CASE m = l
    BY <2>1 DEF LesseeStep
  <2>2. CASE m # l
    <3>1. lessee'[m] = lessee[m] /\ LesseeFits(m) /\ (Leased(m)' <=> Leased(m))
      BY <1>0, <2>2 DEF LeaseInv, Leased
    <3>2. lessee[m].at = "make" => lessee[m].rendezvous \in 1 .. Len(made')
      BY <3>1 DEF LesseeFits, LesseeStep, LeaseTypes, LeaseInv
    <3>3. ASSUME Leased(m), NEW k \in KeysOf(m)
          PROVE  /\ Present(k)' /\ seedEntry'[k].gen = seedEntry[k].gen
                 /\ seedEntry[k].aliases \subseteq seedEntry'[k].aliases
                 /\ seedEntry[k].store # 0 => seedEntry'[k].store = seedEntry[k].store
      BY <3>1, <3>3, KeysHold DEF LesseeFits, LesseeStep, EntryStep
    <3>4. Leased(m) => LeasesOf(m)' = LeasesOf(m)
      BY <3>3 DEF LeasesOf, LeaseOn, KeysOf
    <3>5. Leased(m) => seedEntry'[InfohashOf(m)].store = lessee[m].store
      BY <3>1, <3>3, KeysHold DEF LesseeFits, Leased
    <3> QED
      BY <3>1, <3>2, <3>3, <3>4, <3>5 DEF LesseeFits
  <2> QED
    BY <2>1, <2>2
<1>2. ASSUME NEW k \in SeedKeys PROVE EntryCounts(k)'
  <2> SUFFICES ASSUME Present(k)' PROVE seedEntry'[k].producers = Cardinality(LeasedOn(k)')
    BY DEF EntryCounts
  <2>1. (IF Present(k) THEN seedEntry[k].producers ELSE 0) = Cardinality(LeasedOn(k))
    BY LeasedHolds DEF LeaseInv, EntryCounts
  <2>2. l \notin LeasedOn(k)
    BY DEF LeasedOn, LesseeStep
  <2>3. CASE r.at = "leased" /\ k \in KeysOf(l)
    <3>1. LeasedOn(k)' = LeasedOn(k) \union {l}
      BY <1>0, <2>3 DEF LeasedOn, Leased
    <3>2. Cardinality(LeasedOn(k) \union {l}) = Cardinality(LeasedOn(k)) + 1
      BY <2>2, LeasedHolds, FS_AddElement
    <3>3. seedEntry'[k].producers = (IF Present(k) THEN seedEntry[k].producers ELSE 0) + 1
      BY <2>3 DEF LesseeStep, EntryStep
    <3> QED
      BY <2>1, <3>1, <3>2, <3>3
  <2>4. CASE ~(r.at = "leased" /\ k \in KeysOf(l))
    <3>1. LeasedOn(k)' = LeasedOn(k)
      BY <1>0, <2>2, <2>4 DEF LeasedOn, Leased
    <3>2. seedEntry'[k].producers = (IF Present(k) THEN seedEntry[k].producers ELSE 0) + 0
      BY <2>4 DEF LesseeStep, EntryStep
    <3> QED
      BY <2>1, <3>1, <3>2, LeasedHolds
  <2> QED
    BY <2>3, <2>4
<1> QED
  BY <1>1, <1>2 DEF LesseeStep, LeaseInv

LEMMA LeaseStart == SeedInit => LeaseInv
<1> SUFFICES ASSUME SeedInit PROVE LeaseInv
  OBVIOUS
<1>1. /\ seedEntry = [k \in SeedKeys |-> NoSeed] /\ creating = [k \in SeedKeys |-> 0] /\ made = <<>>
      /\ lessee = [l \in Lessees |-> Idle] /\ nextGen = 1 /\ nextMade = 1
  BY DEF SeedInit
<1>2. Idle \in LeaseRecords /\ Idle.at = "idle" /\ Idle.keys = <<>>
  BY DEF Idle, LeaseRecords, SeedStages
<1>3. made \in Seq(Nat) /\ Len(made) = 0
  BY <1>1
<1>4. LeaseTypes
  BY <1>1, <1>2, <1>3 DEF LeaseTypes
<1>5. \A l \in Lessees : LesseeFits(l)
  BY <1>1, <1>2 DEF LesseeFits, Leased
<1>6. \A k \in SeedKeys : EntryCounts(k)
  BY <1>1 DEF EntryCounts, Present
<1> QED
  BY <1>4, <1>5, <1>6 DEF LeaseInv

\* An entry that is not touched.
LEMMA EntryRests ==
  ASSUME LeaseTypes, NEW k \in SeedKeys, seedEntry'[k] = seedEntry[k]
  PROVE  EntryStep(k, 0)
<1>1. Present(k) => seedEntry[k].producers \in Nat
  BY EntriesHold DEF SeedEntries
<1> QED
  BY <1>1 DEF EntryStep, Present

\* get_or_create looks the key up.
LEMMA LookUpSteps ==
  ASSUME LeaseInv, NEW l \in Lessees, LookUp(l)
  PROVE  LeaseInv'
<1> DEFINE k == InfohashOf(l)
           r == IF Present(k) /\ seedEntry[k].store # 0
                THEN [Idle EXCEPT !.at = "lease", !.store = seedEntry[k].store]
                ELSE [Idle EXCEPT !.at = "rendezvous"]
<1>0. k \in SeedKeys /\ LeaseTypes
  BY KeysHold DEF LeaseInv
<1>1. /\ lessee[l].at = "idle" /\ UNCHANGED <<creating, made, nextGen, nextMade>>
      /\ seedEntry' = IF Present(k) THEN [seedEntry EXCEPT ![k] = Requires(@, k)] ELSE seedEntry
      /\ lessee' = [lessee EXCEPT ![l] = r]
  BY DEF LookUp
<1>2. /\ r \in LeaseRecords /\ r.keys = <<>> /\ r.at \in {"lease", "rendezvous"} /\ (r.at = "lease" => r.store # 0)
  <2>1. CASE Present(k) /\ seedEntry[k].store # 0
    <3>1. seedEntry[k].store \in Nat
      BY <1>0, <2>1, EntriesHold DEF SeedEntries
    <3>2. r = [at |-> "lease", store |-> seedEntry[k].store, rendezvous |-> 0, keys |-> <<>>]
      BY <2>1 DEF Idle
    <3> HIDE DEF r
    <3> QED
      BY <2>1, <3>1, <3>2 DEF LeaseRecords, SeedStages
  <2>2. CASE ~(Present(k) /\ seedEntry[k].store # 0)
    <3>1. r = [at |-> "rendezvous", store |-> 0, rendezvous |-> 0, keys |-> <<>>]
      BY <2>2 DEF Idle
    <3> HIDE DEF r
    <3> QED
      BY <3>1 DEF LeaseRecords, SeedStages
  <2> QED
    BY <2>1, <2>2
<1> HIDE DEF r, k
<1>3. Present(k) => seedEntry[k] \in SeedEntries /\ Requires(seedEntry[k], k) \in SeedEntries
  BY <1>0, EntriesHold, RequiresHolds
<1>4. seedEntry' \in [SeedKeys -> SeedEntries \union {NoSeed}]
  BY <1>0, <1>1, <1>3 DEF LeaseTypes
<1>5. lessee' \in [Lessees -> LeaseRecords] /\ lessee'[l] = r
  BY <1>0, <1>1, <1>2 DEF LeaseTypes
<1>6. LeaseTypes'
  BY <1>0, <1>1, <1>4, <1>5 DEF LeaseTypes
<1>7. ASSUME NEW j \in SeedKeys PROVE EntryStep(j, 0)
  <2>1. CASE j = k /\ Present(k)
    <3>1. seedEntry'[k] = Requires(seedEntry[k], k)
      BY <1>0, <1>1, <2>1 DEF LeaseTypes
    <3>2. Present(k)'
      BY <1>3, <1>6, <2>1, <3>1, EntriesHold DEF Present, NoSeed, SeedEntries
    <3>3. seedEntry[k].producers \in Nat
      BY <1>3, <2>1 DEF SeedEntries
    <3> QED
      BY <1>0, <1>3, <2>1, <3>1, <3>2, <3>3, RequiresHolds DEF EntryStep
  <2>2. CASE ~(j = k /\ Present(k))
    <3>1. seedEntry'[j] = seedEntry[j]
      BY <1>0, <1>1, <2>2 DEF LeaseTypes
    <3> QED
      BY <1>0, <3>1, EntryRests
  <2> QED
    BY <2>1, <2>2
<1>8. LesseeFits(l)'
  BY <1>2, <1>5 DEF LesseeFits, Leased
<1>9. LesseeStep(l, r)
  BY <1>0, <1>1, <1>2, <1>6, <1>7, <1>8 DEF LesseeStep, Leased, LeaseTypes
<1> QED
  BY <1>9, LesseeKeeps

\* The rendezvous of a key, and the construction of its store.
LEMMA MakingSteps ==
  ASSUME LeaseInv, NEW l \in Lessees, Rendezvous(l) \/ MakeStore(l) \/ FinishCreating(l)
  PROVE  LeaseInv'
<1> DEFINE k == InfohashOf(l)
<1>0. k \in SeedKeys /\ LeaseTypes /\ seedEntry' = seedEntry /\ nextGen' = nextGen /\ lessee[l] \in LeaseRecords
  BY KeysHold DEF LeaseInv, LeaseTypes, Rendezvous, MakeStore, FinishCreating
<1> HIDE DEF k
<1>1. \A j \in SeedKeys : EntryStep(j, 0)
  BY <1>0, EntryRests
<1>2. lessee[l].keys = <<>> /\ ~Leased(l)
  BY DEF Rendezvous, MakeStore, FinishCreating, LeaseInv, LesseeFits, Leased
<1>3. CASE Rendezvous(l)
  <2> DEFINE r == [lessee[l] EXCEPT !.at = "make", !.rendezvous = creating'[k]]
  <2>1. lessee' = [lessee EXCEPT ![l] = r] /\ nextMade' = nextMade
    BY <1>3 DEF Rendezvous, k
  <2>2. /\ made' \in Seq(Nat) /\ Len(made) <= Len(made') /\ Len(made') \in Nat
        /\ creating' \in [SeedKeys -> 0 .. Len(made')] /\ creating'[k] \in 1 .. Len(made')
    <3>1. CASE creating[k] = 0
      <4>1. made' = Append(made, 0) /\ creating' = [creating EXCEPT ![k] = Len(made) + 1]
        BY <1>3, <3>1 DEF Rendezvous, k
      <4>2. made' \in Seq(Nat) /\ Len(made') = Len(made) + 1 /\ Len(made) \in Nat
        BY <1>0, <4>1 DEF LeaseTypes
      <4> QED
        BY <1>0, <4>1, <4>2 DEF LeaseTypes
    <3>2. CASE creating[k] # 0
      <4>1. made' = made /\ creating' = creating
        BY <1>3, <3>2 DEF Rendezvous, k
      <4>2. Len(made) \in Nat
        BY <1>0 DEF LeaseTypes
      <4> QED
        BY <1>0, <3>2, <4>1, <4>2 DEF LeaseTypes
    <3> QED
      BY <3>1, <3>2
  <2>a. creating'[k] \in Nat
    BY <2>2
  <2>3. r \in LeaseRecords /\ r.at = "make" /\ r.rendezvous = creating'[k] /\ r.keys = <<>>
    BY <1>0, <1>2, <2>a DEF LeaseRecords, SeedStages
  <2> HIDE DEF r
  <2>4. lessee' \in [Lessees -> LeaseRecords] /\ lessee'[l] = r
    BY <1>0, <2>1, <2>3 DEF LeaseTypes
  <2>5. LeaseTypes'
    BY <1>0, <2>1, <2>2, <2>4 DEF LeaseTypes
  <2>6. LesseeFits(l)'
    BY <2>2, <2>3, <2>4 DEF LesseeFits, Leased
  <2>7. LesseeStep(l, r)
    BY <1>1, <1>2, <2>1, <2>2, <2>3, <2>5, <2>6 DEF LesseeStep
  <2> QED
    BY <2>7, LesseeKeeps
<1>4. CASE MakeStore(l)
  <2> DEFINE q == lessee[l].rendezvous
             r == [lessee[l] EXCEPT !.at = "publish", !.store = made'[q]]
  <2>0. q \in 1 .. Len(made)
    BY <1>4 DEF MakeStore, LeaseInv, LesseeFits
  <2>1. lessee' = [lessee EXCEPT ![l] = r] /\ creating' = creating
    BY <1>4 DEF MakeStore
  <2> HIDE DEF q
  <2>2. /\ made' \in Seq(Nat) /\ Len(made') = Len(made) /\ Len(made) \in Nat /\ made'[q] \in Nat /\ made'[q] # 0
        /\ nextMade' \in Nat \ {0}
    <3>1. CASE made[q] = 0
      <4>1. made' = [made EXCEPT ![q] = nextMade] /\ nextMade' = nextMade + 1
        BY <1>4, <3>1 DEF MakeStore, q
      <4>2. made \in Seq(Nat) /\ nextMade \in Nat \ {0}
        BY <1>0 DEF LeaseTypes
      <4> QED
        BY <2>0, <4>1, <4>2
    <3>2. CASE made[q] # 0
      <4>1. made' = made /\ nextMade' = nextMade
        BY <1>4, <3>2 DEF MakeStore, q
      <4>2. made \in Seq(Nat) /\ nextMade \in Nat \ {0}
        BY <1>0 DEF LeaseTypes
      <4> QED
        BY <2>0, <3>2, <4>1, <4>2
    <3> QED
      BY <3>1, <3>2
  <2>3. r \in LeaseRecords /\ r.at = "publish" /\ r.store = made'[q] /\ r.keys = <<>>
    BY <1>0, <1>2, <2>2 DEF LeaseRecords, SeedStages
  <2> HIDE DEF r
  <2>4. lessee' \in [Lessees -> LeaseRecords] /\ lessee'[l] = r
    BY <1>0, <2>1, <2>3 DEF LeaseTypes
  <2>5. LeaseTypes'
    BY <1>0, <2>1, <2>2, <2>4 DEF LeaseTypes
  <2>6. LesseeFits(l)'
    BY <2>2, <2>3, <2>4 DEF LesseeFits, Leased
  <2>7. LesseeStep(l, r)
    BY <1>1, <1>2, <2>1, <2>2, <2>3, <2>5, <2>6 DEF LesseeStep
  <2> QED
    BY <2>7, LesseeKeeps
<1>5. CASE FinishCreating(l)
  <2> DEFINE r == [lessee[l] EXCEPT !.at = "lease"]
  <2>1. /\ lessee' = [lessee EXCEPT ![l] = r] /\ creating' = [creating EXCEPT ![k] = 0]
        /\ made' = made /\ nextMade' = nextMade /\ lessee[l].store # 0
    BY <1>5 DEF FinishCreating, k, LeaseInv, LesseeFits
  <2>2. r \in LeaseRecords /\ r.at = "lease" /\ r.store = lessee[l].store /\ r.keys = <<>>
    BY <1>0, <1>2 DEF LeaseRecords, SeedStages
  <2> HIDE DEF r
  <2>3. lessee' \in [Lessees -> LeaseRecords] /\ lessee'[l] = r
    BY <1>0, <2>1, <2>2 DEF LeaseTypes
  <2>4. Len(made) \in Nat
    BY <1>0 DEF LeaseTypes
  <2>5. LeaseTypes'
    BY <1>0, <2>1, <2>3, <2>4 DEF LeaseTypes
  <2>6. LesseeFits(l)'
    BY <2>1, <2>2, <2>3 DEF LesseeFits, Leased
  <2>7. LesseeStep(l, r)
    BY <1>1, <1>2, <2>1, <2>2, <2>4, <2>5, <2>6 DEF LesseeStep
  <2> QED
    BY <2>7, LesseeKeeps
<1> QED
  BY <1>3, <1>4, <1>5

\* The store that is there wins.
LEMMA PublishedHolds ==
  ASSUME NEW e \in SeedEntries, NEW s \in Nat, s # 0
  PROVE  /\ PublishedStore(e, s) \in Nat /\ PublishedStore(e, s) # 0
         /\ e.store # 0 => PublishedStore(e, s) = e.store
BY DEF PublishedStore, SeedEntries

\* An entry that is new, or agreed on again.
LEMMA AgreedHolds ==
  ASSUME LeaseTypes, NEW k \in SeedKeys
  PROVE  /\ Requires(EntryOr(k, k), k) \in SeedEntries
         /\ Present(k) => /\ Requires(EntryOr(k, k), k).gen = seedEntry[k].gen
                          /\ Requires(EntryOr(k, k), k).store = seedEntry[k].store
                          /\ Requires(EntryOr(k, k), k).producers = seedEntry[k].producers
                          /\ Requires(EntryOr(k, k), k).aliases = seedEntry[k].aliases
         /\ ~Present(k) => Requires(EntryOr(k, k), k).producers = 0
<1>1. /\ EntryOr(k, k) \in SeedEntries /\ (Present(k) => EntryOr(k, k) = seedEntry[k])
      /\ ~Present(k) => EntryOr(k, k).producers = 0
  BY EntryOrHolds
<1> DEFINE e == EntryOr(k, k)
<1> HIDE DEF e
<1>2. /\ Requires(e, k) \in SeedEntries /\ Requires(e, k).gen = e.gen /\ Requires(e, k).store = e.store
      /\ Requires(e, k).producers = e.producers /\ Requires(e, k).aliases = e.aliases
  BY <1>1, RequiresHolds DEF e
<1> QED
  BY <1>1, <1>2 DEF e

\* One entry of the registry is written.
LEMMA EntryWrites ==
  ASSUME LeaseTypes, NEW k \in SeedKeys, NEW x \in SeedEntries, seedEntry' = [seedEntry EXCEPT ![k] = x]
  PROVE  /\ seedEntry' \in [SeedKeys -> SeedEntries \union {NoSeed}] /\ seedEntry'[k] = x /\ Present(k)'
         /\ \A j \in SeedKeys \ {k} : seedEntry'[j] = seedEntry[j] /\ EntryStep(j, 0)
<1>1. /\ seedEntry' \in [SeedKeys -> SeedEntries \union {NoSeed}] /\ seedEntry'[k] = x
      /\ \A j \in SeedKeys \ {k} : seedEntry'[j] = seedEntry[j]
  BY DEF LeaseTypes
<1>2. Present(k)'
  BY <1>1 DEF Present, NoSeed, SeedEntries
<1> QED
  BY <1>1, <1>2, EntryRests

\* A constructed store is published.
LEMMA PublishingSteps ==
  ASSUME LeaseInv, NEW l \in Lessees, PublishStore(l)
  PROVE  LeaseInv'
<1> DEFINE k == InfohashOf(l)
           e == Requires(EntryOr(k, k), k)
           s == PublishedStore(e, lessee[l].store)
           x == [e EXCEPT !.store = s]
           r == [lessee[l] EXCEPT !.at = "finish", !.store = s]
<1>0. k \in SeedKeys /\ LeaseTypes /\ lessee[l] \in LeaseRecords
  BY KeysHold DEF LeaseInv, LeaseTypes
<1>1. /\ lessee[l].at = "publish" /\ seedEntry' = [seedEntry EXCEPT ![k] = x]
      /\ nextGen' = IF Present(k) THEN nextGen ELSE nextGen + 1
      /\ lessee' = [lessee EXCEPT ![l] = r] /\ UNCHANGED <<creating, made, nextMade>>
  BY DEF PublishStore
<1>2. lessee[l].store \in Nat /\ lessee[l].store # 0 /\ lessee[l].keys = <<>>
  BY <1>0, <1>1 DEF LeaseInv, LesseeFits, LeaseRecords, Leased
<1> HIDE DEF k
<1>3. /\ e \in SeedEntries /\ (~Present(k) => e.producers = 0)
      /\ Present(k) => /\ e.gen = seedEntry[k].gen /\ e.store = seedEntry[k].store /\ e.aliases = seedEntry[k].aliases
                       /\ e.producers = seedEntry[k].producers
  BY <1>0, AgreedHolds
<1> HIDE DEF e
<1>4. s \in Nat /\ s # 0 /\ (e.store # 0 => s = e.store)
  BY <1>2, <1>3, PublishedHolds
<1> HIDE DEF s
<1>5. x \in SeedEntries /\ x.store = s /\ x.gen = e.gen /\ x.aliases = e.aliases /\ x.producers = e.producers
  BY <1>3, <1>4 DEF SeedEntries
<1>6. r \in LeaseRecords /\ r.at = "finish" /\ r.store = s /\ r.keys = <<>>
  BY <1>0, <1>2, <1>4 DEF LeaseRecords, SeedStages
<1> HIDE DEF x, r
<1>7. /\ seedEntry' \in [SeedKeys -> SeedEntries \union {NoSeed}] /\ seedEntry'[k] = x /\ Present(k)'
      /\ \A j \in SeedKeys \ {k} : EntryStep(j, 0)
  BY <1>0, <1>1, <1>5, EntryWrites
<1>8. e.producers \in Nat
  BY <1>3 DEF SeedEntries
<1>9. EntryStep(k, 0)
  BY <1>3, <1>4, <1>5, <1>7, <1>8 DEF EntryStep
<1>10. lessee' \in [Lessees -> LeaseRecords] /\ lessee'[l] = r
  BY <1>0, <1>1, <1>6 DEF LeaseTypes
<1>11. LeaseTypes' /\ Len(made) <= Len(made')
  BY <1>0, <1>1, <1>7, <1>10 DEF LeaseTypes
<1>12. LesseeFits(l)'
  BY <1>4, <1>6, <1>10 DEF LesseeFits, Leased
<1>13. LesseeStep(l, r)
  BY <1>1, <1>6, <1>7, <1>9, <1>11, <1>12 DEF LesseeStep, Leased
<1> QED
  BY <1>13, LesseeKeeps

\* The record of a lease.
LEMMA LeaseIsRecord ==
  ASSUME NEW s \in Nat, NEW held \in Seq(SeedKeys \X Nat)
  PROVE  LET r == [Idle EXCEPT !.at = "leased", !.store = s, !.keys = held]
         IN  r \in LeaseRecords /\ r.at = "leased" /\ r.store = s /\ r.keys = held
<1> DEFINE r == [Idle EXCEPT !.at = "leased", !.store = s, !.keys = held]
           q == [at |-> "leased", store |-> s, rendezvous |-> 0, keys |-> held]
<1>1. r = q
  <2> DEFINE a == [Idle EXCEPT !.at = "leased"]
             b == [a EXCEPT !.store = s]
  <2>1. a = [at |-> "leased", store |-> 0, rendezvous |-> 0, keys |-> <<>>]
    BY DEF Idle
  <2>2. r = [b EXCEPT !.keys = held]
    OBVIOUS
  <2> HIDE DEF a, r
  <2>3. b = [at |-> "leased", store |-> s, rendezvous |-> 0, keys |-> <<>>]
    BY <2>1
  <2> HIDE DEF b
  <2> QED
    BY <2>2, <2>3
<1>2. q \in LeaseRecords
  BY DEF LeaseRecords, SeedStages
<1>3. q.at = "leased" /\ q.store = s /\ q.keys = held
  OBVIOUS
<1> HIDE DEF q, r
<1>4. r \in LeaseRecords /\ r.at = "leased" /\ r.store = s /\ r.keys = held
  BY <1>1, <1>2, <1>3
<1> QED
  BY <1>4 DEF r

\* lease_store, the second half.
LEMMA StoreLeaseSteps ==
  ASSUME LeaseInv, NEW l \in Lessees, LeaseStore(l)
  PROVE  LeaseInv'
<1> DEFINE k == Leechers[l]
           e == Requires(EntryOr(k, k), k)
           s == PublishedStore(e, lessee[l].store)
           x0 == [e EXCEPT !.store = s]
           x == [x0 EXCEPT !.producers = @ + 1]
           held == <<<<k, e.gen>>>>
           r == [Idle EXCEPT !.at = "leased", !.store = s, !.keys = held]
<1>0. /\ l \in DOMAIN Leechers /\ l \notin DOMAIN Broadcasters /\ k = InfohashOf(l) /\ KeysOf(l) = {k}
      /\ k \in SeedKeys /\ LeaseTypes /\ lessee[l] \in LeaseRecords
  BY KeysHold, SeedAssumption DEF LeaseStore, LeaseInv, LeaseTypes, InfohashOf, KeysOf
<1>1. /\ lessee[l].at = "lease" /\ seedEntry' = [seedEntry EXCEPT ![k] = x]
      /\ nextGen' = IF Present(k) THEN nextGen ELSE nextGen + 1
      /\ lessee' = [lessee EXCEPT ![l] = r] /\ UNCHANGED <<creating, made, nextMade>>
  BY DEF LeaseStore
<1>2. lessee[l].store \in Nat /\ lessee[l].store # 0
  BY <1>0, <1>1 DEF LeaseInv, LesseeFits, LeaseRecords
<1> HIDE DEF k
<1>3. /\ e \in SeedEntries /\ (~Present(k) => e.producers = 0)
      /\ Present(k) => /\ e.gen = seedEntry[k].gen /\ e.store = seedEntry[k].store /\ e.aliases = seedEntry[k].aliases
                       /\ e.producers = seedEntry[k].producers
  BY <1>0, AgreedHolds
<1> HIDE DEF e
<1>4. s \in Nat /\ s # 0 /\ (e.store # 0 => s = e.store)
  BY <1>2, <1>3, PublishedHolds
<1> HIDE DEF s
<1>a. x0 \in SeedEntries /\ x0.store = s /\ x0.gen = e.gen /\ x0.aliases = e.aliases /\ x0.producers = e.producers
  BY <1>3, <1>4 DEF SeedEntries
<1> HIDE DEF x0
<1>5. x \in SeedEntries /\ x.store = s /\ x.gen = e.gen /\ x.aliases = e.aliases /\ x.producers = e.producers + 1
  BY <1>a DEF SeedEntries
<1>6. e.gen \in Nat
  BY <1>3 DEF SeedEntries
<1>7. held \in Seq(SeedKeys \X Nat)
  <2>1. <<k, e.gen>> \in SeedKeys \X Nat
    BY <1>0, <1>6
  <2> QED
    BY <2>1
<1> HIDE DEF held
<1>8. r \in LeaseRecords /\ r.at = "leased" /\ r.store = s /\ r.keys = held
  BY <1>4, <1>7, LeaseIsRecord
<1> HIDE DEF x, r
<1>9. /\ seedEntry' \in [SeedKeys -> SeedEntries \union {NoSeed}] /\ seedEntry'[k] = x /\ Present(k)'
      /\ \A j \in SeedKeys \ {k} : EntryStep(j, 0)
  BY <1>0, <1>1, <1>5, EntryWrites
<1>10. EntryStep(k, 1)
  BY <1>3, <1>4, <1>5, <1>9 DEF EntryStep
<1>11. lessee' \in [Lessees -> LeaseRecords] /\ lessee'[l] = r
  BY <1>0, <1>1, <1>8 DEF LeaseTypes
<1>12. LeaseTypes' /\ Len(made) <= Len(made')
  BY <1>0, <1>1, <1>9, <1>11 DEF LeaseTypes
<1>13. LeasesOf(l)' = held
  BY <1>0, <1>5, <1>9 DEF held, LeasesOf, LeaseOn, k
<1>14. LesseeFits(l)'
  BY <1>0, <1>4, <1>5, <1>8, <1>9, <1>11, <1>13 DEF LesseeFits, Leased
<1>15. LesseeStep(l, r)
  BY <1>0, <1>1, <1>8, <1>9, <1>10, <1>12, <1>14 DEF LesseeStep, Leased
<1> QED
  BY <1>15, LesseeKeeps

\* The record of a broadcast's entry: its keys are aliases, and one more lease counts.
LEMMA AliasHolds ==
  ASSUME NEW e \in SeedEntries, NEW A \in SUBSET SeedKeys
  PROVE  LET x == [e EXCEPT !.aliases = @ \union A]
         IN  /\ x \in SeedEntries /\ x.gen = e.gen /\ x.store = e.store /\ x.producers = e.producers
             /\ x.aliases = e.aliases \union A
BY DEF SeedEntries

LEMMA ProducedHolds ==
  ASSUME NEW e \in SeedEntries, NEW s \in Nat
  PROVE  /\ LET x == [e EXCEPT !.producers = @ + 1, !.kind = "broadcast", !.store = s]
            IN  /\ x \in SeedEntries /\ x.gen = e.gen /\ x.store = s /\ x.producers = e.producers + 1
                /\ x.aliases = e.aliases
         /\ LET x == [e EXCEPT !.producers = @ + 1, !.kind = "broadcast", !.meta = TRUE]
            IN  /\ x \in SeedEntries /\ x.gen = e.gen /\ x.store = e.store /\ x.producers = e.producers + 1
                /\ x.aliases = e.aliases
<1> DEFINE p == [e EXCEPT !.producers = @ + 1]
           b == [p EXCEPT !.kind = "broadcast"]
           x == [b EXCEPT !.store = s]
           y == [b EXCEPT !.meta = TRUE]
<1>0. /\ x = [e EXCEPT !.producers = @ + 1, !.kind = "broadcast", !.store = s]
      /\ y = [e EXCEPT !.producers = @ + 1, !.kind = "broadcast", !.meta = TRUE]
  OBVIOUS
<1>1. /\ p \in SeedEntries /\ p.gen = e.gen /\ p.store = e.store /\ p.producers = e.producers + 1 /\ p.aliases = e.aliases
  BY DEF SeedEntries
<1> HIDE DEF p
<1>2. /\ b \in SeedEntries /\ b.gen = e.gen /\ b.store = e.store /\ b.producers = e.producers + 1 /\ b.aliases = e.aliases
  BY <1>1 DEF SeedEntries
<1> HIDE DEF b
<1>3. /\ x \in SeedEntries /\ x.gen = e.gen /\ x.store = s /\ x.producers = e.producers + 1 /\ x.aliases = e.aliases
  BY <1>2 DEF SeedEntries
<1>4. /\ y \in SeedEntries /\ y.gen = e.gen /\ y.store = e.store /\ y.producers = e.producers + 1 /\ y.aliases = e.aliases
  BY <1>2 DEF SeedEntries
<1> HIDE DEF x, y
<1> QED
  BY <1>0, <1>3, <1>4

LEMMA ClearedHolds ==
  ASSUME NEW x \in SeedEntries
  PROVE  LET y == [x EXCEPT !.canonical = NoKey]
         IN  /\ y \in SeedEntries /\ y.gen = x.gen /\ y.store = x.store /\ y.producers = x.producers
             /\ y.aliases = x.aliases
BY DEF SeedEntries

\* The entry under a broadcast's content id.
LEMMA ContentHolds ==
  ASSUME LeaseTypes, NEW i \in SeedKeys, NEW c \in SeedKeys
  PROVE  LET e == Requires(IF Present(c) THEN seedEntry[c]
                           ELSE [NewEntry(i) EXCEPT !.gen = IF Present(i) THEN nextGen ELSE nextGen + 1], i)
         IN  /\ e \in SeedEntries
             /\ Present(c) => /\ e.gen = seedEntry[c].gen /\ e.store = seedEntry[c].store
                              /\ e.producers = seedEntry[c].producers /\ e.aliases = seedEntry[c].aliases
             /\ ~Present(c) => e.producers = 0
<1> DEFINE n == IF Present(i) THEN nextGen ELSE nextGen + 1
           f == [NewEntry(i) EXCEPT !.gen = n]
           g == IF Present(c) THEN seedEntry[c] ELSE f
<1>1. n \in Nat \ {0}
  BY DEF LeaseTypes
<1> HIDE DEF n
<1>2. f \in SeedEntries /\ f.producers = 0
  <2> DEFINE h == NewEntry(i)
  <2>1. h \in SeedEntries /\ h.producers = 0
    <3>1. nextGen \in Nat \ {0}
      BY DEF LeaseTypes
    <3> QED
      BY <3>1 DEF NewEntry, SeedEntries
  <2>2. f = [h EXCEPT !.gen = n]
    OBVIOUS
  <2> HIDE DEF f, h
  <2> QED
    BY <1>1, <2>1, <2>2 DEF SeedEntries
<1> HIDE DEF f
<1>3. /\ g \in SeedEntries /\ (Present(c) => g = seedEntry[c]) /\ (~Present(c) => g.producers = 0)
  BY <1>2, EntriesHold
<1> HIDE DEF g
<1>4. /\ Requires(g, i) \in SeedEntries /\ Requires(g, i).gen = g.gen /\ Requires(g, i).store = g.store
      /\ Requires(g, i).producers = g.producers /\ Requires(g, i).aliases = g.aliases
  BY <1>3, RequiresHolds
<1>5. /\ Requires(g, i) \in SeedEntries
      /\ Present(c) => /\ Requires(g, i).gen = seedEntry[c].gen /\ Requires(g, i).store = seedEntry[c].store
                       /\ Requires(g, i).producers = seedEntry[c].producers /\ Requires(g, i).aliases = seedEntry[c].aliases
      /\ ~Present(c) => Requires(g, i).producers = 0
  BY <1>3, <1>4
<1> QED
  BY <1>5 DEF g, f, n

\* lease_broadcast, the second half: both keys are leased, or none is served any more.
LEMMA BroadcastLeaseSteps ==
  ASSUME LeaseInv, NEW l \in Lessees, LeaseBroadcast(l)
  PROVE  LeaseInv'
<1> DEFINE i == Broadcasters[l][1]
           c == Broadcasters[l][2]
           ni == Requires(EntryOr(i, i), i)
           nc == Requires(IF Present(c) THEN seedEntry[c]
                          ELSE [NewEntry(i) EXCEPT !.gen = IF Present(i) THEN nextGen ELSE nextGen + 1], i)
           ei == [ni EXCEPT !.aliases = @ \union {i, c}]
           ec == [nc EXCEPT !.aliases = @ \union {i, c}]
           s == PublishedStore(ei, lessee[l].store)
           xi == [ei EXCEPT !.producers = @ + 1, !.kind = "broadcast", !.store = s]
           xc == [ec EXCEPT !.producers = @ + 1, !.kind = "broadcast", !.meta = TRUE]
           both == [seedEntry EXCEPT ![i] = xi, ![c] = xc]
           held == <<<<i, ei.gen>>, <<c, ec.gen>>>>
           r == [Idle EXCEPT !.at = "leased", !.store = s, !.keys = held]
<1>0. /\ l \in DOMAIN Broadcasters /\ l \notin DOMAIN Leechers /\ i = InfohashOf(l) /\ KeysOf(l) = {i, c}
      /\ i # c /\ LeaseTypes /\ lessee[l] \in LeaseRecords
  BY SeedAssumption DEF LeaseBroadcast, LeaseInv, LeaseTypes, InfohashOf, KeysOf
<1>1. i \in SeedKeys /\ c \in SeedKeys
  BY <1>0, KeysHold
<1>2. /\ lessee[l].at = "lease" /\ lessee' = [lessee EXCEPT ![l] = r] /\ UNCHANGED <<creating, made, nextMade>>
      /\ \/ seedEntry' = both
         \/ seedEntry' = [k \in SeedKeys |-> IF both[k] # NoSeed /\ both[k].canonical = i
                                             THEN [both[k] EXCEPT !.canonical = NoKey] ELSE both[k]]
      /\ nextGen' = nextGen + (IF Present(i) THEN 0 ELSE 1) + (IF Present(c) THEN 0 ELSE 1)
  BY DEF LeaseBroadcast
<1>3. lessee[l].store \in Nat /\ lessee[l].store # 0
  BY <1>0, <1>2 DEF LeaseInv, LesseeFits, LeaseRecords
<1> HIDE DEF i, c
<1>4. /\ ni \in SeedEntries /\ (~Present(i) => ni.producers = 0)
      /\ Present(i) => /\ ni.gen = seedEntry[i].gen /\ ni.store = seedEntry[i].store /\ ni.aliases = seedEntry[i].aliases
                       /\ ni.producers = seedEntry[i].producers
  BY <1>0, <1>1, AgreedHolds
<1>5. /\ nc \in SeedEntries /\ (~Present(c) => nc.producers = 0)
      /\ Present(c) => /\ nc.gen = seedEntry[c].gen /\ nc.store = seedEntry[c].store /\ nc.aliases = seedEntry[c].aliases
                       /\ nc.producers = seedEntry[c].producers
  BY <1>0, <1>1, ContentHolds
<1> HIDE DEF ni, nc
<1>6. /\ ei \in SeedEntries /\ ei.gen = ni.gen /\ ei.store = ni.store /\ ei.producers = ni.producers
      /\ ei.aliases = ni.aliases \union {i, c}
  <2> DEFINE A == {i, c}
  <2>1. A \in SUBSET SeedKeys
    BY <1>1
  <2> HIDE DEF A
  <2>2. /\ [ni EXCEPT !.aliases = @ \union A] \in SeedEntries
        /\ [ni EXCEPT !.aliases = @ \union A].gen = ni.gen /\ [ni EXCEPT !.aliases = @ \union A].store = ni.store
        /\ [ni EXCEPT !.aliases = @ \union A].producers = ni.producers
        /\ [ni EXCEPT !.aliases = @ \union A].aliases = ni.aliases \union A
    BY <1>4, <2>1, AliasHolds
  <2> QED
    BY <2>2 DEF A
<1>7. /\ ec \in SeedEntries /\ ec.gen = nc.gen /\ ec.store = nc.store /\ ec.producers = nc.producers
      /\ ec.aliases = nc.aliases \union {i, c}
  <2> DEFINE A == {i, c}
  <2>1. A \in SUBSET SeedKeys
    BY <1>1
  <2> HIDE DEF A
  <2>2. /\ [nc EXCEPT !.aliases = @ \union A] \in SeedEntries
        /\ [nc EXCEPT !.aliases = @ \union A].gen = nc.gen /\ [nc EXCEPT !.aliases = @ \union A].store = nc.store
        /\ [nc EXCEPT !.aliases = @ \union A].producers = nc.producers
        /\ [nc EXCEPT !.aliases = @ \union A].aliases = nc.aliases \union A
    BY <1>5, <2>1, AliasHolds
  <2> QED
    BY <2>2 DEF A
<1> HIDE DEF ei, ec
<1>8. s \in Nat /\ s # 0 /\ (ei.store # 0 => s = ei.store)
  BY <1>3, <1>6, PublishedHolds
<1> HIDE DEF s
<1>9. xi \in SeedEntries /\ xi.gen = ei.gen /\ xi.store = s /\ xi.producers = ei.producers + 1 /\ xi.aliases = ei.aliases
  BY <1>6, <1>8, ProducedHolds
<1>10. /\ xc \in SeedEntries /\ xc.gen = ec.gen /\ xc.store = ec.store /\ xc.producers = ec.producers + 1
       /\ xc.aliases = ec.aliases
  BY <1>7, <1>8, ProducedHolds
<1> HIDE DEF xi, xc
<1>11. /\ both \in [SeedKeys -> SeedEntries \union {NoSeed}] /\ both[i] = xi /\ both[c] = xc
       /\ \A k \in SeedKeys \ {i, c} : both[k] = seedEntry[k]
  BY <1>0, <1>1, <1>9, <1>10 DEF LeaseTypes
<1> HIDE DEF both
<1>12. NoSeed \notin SeedEntries
  BY DEF NoSeed, SeedEntries
<1>13. ASSUME NEW k \in SeedKeys
       PROVE  /\ both[k] = NoSeed => seedEntry'[k] = NoSeed
              /\ both[k] # NoSeed => /\ seedEntry'[k] \in SeedEntries /\ seedEntry'[k].gen = both[k].gen
                                     /\ seedEntry'[k].store = both[k].store /\ seedEntry'[k].aliases = both[k].aliases
                                     /\ seedEntry'[k].producers = both[k].producers
  <2>1. both[k] \in SeedEntries \/ both[k] = NoSeed
    BY <1>11
  <2>2. CASE seedEntry'[k] = both[k]
    BY <2>1, <2>2
  <2>3. CASE both[k] # NoSeed /\ seedEntry'[k] = [both[k] EXCEPT !.canonical = NoKey]
    BY <2>1, <2>3, ClearedHolds
  <2> QED
    BY <1>2, <2>2, <2>3
<1>14. seedEntry' \in [SeedKeys -> SeedEntries \union {NoSeed}]
  <2>1. \A k \in SeedKeys : seedEntry'[k] \in SeedEntries \union {NoSeed}
    BY <1>13
  <2>2. seedEntry' = [k \in SeedKeys |-> seedEntry'[k]]
    BY <1>2, <1>11
  <2> QED
    BY <2>1, <2>2
<1>15. EntryStep(i, 1) /\ Present(i)' /\ {i, c} \subseteq seedEntry'[i].aliases /\ seedEntry'[i].store = s
       /\ seedEntry'[i].gen = ei.gen
  <2>1. /\ seedEntry'[i] \in SeedEntries /\ seedEntry'[i].gen = xi.gen /\ seedEntry'[i].store = xi.store
        /\ seedEntry'[i].aliases = xi.aliases /\ seedEntry'[i].producers = xi.producers
    BY <1>1, <1>9, <1>11, <1>12, <1>13
  <2>2. Present(i)'
    BY <1>12, <2>1 DEF Present
  <2> QED
    BY <1>4, <1>6, <1>8, <1>9, <2>1, <2>2 DEF EntryStep
<1>16. EntryStep(c, 1) /\ Present(c)' /\ {i, c} \subseteq seedEntry'[c].aliases /\ seedEntry'[c].gen = ec.gen
  <2>1. /\ seedEntry'[c] \in SeedEntries /\ seedEntry'[c].gen = xc.gen /\ seedEntry'[c].store = xc.store
        /\ seedEntry'[c].aliases = xc.aliases /\ seedEntry'[c].producers = xc.producers
    BY <1>1, <1>10, <1>11, <1>12, <1>13
  <2>2. Present(c)'
    BY <1>12, <2>1 DEF Present
  <2> QED
    BY <1>5, <1>7, <1>10, <2>1, <2>2 DEF EntryStep
<1>17. ASSUME NEW k \in SeedKeys, k \notin {i, c} PROVE EntryStep(k, 0)
  <2>1. both[k] = seedEntry[k]
    BY <1>11, <1>17
  <2>2. Present(k) => seedEntry[k].producers \in Nat
    BY <1>0, EntriesHold DEF SeedEntries
  <2>3. CASE Present(k)
    <3>1. /\ seedEntry'[k] \in SeedEntries /\ seedEntry'[k].gen = seedEntry[k].gen
          /\ seedEntry'[k].store = seedEntry[k].store /\ seedEntry'[k].aliases = seedEntry[k].aliases
          /\ seedEntry'[k].producers = seedEntry[k].producers
      BY <1>13, <2>1, <2>3 DEF Present
    <3>2. Present(k)'
      BY <1>12, <3>1 DEF Present
    <3> QED
      BY <2>2, <2>3, <3>1, <3>2 DEF EntryStep
  <2>4. CASE ~Present(k)
    <3>1. seedEntry'[k] = NoSeed
      BY <1>13, <2>1, <2>4 DEF Present
    <3> QED
      BY <2>4, <3>1 DEF EntryStep, Present
  <2> QED
    BY <2>3, <2>4
<1>18. ei.gen \in Nat /\ ec.gen \in Nat
  BY <1>6, <1>7 DEF SeedEntries
<1>19. held \in Seq(SeedKeys \X Nat)
  <2>1. <<i, ei.gen>> \in SeedKeys \X Nat /\ <<c, ec.gen>> \in SeedKeys \X Nat
    BY <1>1, <1>18
  <2> QED
    BY <2>1
<1>20. LeasesOf(l)' = held
  BY <1>0, <1>15, <1>16 DEF LeasesOf, LeaseOn, i, c
<1> HIDE DEF held
<1>21. r \in LeaseRecords /\ r.at = "leased" /\ r.store = s /\ r.keys = held
  BY <1>8, <1>19, LeaseIsRecord
<1> HIDE DEF r
<1>22. lessee' \in [Lessees -> LeaseRecords] /\ lessee'[l] = r
  BY <1>0, <1>2, <1>21 DEF LeaseTypes
<1>23. LeaseTypes' /\ Len(made) <= Len(made')
  BY <1>0, <1>2, <1>14, <1>22 DEF LeaseTypes
<1>24. LesseeFits(l)'
  BY <1>0, <1>8, <1>15, <1>16, <1>20, <1>21, <1>22 DEF LesseeFits, Leased
<1>25. LesseeStep(l, r)
  BY <1>0, <1>2, <1>15, <1>16, <1>17, <1>21, <1>23, <1>24 DEF LesseeStep, Leased
<1> QED
  BY <1>25, LesseeKeeps

\* A lease names the entries it was issued against, which are still registered.
LEMMA OwnsHolds ==
  ASSUME LeaseInv, NEW l \in Lessees, Leased(l), NEW k \in SeedKeys
  PROVE  (\E i \in DOMAIN lessee[l].keys : lessee[l].keys[i] = LeaseOn(k)) <=> k \in KeysOf(l)
<1>0. lessee[l].keys = LeasesOf(l)
  BY DEF LeaseInv, LesseeFits
<1>1. CASE l \in DOMAIN Leechers
  <2>1. LeasesOf(l) = <<LeaseOn(Leechers[l])>> /\ KeysOf(l) = {Leechers[l]}
    BY <1>1 DEF LeasesOf, KeysOf
  <2> QED
    BY <1>0, <2>1 DEF LeaseOn
<1>2. CASE l \notin DOMAIN Leechers
  <2>1. /\ LeasesOf(l) = <<LeaseOn(Broadcasters[l][1]), LeaseOn(Broadcasters[l][2])>>
        /\ KeysOf(l) = {Broadcasters[l][1], Broadcasters[l][2]}
    BY <1>2 DEF LeasesOf, KeysOf
  <2> QED
    BY <1>0, <2>1 DEF LeaseOn
<1> QED
  BY <1>1, <1>2

\* Two leases on an entry are two that it counts.
LEMMA SharedHolds ==
  ASSUME LeaseInv, NEW k \in SeedKeys, NEW l \in LeasedOn(k)
  PROVE  /\ Present(k) /\ seedEntry[k].producers \in Nat /\ seedEntry[k].producers = Cardinality(LeasedOn(k))
         /\ seedEntry[k].producers >= 1
         /\ Cardinality(LeasedOn(k) \ {l}) = seedEntry[k].producers - 1
         /\ \A m \in LeasedOn(k) : m # l => seedEntry[k].producers > 1
<1>1. Present(k) /\ IsFiniteSet(LeasedOn(k))
  BY LeasedHolds
<1>2. seedEntry[k].producers = Cardinality(LeasedOn(k)) /\ seedEntry[k].producers \in Nat
  BY <1>1, LeasedHolds DEF LeaseInv, EntryCounts
<1>3. /\ IsFiniteSet(LeasedOn(k) \ {l}) /\ Cardinality(LeasedOn(k) \ {l}) = Cardinality(LeasedOn(k)) - 1
  BY <1>1, FS_RemoveElement
<1>4. Cardinality(LeasedOn(k) \ {l}) \in Nat
  BY <1>3, FS_CardinalityType
<1>5. ASSUME NEW m \in LeasedOn(k), m # l PROVE Cardinality(LeasedOn(k) \ {l}) # 0
  BY <1>3, <1>5, FS_EmptySet
<1> QED
  BY <1>1, <1>2, <1>3, <1>4, <1>5

\* SeedLease::drop takes its own count back, and the entry with the last one.
LEMMA DroppingSteps ==
  ASSUME LeaseInv, NEW l \in Lessees, DropLease(l)
  PROVE  LeaseInv'
<1>0. LeaseTypes /\ Leased(l)
  BY DEF LeaseInv, DropLease, Leased
<1>1. /\ lessee' = [lessee EXCEPT ![l] = Idle] /\ UNCHANGED <<creating, made, nextGen, nextMade>>
      /\ seedEntry' = [k \in SeedKeys |->
            IF ~Present(k) \/ ~(\E i \in DOMAIN lessee[l].keys : lessee[l].keys[i] = LeaseOn(k)) THEN seedEntry[k]
            ELSE IF seedEntry[k].producers <= 1 THEN NoSeed
            ELSE [seedEntry[k] EXCEPT !.producers = @ - 1]]
  BY DEF DropLease, LeaseOn
<1>2. ASSUME NEW k \in SeedKeys, k \notin KeysOf(l) PROVE seedEntry'[k] = seedEntry[k]
  BY <1>0, <1>1, <1>2, OwnsHolds
<1>3. ASSUME NEW k \in SeedKeys, k \in KeysOf(l)
      PROVE  /\ Present(k) /\ l \in LeasedOn(k)
             /\ seedEntry'[k] = IF seedEntry[k].producers <= 1 THEN NoSeed
                                ELSE [seedEntry[k] EXCEPT !.producers = @ - 1]
  BY <1>0, <1>1, <1>3, OwnsHolds DEF LeaseInv, LesseeFits, LeasedOn
<1>4. ASSUME NEW k \in SeedKeys, k \in KeysOf(l), ~(seedEntry[k].producers <= 1)
      PROVE  /\ seedEntry'[k] \in SeedEntries /\ seedEntry'[k].gen = seedEntry[k].gen
             /\ seedEntry'[k].aliases = seedEntry[k].aliases /\ seedEntry'[k].store = seedEntry[k].store
             /\ seedEntry'[k].producers = seedEntry[k].producers - 1
  <2>1. seedEntry[k] \in SeedEntries /\ seedEntry'[k] = [seedEntry[k] EXCEPT !.producers = @ - 1]
    BY <1>0, <1>3, <1>4, EntriesHold
  <2>2. seedEntry[k].producers - 1 \in Nat
    BY <1>4, <2>1 DEF SeedEntries
  <2> QED
    BY <2>1, <2>2 DEF SeedEntries
<1>5. seedEntry' \in [SeedKeys -> SeedEntries \union {NoSeed}]
  <2>1. ASSUME NEW k \in SeedKeys PROVE seedEntry'[k] \in SeedEntries \union {NoSeed}
    <3>1. CASE k \notin KeysOf(l)
      BY <1>0, <1>2, <3>1 DEF LeaseTypes
    <3>2. CASE k \in KeysOf(l)
      BY <1>3, <1>4, <3>2
    <3> QED
      BY <3>1, <3>2
  <2>2. seedEntry' = [k \in SeedKeys |-> seedEntry'[k]]
    BY <1>1
  <2> QED
    BY <2>1, <2>2
<1>6. Idle \in LeaseRecords /\ Idle.at = "idle" /\ Idle.keys = <<>>
  BY DEF Idle, LeaseRecords, SeedStages
<1>7. /\ lessee' \in [Lessees -> LeaseRecords] /\ lessee'[l] = Idle
      /\ \A m \in Lessees \ {l} : lessee'[m] = lessee[m]
  BY <1>0, <1>1, <1>6 DEF LeaseTypes
<1>8. LeaseTypes'
  BY <1>0, <1>1, <1>5, <1>7 DEF LeaseTypes
<1>9. ASSUME NEW m \in Lessees PROVE LesseeFits(m)'
  <2>1. CASE m = l
    BY <1>6, <1>7, <2>1 DEF LesseeFits, Leased
  <2>2. CASE m # l
    <3>1. lessee'[m] = lessee[m] /\ LesseeFits(m) /\ (Leased(m)' <=> Leased(m)) /\ made' = made
      BY <1>1, <1>7, <2>2 DEF LeaseInv, Leased
    <3>2. ASSUME Leased(m), NEW k \in KeysOf(m)
          PROVE  /\ Present(k)' /\ seedEntry'[k].gen = seedEntry[k].gen
                 /\ seedEntry'[k].aliases = seedEntry[k].aliases /\ seedEntry'[k].store = seedEntry[k].store
      <4>1. k \in SeedKeys /\ Present(k) /\ m \in LeasedOn(k)
        BY <3>1, <3>2, KeysHold DEF LesseeFits, LeasedOn
      <4>2. CASE k \notin KeysOf(l)
        BY <1>2, <4>1, <4>2 DEF Present
      <4>3. CASE k \in KeysOf(l)
        <5>1. seedEntry[k].producers > 1 /\ seedEntry[k].producers \in Nat
          BY <1>3, <2>2, <4>1, <4>3, SharedHolds
        <5>2. ~(seedEntry[k].producers <= 1)
          BY <5>1
        <5>3. Present(k)'
          BY <1>4, <1>8, <4>1, <4>3, <5>2 DEF Present, NoSeed, SeedEntries
        <5> QED
          BY <1>4, <4>1, <4>3, <5>2, <5>3
      <4> QED
        BY <4>2, <4>3
    <3>3. Leased(m) => LeasesOf(m)' = LeasesOf(m)
      BY <3>2 DEF LeasesOf, LeaseOn, KeysOf
    <3>4. Leased(m) => seedEntry'[InfohashOf(m)].store = lessee[m].store
      BY <3>1, <3>2, KeysHold DEF LesseeFits
    <3> QED
      BY <3>1, <3>2, <3>3, <3>4 DEF LesseeFits
  <2> QED
    BY <2>1, <2>2
<1>10. ASSUME NEW k \in SeedKeys PROVE EntryCounts(k)'
  <2>0. LeasedOn(k)' = LeasedOn(k) \ {l}
    BY <1>6, <1>7 DEF LeasedOn, Leased
  <2>1. CASE k \notin KeysOf(l)
    <3>1. LeasedOn(k)' = LeasedOn(k)
      BY <2>0, <2>1 DEF LeasedOn
    <3> QED
      BY <1>2, <2>1, <3>1 DEF LeaseInv, EntryCounts, Present
  <2>2. CASE k \in KeysOf(l)
    <3>1. CASE seedEntry[k].producers <= 1
      BY <1>3, <2>2, <3>1 DEF EntryCounts, Present
    <3>2. CASE ~(seedEntry[k].producers <= 1)
      <4>1. seedEntry'[k].producers = seedEntry[k].producers - 1
        BY <1>4, <2>2, <3>2
      <4>2. Cardinality(LeasedOn(k) \ {l}) = seedEntry[k].producers - 1
        BY <1>3, <2>2, SharedHolds
      <4> QED
        BY <2>0, <4>1, <4>2 DEF EntryCounts
    <3> QED
      BY <3>1, <3>2
  <2> QED
    BY <2>1, <2>2
<1> QED
  BY <1>8, <1>9, <1>10 DEF LeaseInv

\* reap takes only entries that nobody leases.
LEMMA ReapingSteps ==
  ASSUME LeaseInv, NEW k \in SeedKeys, Reap(k)
  PROVE  LeaseInv'
<1>0. /\ LeaseTypes /\ Present(k) /\ seedEntry[k].producers = 0 /\ seedEntry' = [seedEntry EXCEPT ![k] = NoSeed]
      /\ UNCHANGED <<creating, made, lessee, nextGen, nextMade>>
  BY DEF LeaseInv, Reap
<1>1. /\ seedEntry' \in [SeedKeys -> SeedEntries \union {NoSeed}] /\ seedEntry'[k] = NoSeed
      /\ \A j \in SeedKeys \ {k} : seedEntry'[j] = seedEntry[j]
  BY <1>0 DEF LeaseTypes
<1>2. LeasedOn(k) = {}
  <2> SUFFICES ASSUME NEW l \in LeasedOn(k) PROVE FALSE
    OBVIOUS
  <2>1. seedEntry[k].producers >= 1
    BY SharedHolds
  <2> QED
    BY <1>0, <2>1
<1>3. LeaseTypes'
  BY <1>0, <1>1 DEF LeaseTypes
<1>4. ASSUME NEW l \in Lessees PROVE LesseeFits(l)'
  <2>1. LesseeFits(l) /\ (Leased(l)' <=> Leased(l)) /\ lessee' = lessee /\ made' = made
    BY <1>0 DEF LeaseInv, Leased
  <2>2. ASSUME Leased(l), NEW j \in KeysOf(l) PROVE seedEntry'[j] = seedEntry[j]
    BY <1>1, <1>2, <2>2, KeysHold DEF LeasedOn
  <2>3. Leased(l) => LeasesOf(l)' = LeasesOf(l)
    BY <2>2 DEF LeasesOf, LeaseOn, KeysOf
  <2>4. Leased(l) => seedEntry'[InfohashOf(l)] = seedEntry[InfohashOf(l)]
    BY <2>2, KeysHold
  <2> QED
    BY <2>1, <2>2, <2>3, <2>4 DEF LesseeFits, Present
<1>5. ASSUME NEW j \in SeedKeys PROVE EntryCounts(j)'
  <2>1. LeasedOn(j)' = LeasedOn(j)
    BY <1>0 DEF LeasedOn, Leased
  <2>2. CASE j = k
    BY <1>1, <2>2 DEF EntryCounts, Present
  <2>3. CASE j # k
    BY <1>1, <2>1, <2>3 DEF LeaseInv, EntryCounts, Present
  <2> QED
    BY <2>2, <2>3
<1> QED
  BY <1>3, <1>4, <1>5 DEF LeaseInv

\* Inbound connections leave the registry alone.
LEMMA LeasesRest ==
  ASSUME LeaseInv, UNCHANGED <<seedEntry, creating, made, lessee, nextGen, nextMade>>
  PROVE  LeaseInv'
<1>1. LeaseTypes'
  BY DEF LeaseInv, LeaseTypes
<1>2. \A l \in Lessees : LesseeFits(l)'
  BY DEF LeaseInv, LesseeFits, Leased, LeasesOf, LeaseOn, Present
<1>3. \A k \in SeedKeys : EntryCounts(k)'
  <2>1. \A k \in SeedKeys : LeasedOn(k)' = LeasedOn(k)
    BY DEF LeasedOn, Leased
  <2> QED
    BY <2>1 DEF LeaseInv, EntryCounts, Present
<1> QED
  BY <1>1, <1>2, <1>3 DEF LeaseInv

\* The inductive invariant of the registry holds in every state (listen.rs: lease_store,
\* lease_broadcast, get_or_create, SeedLease::drop and reap).
THEOREM SeedLeaseInvariant == SeedSpec => []LeaseInv
<1>1. ASSUME LeaseInv, [SeedNext]_seedVars PROVE LeaseInv'
  <2>1. CASE UNCHANGED seedVars
    BY <1>1, <2>1, LeasesRest DEF seedVars
  <2>2. ASSUME NEW l \in Lessees, LookUp(l) PROVE LeaseInv'
    BY <1>1, <2>2, LookUpSteps
  <2>3. ASSUME NEW l \in Lessees, Rendezvous(l) \/ MakeStore(l) \/ FinishCreating(l) PROVE LeaseInv'
    BY <1>1, <2>3, MakingSteps
  <2>4. ASSUME NEW l \in Lessees, PublishStore(l) PROVE LeaseInv'
    BY <1>1, <2>4, PublishingSteps
  <2>5. ASSUME NEW l \in Lessees, LeaseStore(l) PROVE LeaseInv'
    BY <1>1, <2>5, StoreLeaseSteps
  <2>6. ASSUME NEW l \in Lessees, LeaseBroadcast(l) PROVE LeaseInv'
    BY <1>1, <2>6, BroadcastLeaseSteps
  <2>7. ASSUME NEW l \in Lessees, DropLease(l) PROVE LeaseInv'
    BY <1>1, <2>7, DroppingSteps
  <2>8. ASSUME NEW k \in SeedKeys, Reap(k) PROVE LeaseInv'
    BY <1>1, <2>8, ReapingSteps
  <2>9. ASSUME NEW c \in Inbound, Accept(c) \/ ConnectionEnds(c) \/ \E k \in SeedKeys : AdmitInbound(c, k)
        PROVE  LeaseInv'
    BY <1>1, <2>9, LeasesRest DEF Accept, ConnectionEnds, AdmitInbound
  <2> QED
    BY <1>1, <2>1, <2>2, <2>3, <2>4, <2>5, <2>6, <2>7, <2>8, <2>9 DEF SeedNext
<1> QED
  BY <1>1, LeaseStart, PTL DEF SeedSpec

\* A lease's keys are exactly the keys of its lessee.
LEMMA LeasesShare ==
  ASSUME LeaseInv
  PROVE  LeasesShareOneStore
<1>1. ASSUME NEW l \in Lessees, NEW i \in DOMAIN lessee[l].keys
      PROVE  /\ Leased(l) /\ lessee[l].keys[i][1] \in KeysOf(l)
             /\ lessee[l].keys[i][2] = seedEntry[lessee[l].keys[i][1]].gen
  <2>1. Leased(l) /\ lessee[l].keys = LeasesOf(l)
    BY <1>1 DEF LeaseInv, LesseeFits
  <2>2. CASE l \in DOMAIN Leechers
    BY <1>1, <2>1, <2>2 DEF LeasesOf, LeaseOn, KeysOf
  <2>3. CASE l \notin DOMAIN Leechers
    BY <1>1, <2>1, <2>3 DEF LeasesOf, LeaseOn, KeysOf
  <2> QED
    BY <2>1, <2>2, <2>3
<1>2. ASSUME NEW l \in Lessees, Leased(l), NEW k \in KeysOf(l)
      PROVE  \E i \in DOMAIN lessee[l].keys : lessee[l].keys[i][1] = k
  <2>1. lessee[l].keys = LeasesOf(l)
    BY <1>2 DEF LeaseInv, LesseeFits
  <2>2. CASE l \in DOMAIN Leechers
    BY <1>2, <2>1, <2>2 DEF LeasesOf, LeaseOn, KeysOf
  <2>3. CASE l \notin DOMAIN Leechers
    <3>1. lessee[l].keys = <<LeaseOn(Broadcasters[l][1]), LeaseOn(Broadcasters[l][2])>>
      BY <2>1, <2>3 DEF LeasesOf
    <3>2. k = Broadcasters[l][1] \/ k = Broadcasters[l][2]
      BY <1>2, <2>3 DEF KeysOf
    <3>3. 1 \in DOMAIN lessee[l].keys /\ 2 \in DOMAIN lessee[l].keys
      BY <3>1
    <3>4. lessee[l].keys[1][1] = Broadcasters[l][1] /\ lessee[l].keys[2][1] = Broadcasters[l][2]
      BY <3>1 DEF LeaseOn
    <3> QED
      BY <3>2, <3>3, <3>4
  <2> QED
    BY <2>2, <2>3
<1>3. ASSUME NEW k \in SeedKeys PROVE LeaseHolders(k) = LeasedOn(k)
  BY <1>1, <1>2 DEF LeaseHolders, LeasedOn
<1>4. ASSUME NEW l \in Lessees, Leased(l), NEW k \in KeysOf(l)
      PROVE  Present(k) /\ (k = InfohashOf(l) => seedEntry[k].store = lessee[l].store)
  BY <1>4 DEF LeaseInv, LesseeFits
<1> QED
  BY <1>1, <1>3, <1>4 DEF LeasesShareOneStore, LeaseInv, EntryCounts

-----------------------------------------------------------------------------
(* The inbound connections of what is seeded.                              *)

\* The keys of a stream are keys of the registry, with the aliases of each.
LEMMA GroupHolds ==
  ASSUME NEW ent \in [SeedKeys -> SeedEntries \union {NoSeed}], NEW q \in SeedKeys
  PROVE  /\ AliasesIn(ent, q) \subseteq SeedKeys
         /\ \A k \in SeedKeys : ent[k] # NoSeed /\ ent[k].canonical = q /\ AliasesIn(ent, q) # {}
               => k \in AliasesIn(ent, q) /\ ent[k].aliases \subseteq AliasesIn(ent, q)
<1> DEFINE group == {q} \cup UNION {{k} \cup ent[k].aliases :
                       k \in {k \in SeedKeys : ent[k] # NoSeed /\ ent[k].canonical = q}}
<1>1. AliasesIn(ent, q) \in {{}, group}
  BY DEF AliasesIn
<1>2. ASSUME NEW k \in SeedKeys, ent[k] # NoSeed PROVE ent[k].aliases \subseteq SeedKeys
  BY <1>2 DEF SeedEntries
<1>3. group \subseteq SeedKeys
  BY <1>2
<1>4. \A k \in SeedKeys : ent[k] # NoSeed /\ ent[k].canonical = q => k \in group /\ ent[k].aliases \subseteq group
  OBVIOUS
<1> HIDE DEF group
<1> QED
  BY <1>1, <1>3, <1>4

\* Binding keys nobody is served under another stream by leaves every binding as it is relied on.
LEMMA BindingHolds ==
  ASSUME ConnInv, NEW q \in SeedKeys, NEW group \in SUBSET SeedKeys, ~Conflicting(group, q),
         bindings' = [k \in SeedKeys |-> IF k \in group THEN q ELSE bindings[k]]
  PROVE  /\ bindings' \in [SeedKeys -> SeedKeys \union {NoKey}] /\ \A k \in group : bindings'[k] = q
         /\ \A c \in Inbound : conn[c].at = "serving" => bindings'[conn[c].key] = conn[c].canonical
<1>1. NoKey \notin SeedKeys
  BY SeedAssumption DEF NoKey
<1>2. bindings' \in [SeedKeys -> SeedKeys \union {NoKey}] /\ \A k \in group : bindings'[k] = q
  BY DEF ConnInv, ConnTypes
<1>3. ASSUME NEW c \in Inbound, conn[c].at = "serving" PROVE bindings'[conn[c].key] = conn[c].canonical
  <2>1. /\ conn[c].key \in SeedKeys /\ conn[c].canonical \in SeedKeys
        /\ bindings[conn[c].key] = conn[c].canonical
    BY <1>3 DEF ConnInv, ConnFits
  <2>2. CASE conn[c].key \in group
    <3>1. bindings[conn[c].key] \in {NoKey, q}
      BY <2>2 DEF Conflicting
    <3> QED
      BY <1>1, <1>2, <2>1, <2>2, <3>1
  <2>3. CASE conn[c].key \notin group
    BY <2>1, <2>3
  <2> QED
    BY <2>2, <2>3
<1> QED
  BY <1>2, <1>3

LEMMA CountedHolds ==
  ASSUME NEW k
  PROVE  IsFiniteSet(CountedFor(k)) /\ Cardinality(CountedFor(k)) \in Nat
BY SeedAssumption, FS_Subset, FS_CardinalityType DEF CountedFor

\* Connections and their counts as they are, under bindings they can rely on.
LEMMA ConnectionsRest ==
  ASSUME ConnInv, UNCHANGED <<conn, counts>>, bindings' \in [SeedKeys -> SeedKeys \union {NoKey}],
         \A c \in Inbound : conn[c].at = "serving" => bindings'[conn[c].key] = conn[c].canonical
  PROVE  ConnInv'
<1>1. ConnTypes'
  BY DEF ConnInv, ConnTypes
<1>2. \A c \in Inbound : ConnFits(c)'
  BY DEF ConnInv, ConnFits
<1>3. \A k \in SeedKeys : CountedFor(k)' = CountedFor(k)
  BY DEF CountedFor
<1> QED
  BY <1>1, <1>2, <1>3 DEF ConnInv

LEMMA ConnectionsStay ==
  ASSUME ConnInv, UNCHANGED <<conn, counts, bindings>>
  PROVE  ConnInv'
<1>1. bindings' \in [SeedKeys -> SeedKeys \union {NoKey}]
  BY DEF ConnInv, ConnTypes
<1>2. \A c \in Inbound : conn[c].at = "serving" => bindings'[conn[c].key] = conn[c].canonical
  BY DEF ConnInv, ConnFits
<1> QED
  BY <1>1, <1>2, ConnectionsRest

LEMMA ConnStart == SeedInit => ConnInv
<1> SUFFICES ASSUME SeedInit PROVE ConnInv
  OBVIOUS
<1>0. NoKey \notin SeedKeys
  BY SeedAssumption DEF NoKey
<1>1. /\ conn = [c \in Inbound |-> [at |-> "none", key |-> NoKey, canonical |-> NoKey]]
      /\ counts = [k \in SeedKeys |-> 0] /\ bindings = [k \in SeedKeys |-> NoKey]
  BY DEF SeedInit
<1>2. ConnTypes
  BY <1>1 DEF ConnTypes
<1>3. \A c \in Inbound : ConnFits(c)
  BY <1>1 DEF ConnFits
<1>4. \A k \in SeedKeys : CountedFor(k) = {}
  BY <1>0, <1>1 DEF CountedFor
<1> QED
  BY <1>1, <1>2, <1>3, <1>4, FS_EmptySet DEF ConnInv

\* retain_live_aliases binds the new aliases of a stream that is being served.
LEMMA BroadcastBinds ==
  ASSUME LeaseInv, LeaseInv', ConnInv, NEW l \in Lessees, LeaseBroadcast(l)
  PROVE  ConnInv'
<1> DEFINE i == Broadcasters[l][1]
<1>0. i \in SeedKeys
  <2>1. l \in DOMAIN Broadcasters /\ l \notin DOMAIN Leechers
    BY SeedAssumption DEF LeaseBroadcast
  <2> QED
    BY <2>1, KeysHold DEF InfohashOf, KeysOf
<1>1. UNCHANGED <<conn, counts>>
  BY DEF LeaseBroadcast
<1>2. CASE UNCHANGED bindings
  BY <1>1, <1>2, ConnectionsStay
<1>3. CASE ~UNCHANGED bindings
  <2>1. ~Conflicting(AliasesIn(seedEntry', i), i)
        /\ bindings' = [k \in SeedKeys |-> IF k \in AliasesIn(seedEntry', i) THEN i ELSE bindings[k]]
    BY <1>3 DEF LeaseBroadcast
  <2>2. AliasesIn(seedEntry', i) \in SUBSET SeedKeys
    <3>1. seedEntry' \in [SeedKeys -> SeedEntries \union {NoSeed}]
      BY DEF LeaseInv, LeaseTypes
    <3> QED
      BY <1>0, <3>1, GroupHolds
  <2> DEFINE group == AliasesIn(seedEntry', i)
  <2> HIDE DEF group, i
  <2>3. /\ bindings' \in [SeedKeys -> SeedKeys \union {NoKey}]
        /\ \A c \in Inbound : conn[c].at = "serving" => bindings'[conn[c].key] = conn[c].canonical
    BY <1>0, <2>1, <2>2, BindingHolds DEF group
  <2> QED
    BY <1>1, <2>3, ConnectionsRest
<1> QED
  BY <1>2, <1>3

LEMMA AcceptSteps ==
  ASSUME ConnInv, NEW c \in Inbound, Accept(c)
  PROVE  ConnInv'
<1> DEFINE r == [conn[c] EXCEPT !.at = "handshake"]
<1>0. /\ conn[c].at = "none" /\ conn' = [conn EXCEPT ![c] = r] /\ UNCHANGED <<counts, bindings>>
  BY DEF Accept
<1>1. /\ conn[c] \in [at : {"none", "handshake", "serving"}, key : SeedKeys \union {NoKey}, canonical : SeedKeys \union {NoKey}]
      /\ conn[c].key = NoKey /\ conn[c].canonical = NoKey
  BY <1>0 DEF ConnInv, ConnTypes, ConnFits
<1>2. /\ r \in [at : {"none", "handshake", "serving"}, key : SeedKeys \union {NoKey}, canonical : SeedKeys \union {NoKey}]
      /\ r.at = "handshake" /\ r.key = NoKey /\ r.canonical = NoKey
  BY <1>1
<1> HIDE DEF r
<1>3. ConnTypes' /\ conn'[c] = r /\ \A d \in Inbound \ {c} : conn'[d] = conn[d]
  BY <1>0, <1>2 DEF ConnInv, ConnTypes
<1>4. \A d \in Inbound : ConnFits(d)'
  BY <1>0, <1>2, <1>3 DEF ConnInv, ConnFits
<1>5. \A k \in SeedKeys : CountedFor(k)' = CountedFor(k)
  BY <1>1, <1>2, <1>3 DEF CountedFor
<1> QED
  BY <1>0, <1>3, <1>4, <1>5 DEF ConnInv

\* What admit_inbound establishes about the stream it counts the connection for.
EntersStream(c, k, q) ==
  /\ q \in SeedKeys /\ q = seedEntry[k].canonical /\ Present(k) /\ conn[c].at = "handshake"
  /\ (MaxPerStream # 0 => counts[q] < MaxPerStream)
  /\ AliasesIn(seedEntry, q) \in SUBSET SeedKeys /\ k \in AliasesIn(seedEntry, q)
  /\ seedEntry[k].aliases \subseteq AliasesIn(seedEntry, q)
  /\ ~Conflicting(AliasesIn(seedEntry, q), q)
  /\ counts' = [counts EXCEPT ![q] = @ + 1]
  /\ bindings' = [a \in SeedKeys |-> IF a \in AliasesIn(seedEntry, q) THEN q ELSE bindings[a]]
  /\ conn' = [conn EXCEPT ![c] = [at |-> "serving", key |-> k, canonical |-> q]]

LEMMA AdmissionAdmits ==
  ASSUME LeaseInv, NEW c \in Inbound, NEW k \in SeedKeys, AdmitInbound(c, k)
  PROVE  \E q : EntersStream(c, k, q)
<1> DEFINE q == seedEntry[k].canonical
<1>1. Present(k) /\ q # NoKey /\ AliasesIn(seedEntry, q) # {} /\ ~Conflicting(AliasesIn(seedEntry, q), q)
  BY DEF AdmitInbound, MayAdmit
<1>2. q \in SeedKeys /\ seedEntry \in [SeedKeys -> SeedEntries \union {NoSeed}]
  <2>1. LeaseTypes
    BY DEF LeaseInv
  <2>2. seedEntry[k] \in SeedEntries
    BY <1>1, <2>1, EntriesHold
  <2> QED
    BY <1>1, <2>1, <2>2 DEF SeedEntries, LeaseTypes
<1>3. /\ AliasesIn(seedEntry, q) \in SUBSET SeedKeys /\ k \in AliasesIn(seedEntry, q)
      /\ seedEntry[k].aliases \subseteq AliasesIn(seedEntry, q)
  BY <1>1, <1>2, GroupHolds DEF Present
<1>4. /\ conn[c].at = "handshake" /\ (MaxPerStream # 0 => counts[q] < MaxPerStream)
      /\ counts' = [counts EXCEPT ![q] = @ + 1]
      /\ bindings' = [a \in SeedKeys |-> IF a \in AliasesIn(seedEntry, q) THEN q ELSE bindings[a]]
      /\ conn' = [conn EXCEPT ![c] = [at |-> "serving", key |-> k, canonical |-> q]]
  BY DEF AdmitInbound, MayAdmit, CountedAs
<1>5. EntersStream(c, k, q)
  BY <1>1, <1>2, <1>3, <1>4 DEF EntersStream
<1> QED
  BY <1>5

LEMMA AdmissionSteps ==
  ASSUME ConnInv, NEW c \in Inbound, NEW k \in SeedKeys, NEW q, EntersStream(c, k, q)
  PROVE  ConnInv'
<1>0. NoKey \notin SeedKeys /\ q \in SeedKeys
  BY SeedAssumption DEF NoKey, EntersStream
<1>1. conn[c].canonical = NoKey
  BY DEF ConnInv, ConnFits, EntersStream
<1>2. /\ conn'[c].at = "serving" /\ conn'[c].key = k /\ conn'[c].canonical = q
      /\ conn' \in [Inbound -> [at : {"none", "handshake", "serving"}, key : SeedKeys \union {NoKey},
                                canonical : SeedKeys \union {NoKey}]]
      /\ \A d \in Inbound \ {c} : conn'[d] = conn[d]
  BY <1>0 DEF ConnInv, ConnTypes, EntersStream
<1> DEFINE group == AliasesIn(seedEntry, q)
<1>3. /\ bindings' \in [SeedKeys -> SeedKeys \union {NoKey}] /\ \A a \in group : bindings'[a] = q
      /\ \A d \in Inbound : conn[d].at = "serving" => bindings'[conn[d].key] = conn[d].canonical
  <2>1. group \in SUBSET SeedKeys /\ ~Conflicting(group, q)
        /\ bindings' = [a \in SeedKeys |-> IF a \in group THEN q ELSE bindings[a]]
    BY DEF EntersStream
  <2> HIDE DEF group
  <2> QED
    BY <1>0, <2>1, BindingHolds
<1>4. counts' \in [SeedKeys -> Nat] /\ counts'[q] = counts[q] + 1 /\ \A j \in SeedKeys \ {q} : counts'[j] = counts[j]
  BY <1>0 DEF ConnInv, ConnTypes, EntersStream
<1>5. ConnTypes'
  BY <1>2, <1>3, <1>4 DEF ConnTypes
<1>6. ASSUME NEW d \in Inbound PROVE ConnFits(d)'
  <2>1. CASE d = c
    <3>1. bindings'[k] = q
      BY <1>3 DEF EntersStream
    <3> QED
      BY <1>0, <1>2, <2>1, <3>1 DEF ConnFits
  <2>2. CASE d # c
    BY <1>2, <1>3, <2>2 DEF ConnInv, ConnFits
  <2> QED
    BY <2>1, <2>2
<1>7. ASSUME NEW j \in SeedKeys PROVE counts'[j] = Cardinality(CountedFor(j)')
  <2>1. CASE j = q
    <3>1. CountedFor(q)' = CountedFor(q) \union {c} /\ c \notin CountedFor(q)
      BY <1>0, <1>1, <1>2 DEF CountedFor
    <3>2. Cardinality(CountedFor(q) \union {c}) = Cardinality(CountedFor(q)) + 1
      BY <3>1, CountedHolds, FS_AddElement
    <3> QED
      BY <1>0, <1>4, <2>1, <3>1, <3>2 DEF ConnInv
  <2>2. CASE j # q
    <3>1. CountedFor(j)' = CountedFor(j)
      BY <1>0, <1>1, <1>2, <2>2 DEF CountedFor
    <3> QED
      BY <1>4, <2>2, <3>1 DEF ConnInv
  <2> QED
    BY <2>1, <2>2
<1> QED
  BY <1>5, <1>6, <1>7 DEF ConnInv

\* The last connection of a stream unbinds its keys, and nobody relies on them then.
LEMMA EndingSteps ==
  ASSUME ConnInv, NEW c \in Inbound, ConnectionEnds(c)
  PROVE  ConnInv'
<1> DEFINE q == conn[c].canonical
           free == [at |-> "none", key |-> NoKey, canonical |-> NoKey]
<1>0. NoKey \notin SeedKeys
  BY SeedAssumption DEF NoKey
<1>1. /\ free \in [at : {"none", "handshake", "serving"}, key : SeedKeys \union {NoKey}, canonical : SeedKeys \union {NoKey}]
      /\ free.at = "none" /\ free.key = NoKey /\ free.canonical = NoKey
  OBVIOUS
<1> HIDE DEF free
<1>2. /\ conn'[c] = free /\ \A d \in Inbound \ {c} : conn'[d] = conn[d]
      /\ conn' \in [Inbound -> [at : {"none", "handshake", "serving"}, key : SeedKeys \union {NoKey},
                                canonical : SeedKeys \union {NoKey}]]
  <2>1. conn' = [conn EXCEPT ![c] = free]
    BY DEF ConnectionEnds, free
  <2> QED
    BY <1>1, <2>1 DEF ConnInv, ConnTypes
<1>3. CASE conn[c].at # "serving"
  <2>1. conn[c].canonical = NoKey /\ UNCHANGED <<counts, bindings>>
    BY <1>3 DEF ConnInv, ConnFits, ConnectionEnds
  <2>2. ConnTypes'
    BY <1>2, <2>1 DEF ConnInv, ConnTypes
  <2>3. \A d \in Inbound : ConnFits(d)'
    BY <1>1, <1>2, <2>1 DEF ConnInv, ConnFits
  <2>4. \A j \in SeedKeys : CountedFor(j)' = CountedFor(j)
    BY <1>0, <1>1, <1>2, <2>1 DEF CountedFor
  <2> QED
    BY <2>1, <2>2, <2>3, <2>4 DEF ConnInv
<1>4. CASE conn[c].at = "serving"
  <2>0. q \in SeedKeys
    BY <1>4 DEF ConnInv, ConnFits
  <2>1. /\ counts' = [counts EXCEPT ![q] = @ - 1]
        /\ bindings' = [a \in SeedKeys |-> IF counts[q] = 1 /\ bindings[a] = q THEN NoKey ELSE bindings[a]]
    BY <1>4 DEF ConnectionEnds
  <2>2. c \in CountedFor(q)
    BY DEF CountedFor
  <2> HIDE DEF q
  <2>3. /\ counts[q] = Cardinality(CountedFor(q)) /\ counts[q] \in Nat
        /\ Cardinality(CountedFor(q) \ {c}) = counts[q] - 1 /\ IsFiniteSet(CountedFor(q) \ {c})
    BY <2>0, <2>2, CountedHolds, FS_RemoveElement DEF ConnInv
  <2>4. Cardinality(CountedFor(q) \ {c}) \in Nat
    BY <2>3, FS_CardinalityType
  <2>5. counts' \in [SeedKeys -> Nat] /\ counts'[q] = counts[q] - 1 /\ \A j \in SeedKeys \ {q} : counts'[j] = counts[j]
    BY <2>0, <2>1, <2>3, <2>4 DEF ConnInv, ConnTypes
  <2>6. bindings' \in [SeedKeys -> SeedKeys \union {NoKey}]
    BY <2>1 DEF ConnInv, ConnTypes
  <2>7. ConnTypes'
    BY <1>2, <2>5, <2>6 DEF ConnTypes
  <2>8. ASSUME NEW d \in Inbound PROVE ConnFits(d)'
    <3>1. CASE d = c
      BY <1>1, <1>2, <3>1 DEF ConnFits
    <3>2. CASE d # c /\ conn[d].at # "serving"
      BY <1>2, <3>2 DEF ConnInv, ConnFits
    <3>3. CASE d # c /\ conn[d].at = "serving"
      <4>1. /\ conn[d].key \in SeedKeys /\ conn[d].canonical \in SeedKeys
            /\ bindings[conn[d].key] = conn[d].canonical /\ conn'[d] = conn[d]
        BY <1>2, <3>3 DEF ConnInv, ConnFits
      <4>2. ~(counts[q] = 1 /\ bindings[conn[d].key] = q)
        <5> SUFFICES ASSUME counts[q] = 1, bindings[conn[d].key] = q PROVE FALSE
          OBVIOUS
        <5>1. d \in CountedFor(q) \ {c}
          BY <3>3, <4>1 DEF CountedFor
        <5>2. Cardinality(CountedFor(q) \ {c}) # 0
          BY <2>3, <5>1, FS_EmptySet
        <5> QED
          BY <2>3, <5>2
      <4>3. bindings'[conn[d].key] = bindings[conn[d].key]
        BY <2>1, <4>1, <4>2
      <4> QED
        BY <3>3, <4>1, <4>3 DEF ConnFits
    <3> QED
      BY <3>1, <3>2, <3>3
  <2>9. ASSUME NEW j \in SeedKeys PROVE counts'[j] = Cardinality(CountedFor(j)')
    <3>1. CountedFor(j)' = CountedFor(j) \ {c}
      BY <1>0, <1>1, <1>2 DEF CountedFor
    <3>2. CASE j = q
      BY <2>3, <2>5, <3>1, <3>2
    <3>3. CASE j # q
      <4>1. CountedFor(j) \ {c} = CountedFor(j)
        BY <3>3 DEF CountedFor, q
      <4> QED
        BY <2>5, <3>1, <3>3, <4>1 DEF ConnInv
    <3> QED
      BY <3>2, <3>3
  <2> QED
    BY <2>7, <2>8, <2>9 DEF ConnInv
<1> QED
  BY <1>3, <1>4

\* The inductive invariant of the inbound connections holds in every state (listen.rs: accept,
\* admit_inbound, InboundPermit::drop and retain_live_aliases).
THEOREM InboundInvariant == SeedSpec => []ConnInv
<1>1. ASSUME LeaseInv, LeaseInv', ConnInv, [SeedNext]_seedVars PROVE ConnInv'
  <2>1. CASE UNCHANGED seedVars
    BY <1>1, <2>1, ConnectionsStay DEF seedVars
  <2>2. ASSUME NEW l \in Lessees, LookUp(l) \/ Rendezvous(l) \/ MakeStore(l) \/ PublishStore(l)
                                  \/ FinishCreating(l) \/ LeaseStore(l) \/ DropLease(l)
        PROVE  ConnInv'
    BY <1>1, <2>2, ConnectionsStay
       DEF LookUp, Rendezvous, MakeStore, PublishStore, FinishCreating, LeaseStore, DropLease
  <2>3. ASSUME NEW l \in Lessees, LeaseBroadcast(l) PROVE ConnInv'
    BY <1>1, <2>3, BroadcastBinds
  <2>4. ASSUME NEW k \in SeedKeys, Reap(k) PROVE ConnInv'
    BY <1>1, <2>4, ConnectionsStay DEF Reap
  <2>5. ASSUME NEW c \in Inbound, Accept(c) PROVE ConnInv'
    BY <1>1, <2>5, AcceptSteps
  <2>6. ASSUME NEW c \in Inbound, NEW k \in SeedKeys, AdmitInbound(c, k) PROVE ConnInv'
    BY <1>1, <2>6, AdmissionAdmits, AdmissionSteps
  <2>7. ASSUME NEW c \in Inbound, ConnectionEnds(c) PROVE ConnInv'
    BY <1>1, <2>7, EndingSteps
  <2> QED
    BY <1>1, <2>1, <2>2, <2>3, <2>4, <2>5, <2>6, <2>7 DEF SeedNext
<1> QED
  BY <1>1, ConnStart, SeedLeaseInvariant, PTL DEF SeedSpec

\* Whoever is served under a name of the stream counts for it, so the cap holds for the stream.
LEMMA CapHolds ==
  ASSUME LeaseInv, ConnInv, ConnInv', NEW c \in Inbound, NEW k \in SeedKeys, NEW q, EntersStream(c, k, q),
         MaxPerStream # 0
  PROVE  Cardinality({d \in Inbound : conn'[d].key \in Names(k)}) <= MaxPerStream
<1> DEFINE group == AliasesIn(seedEntry, q)
           D == {d \in Inbound : conn'[d].key \in Names(k)}
<1>0. /\ NoKey \notin SeedKeys /\ q \in SeedKeys /\ group \subseteq SeedKeys /\ k \in group
      /\ seedEntry[k].aliases \subseteq group /\ MaxPerStream \in Nat /\ counts[q] < MaxPerStream
  BY SeedAssumption DEF NoKey, EntersStream
<1>1. Names(k) \subseteq group
  <2> SUFFICES ASSUME NEW l \in DOMAIN Broadcasters, lessee[l].at = "leased",
                      k \in {Broadcasters[l][1], Broadcasters[l][2]}
               PROVE  {Broadcasters[l][1], Broadcasters[l][2]} \subseteq group
    BY <1>0 DEF Names
  <2>1. l \in Lessees /\ KeysOf(l) = {Broadcasters[l][1], Broadcasters[l][2]} /\ Leased(l)
    BY SeedAssumption DEF Lessees, KeysOf, Leased
  <2>2. KeysOf(l) \subseteq seedEntry[k].aliases
    BY <2>1 DEF LeaseInv, LesseeFits
  <2> QED
    BY <1>0, <2>1, <2>2
<1>2. \A a \in group : bindings'[a] = q
  BY <1>0 DEF EntersStream
<1> HIDE DEF group
<1>3. D \subseteq CountedFor(q)'
  <2> SUFFICES ASSUME NEW d \in Inbound, conn'[d].key \in group PROVE conn'[d].canonical = q
    BY <1>1 DEF CountedFor
  <2>1. conn'[d].at = "serving"
    BY <1>0 DEF ConnInv, ConnFits
  <2> QED
    BY <1>2, <2>1 DEF ConnInv, ConnFits
<1>4. IsFiniteSet(CountedFor(q)')
  BY SeedAssumption, FS_Subset DEF CountedFor
<1>5. counts'[q] = Cardinality(CountedFor(q)') /\ counts'[q] = counts[q] + 1 /\ counts[q] \in Nat
  BY <1>0 DEF ConnInv, ConnTypes, EntersStream
<1> HIDE DEF D
<1>6. Cardinality(D) <= Cardinality(CountedFor(q)') /\ Cardinality(D) \in Nat
  BY <1>3, <1>4, FS_Subset, FS_CardinalityType
<1>7. Cardinality(D) <= MaxPerStream
  BY <1>0, <1>5, <1>6
<1> QED
  BY <1>7 DEF D

LEMMA CapSteps ==
  ASSUME LeaseInv, ConnInv, ConnInv', SeedNext
  PROVE  CapIsPerStream
<1> SUFFICES ASSUME NEW c \in Inbound, conn[c].at = "handshake", conn'[c].at = "serving", MaxPerStream # 0
             PROVE  Cardinality({d \in Inbound : conn'[d].key \in Names(conn'[c].key)}) <= MaxPerStream
  BY DEF CapIsPerStream
<1>1. \E k \in SeedKeys : AdmitInbound(c, k)
  <2>0. conn \in [Inbound -> [at : {"none", "handshake", "serving"}, key : SeedKeys \union {NoKey},
                              canonical : SeedKeys \union {NoKey}]]
    BY DEF ConnInv, ConnTypes
  <2>1. conn' # conn
    OBVIOUS
  <2>2. \E d \in Inbound : Accept(d) \/ ConnectionEnds(d) \/ \E k \in SeedKeys : AdmitInbound(d, k)
    <3>1. \A l \in Lessees : LookUp(l) \/ Rendezvous(l) => conn' = conn
      BY DEF LookUp, Rendezvous
    <3>2. \A l \in Lessees : MakeStore(l) \/ FinishCreating(l) => conn' = conn
      BY DEF MakeStore, FinishCreating
    <3>3. \A l \in Lessees : PublishStore(l) => conn' = conn
      BY DEF PublishStore
    <3>4. \A l \in Lessees : LeaseStore(l) => conn' = conn
      BY DEF LeaseStore
    <3>5. \A l \in Lessees : DropLease(l) => conn' = conn
      BY DEF DropLease
    <3>6. ASSUME NEW l \in Lessees, LeaseBroadcast(l) PROVE UNCHANGED <<conn, counts>>
      BY <3>6 DEF LeaseBroadcast
    <3>7. \A k \in SeedKeys : Reap(k) => conn' = conn
      BY DEF Reap
    <3> QED
      BY <2>1, <3>1, <3>2, <3>3, <3>4, <3>5, <3>6, <3>7 DEF SeedNext
  <2>3. ASSUME NEW d \in Inbound, Accept(d) \/ ConnectionEnds(d) PROVE FALSE
    BY <2>0, <2>3 DEF Accept, ConnectionEnds
  <2>4. ASSUME NEW d \in Inbound, NEW k \in SeedKeys, AdmitInbound(d, k) PROVE d = c
    BY <2>0, <2>4 DEF AdmitInbound
  <2> QED
    BY <2>2, <2>3, <2>4
<1>2. PICK k \in SeedKeys : AdmitInbound(c, k)
  BY <1>1
<1>3. PICK q : EntersStream(c, k, q)
  BY <1>2, AdmissionAdmits
<1>4. conn'[c].key = k
  BY <1>3 DEF EntersStream, ConnInv, ConnTypes
<1> QED
  BY <1>3, <1>4, CapHolds

\* What is seeded is published, leased and counted under the keys that were agreed on,
\* whatever registrations and connections race (listen.rs).
THEOREM SeedingHolds == SeedSpec => SeedingIsSound
<1>1. LeaseInv => LeasesShareOneStore
  BY LeasesShare
<1>2. ConnInv => ConnectionsAreCounted
  BY DEF ConnInv, ConnectionsAreCounted, ConnFits, CountedFor
<1>3. LeaseInv /\ ConnInv /\ ConnInv' /\ [SeedNext]_seedVars => [CapIsPerStream]_seedVars
  BY CapSteps
<1> QED
  BY <1>1, <1>2, <1>3, SeedLeaseInvariant, InboundInvariant, PTL DEF SeedSpec, SeedingIsSound
=============================================================================
