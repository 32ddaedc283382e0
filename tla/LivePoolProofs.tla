--------------------------- MODULE LivePoolProofs ---------------------------
(***************************************************************************)
(* What TLAPS proves of LivePool for every number of pieces, peers, slots  *)
(* and chunks.                                                             *)
(***************************************************************************)
EXTENDS LivePool, FiniteSetTheorems, WellFoundedInduction, TLAPS

-----------------------------------------------------------------------------
(* Least and greatest elements.                                            *)

\* A non-empty set of naturals has a least element, and Least is it.
LEMMA LeastIs ==
    ASSUME NEW S \in SUBSET Nat, S # {}
    PROVE  Least(S) \in S /\ \A y \in S : Least(S) <= y
<1>1. \E x \in S : \A y \in S : <<y, x>> \notin OpToRel(<, Nat)
  BY WFMin, NatLessThanWellFounded, Zenon
<1>2. \E x \in S : \A y \in S : x <= y
  <2>1. PICK x \in S : \A y \in S : <<y, x>> \notin OpToRel(<, Nat)
    BY <1>1
  <2>2. \A y \in S : y \in Nat /\ x \in Nat
    OBVIOUS
  <2>3. \A y \in S : ~(y < x)
    BY <2>1, <2>2, Zenon DEF OpToRel
  <2> QED
    BY <2>2, <2>3
<1> QED
  BY <1>2 DEF Least

\* A non-empty set of pieces has a greatest element.
LEMMA GreatestExists ==
    ASSUME NEW m \in Nat, NEW S \in SUBSET (0 .. m), S # {}
    PROVE  \E x \in S : \A y \in S : y <= x
<1> DEFINE T == {m - y : y \in S}
<1>0. \A y \in S : m - y \in Nat
  OBVIOUS
<1>1. T \in SUBSET Nat /\ T # {}
  BY <1>0, Zenon
<1>2. Least(T) \in T /\ \A z \in T : Least(T) <= z
  BY <1>1, LeastIs
<1>3. PICK x \in S : Least(T) = m - x
  BY <1>2
<1>4. \A y \in S : m - x <= m - y
  BY <1>2, <1>3
<1> QED
  BY <1>4

-----------------------------------------------------------------------------
(* The scheduler's batch.                                                  *)

\* Sets of peers and of pieces are finite.
LEMMA Finite ==
    /\ IsFiniteSet(Ids) /\ Cardinality(Ids) \in Nat
    /\ \A S \in SUBSET Ids : IsFiniteSet(S) /\ Cardinality(S) \in Nat
    /\ \A S \in SUBSET Pieces : IsFiniteSet(S) /\ Cardinality(S) \in Nat
<1>1. IsFiniteSet(Ids) /\ IsFiniteSet(Pieces)
  BY FS_Interval, LivePoolAssumption DEF LivePoolAssumption, Ids, Pieces
<1> QED
  BY <1>1, FS_Subset, FS_CardinalityType

\* The spare slots of a peer are a number of slots.
LEMMA SpareType ==
    ASSUME NEW fl \in [Ids -> SUBSET Pieces], NEW i \in Ids
    PROVE  /\ Spare(fl, i) \in Nat
           /\ Cardinality(fl[i]) <= MaxInFlight =>
                Spare(fl, i) = MaxInFlight - Cardinality(fl[i])
<1>1. Cardinality(fl[i]) \in Nat
  BY Finite
<1> QED
  BY <1>1, LivePoolAssumption DEF LivePoolAssumption, Spare, Larger

\* The scan visits pieces from the cursor on that nobody was asked for.
LEMMA ScanType ==
    ASSUME TypeOK, NEW n \in Nat, NEW fl, NEW req
    PROVE  \A p \in Scan(n, fl, req) : p \in Pieces /\ p >= n /\ p \notin req
<1> DEFINE x == n + Cardinality(Serving) * MaxInFlight
<1>1. Cardinality(Serving) \in Nat
  BY Finite DEF Serving, Peers
<1>2. x \in Int /\ head \in Pieces /\ head \in Int
  BY <1>1, LivePoolAssumption DEF LivePoolAssumption, TypeOK, Pieces
<1>3. Smaller(head, x) \in Int /\ Smaller(head, x) <= head
  BY <1>2 DEF Smaller
<1>4. \A p \in n .. Smaller(head, x) : p \in Pieces /\ p >= n
  BY <1>2, <1>3, LivePoolAssumption DEF LivePoolAssumption, Pieces
<1> QED
  BY <1>4 DEF Scan

\* Nobody is given more than its spare slots or than its queue takes, and
\* nothing that was requested already.
LEMMA BatchFits ==
    ASSUME TypeOK, NEW n \in Nat, NEW fl \in [Ids -> SUBSET Pieces], NEW req,
           NEW b \in Batches(n, fl, req), NEW i \in Ids
    PROVE  /\ \A p \in Chosen(b, i) : p \in Pieces /\ p >= n /\ p \notin req
           /\ IsFiniteSet(Chosen(b, i)) /\ Cardinality(Chosen(b, i)) \in Nat
           /\ Chosen(b, i) # {} => /\ Cardinality(Chosen(b, i)) <= Spare(fl, i)
                                   /\ Cardinality(Chosen(b, i)) <= Slots(i)
<1> DEFINE C == Chosen(b, i)
           scan == Scan(n, fl, req)
<1>1. DOMAIN b = scan
  BY DEF Batches
<1>2. C = {p \in scan : b[p] = i}
  BY <1>1 DEF Chosen
<1>3. \A p \in C : p \in Pieces /\ p >= n /\ p \notin req
  BY <1>2, ScanType
<1>4. IsFiniteSet(C) /\ Cardinality(C) \in Nat
  BY <1>3, Finite
<1>5. ASSUME C # {}
      PROVE  Cardinality(C) <= Spare(fl, i) /\ Cardinality(C) <= Slots(i)
  <2>1. PICK p \in C : \A y \in C : y <= p
    BY <1>3, <1>5, GreatestExists, LivePoolAssumption DEF LivePoolAssumption, Pieces
  <2> DEFINE U == {r \in scan : r < p /\ b[r] = i}
  <2>2. Cardinality(U) < Spare(fl, i) /\ Cardinality(U) < Slots(i)
    BY <1>2 DEF Batches, Ids
  <2>3. \A r \in C : r < p <=> r # p
    BY <2>1, <1>3, LivePoolAssumption DEF LivePoolAssumption, Pieces
  <2>4. U = C \ {p}
    BY <2>3, <1>2
  <2>5. Cardinality(U) = Cardinality(C) - 1
    BY <2>4, <1>4, FS_RemoveElement
  <2>6. Spare(fl, i) \in Nat /\ Slots(i) \in Int
    BY SpareType, LivePoolAssumption DEF LivePoolAssumption, TypeOK, Slots
  <2> QED
    BY <2>2, <2>5, <2>6, <1>4
<1> QED
  BY <1>3, <1>4, <1>5

-----------------------------------------------------------------------------
(* Types.                                                                  *)

\* The catch-up moves the cursor forward, to a piece.
LEMMA FarTargetType ==
    ASSUME TypeOK, NEW h \in Pieces
    PROVE  /\ FarTarget(h) \in 0 .. MaxPiece + 1 /\ FarTarget(h) >= next
           /\ Larger(floor, h - Prefetch) \in Pieces
           /\ Hold => FarTarget(h) = next
           /\ floor <= next => Larger(floor, h - Prefetch) <= FarTarget(h) \/ Hold
  BY LivePoolAssumption DEF LivePoolAssumption, TypeOK, FarTarget, Larger, Pieces

\* The reassembler keeps its types when the cursor moves.
LEMMA SkipToType ==
    ASSUME TypeOK, NEW n \in 0 .. MaxPiece + 1, SkipTo(n)
    PROVE  /\ next' \in 0 .. MaxPiece + 1 /\ filled' \in [Pieces -> SUBSET Chunks]
           /\ complete' \subseteq Pieces /\ plain' \subseteq Pieces
  BY DEF TypeOK, SkipTo

\* So does the whole catch-up.
LEMMA SkipFarType ==
    ASSUME TypeOK, NEW h \in Pieces, SkipFar(h)
    PROVE  /\ next' = FarTarget(h)
           /\ next' \in 0 .. MaxPiece + 1 /\ filled' \in [Pieces -> SUBSET Chunks]
           /\ complete' \subseteq Pieces /\ plain' \subseteq Pieces
           /\ floor' \in Pieces /\ disc' \in BOOLEAN
<1>1. FarTarget(h) \in 0 .. MaxPiece + 1 /\ Larger(floor, h - Prefetch) \in Pieces
  BY FarTargetType
<1>2. SkipTo(FarTarget(h)) /\ next' = FarTarget(h)
  BY DEF SkipFar, SkipTo
<1>3. floor' \in Pieces /\ disc' \in BOOLEAN
  BY <1>1 DEF SkipFar, TypeOK
<1> QED
  BY <1>1, <1>2, <1>3, SkipToType

\* What publication works on is a piece that needs it.
LEMMA StartOpType ==
    ASSUME NEW need \in SUBSET Pieces, NEW o \in Pieces \cup {None}
    PROVE  /\ StartOp(o, need) \in Pieces \cup {None}
           /\ (o # None => o \in need) =>
                (StartOp(o, need) # None => StartOp(o, need) \in need)
<1>1. need # {} => Least(need) \in need
  BY LeastIs, LivePoolAssumption DEF LivePoolAssumption, Pieces
<1> QED
  BY <1>1 DEF StartOp

\* Slots and timers keep their types when the cursor moves.
LEMMA PrunedType ==
    ASSUME TypeOK, NEW n
    PROVE  /\ Pruned(n) \in [Ids -> SUBSET Pieces] /\ Timers(n) \subseteq Pieces
           /\ \A i \in Ids : Pruned(n)[i] \subseteq inflight[i]
           /\ \A S : Everywhere(Pruned(n), S) \in [Ids -> SUBSET Pieces]
  BY DEF TypeOK, Pruned, Timers, Everywhere

\* Assigning a batch keeps the types; no queue overflows.
LEMMA AssignType ==
    ASSUME TypeOK, NEW n \in 0 .. MaxPiece + 1, Assign(n)
    PROVE  /\ inflight' \in [Ids -> SUBSET Pieces]
           /\ requested' \subseteq Pieces /\ at' \subseteq Pieces
           /\ wk' \in [Ids -> {"none", "open", "closing", "closed"}]
           /\ cmds' \in [Ids -> 0 .. QueueCap]
<1> DEFINE req == {p \in requested : p >= n}
           given(b, i) == IF wk[i] = "open" THEN Chosen(b, i) ELSE {}
           all(b) == UNION {given(b, i) : i \in Ids}
<1>1. PICK b \in Batches(n, Pruned(n), req) :
        /\ inflight' = [i \in Ids |-> (Pruned(n)[i] \ Chosen(b, i)) \cup given(b, i)]
        /\ requested' = req \cup all(b)
        /\ at' = Timers(n) \cup all(b)
        /\ cmds' = [i \in Ids |-> cmds[i] + Cardinality(given(b, i))]
        /\ wk' = [i \in Ids |->
              IF wk[i] = "closing" /\ Chosen(b, i) # {} THEN "closed" ELSE wk[i]]
  BY Zenon DEF Assign
<1>2. n \in Nat /\ Pruned(n) \in [Ids -> SUBSET Pieces] /\ Timers(n) \subseteq Pieces
  BY PrunedType, LivePoolAssumption DEF LivePoolAssumption
<1>3. \A i \in Ids : given(b, i) \subseteq Pieces
  BY <1>2, BatchFits
<1>4. all(b) \subseteq Pieces
  BY <1>3
<1>5. ASSUME NEW i \in Ids
      PROVE  cmds[i] + Cardinality(given(b, i)) \in 0 .. QueueCap
  <2>1. cmds[i] \in 0 .. QueueCap /\ QueueCap \in Nat
    BY LivePoolAssumption DEF LivePoolAssumption, TypeOK
  <2>2. CASE wk[i] = "open" /\ Chosen(b, i) # {}
    <3>1. Cardinality(Chosen(b, i)) \in Nat /\ Cardinality(Chosen(b, i)) <= Slots(i)
      BY <1>2, <2>2, BatchFits
    <3>2. Slots(i) = QueueCap - cmds[i]
      BY <2>2 DEF Slots
    <3> QED
      BY <3>1, <3>2, <2>1, <2>2
  <2>3. CASE ~(wk[i] = "open" /\ Chosen(b, i) # {})
    <3>1. given(b, i) = {}
      BY <2>3
    <3> QED
      BY <3>1, <2>1, FS_EmptySet
  <2> QED
    BY <2>2, <2>3
<1>6. inflight' \in [Ids -> SUBSET Pieces]
  BY <1>1, <1>2, <1>3
<1>7. requested' \subseteq Pieces /\ at' \subseteq Pieces
  BY <1>1, <1>2, <1>4 DEF TypeOK
<1>8. wk' \in [Ids -> {"none", "open", "closing", "closed"}]
  BY <1>1 DEF TypeOK
<1>9. cmds' \in [Ids -> 0 .. QueueCap]
  BY <1>1, <1>5
<1> QED
  BY <1>6, <1>7, <1>8, <1>9

\* The initial states are well typed.
LEMMA InitTypeOK == Init => TypeOK
<1> SUFFICES ASSUME Init PROVE TypeOK
  OBVIOUS
<1> USE LivePoolAssumption DEF LivePoolAssumption
<1>1. PICK ws \in Cohorts : \E A \in SUBSET (DOMAIN ws) : \E U \in SUBSET A :
        LET start == Larger(ws[1].max - Prefetch, ws[1].min)
        IN /\ next = start /\ head = ws[1].max /\ floor = start
           /\ startup = (Cardinality(DOMAIN ws) = 1)
           /\ win = [i \in Ids |-> IF i \in A THEN ws[i] ELSE NoWindow]
           /\ unchoked = U
           /\ nextId = Cardinality(DOMAIN ws) + 1
  BY Zenon DEF Init
<1>2. PICK n \in 1 .. MaxActive : ws \in [1 .. n -> Windows]
  BY DEF Cohorts
<1>3. Cardinality(DOMAIN ws) = n
  BY <1>2, FS_Interval
<1>4. DOMAIN ws \subseteq Ids /\ 1 \in DOMAIN ws
  BY <1>2 DEF Ids
<1>5. \A i \in DOMAIN ws : ws[i] \in [min : Pieces, max : Pieces] /\ ws[i].min <= ws[i].max
  BY <1>2
<1>6. next \in 0 .. MaxPiece + 1 /\ head \in Pieces /\ floor \in Pieces
  BY <1>1, <1>4, <1>5 DEF Larger, Pieces
<1>7. NoWindow \in [min : Pieces, max : Pieces]
  BY DEF NoWindow, Pieces
<1>8. win \in [Ids -> [min : Pieces, max : Pieces]] /\ unchoked \subseteq Ids
  BY <1>1, <1>4, <1>5, <1>7
<1>9. nextId \in 1 .. MaxId + 1 /\ startup \in BOOLEAN
  BY <1>1, <1>3
<1>10. /\ pc \in {"built", "advance"} /\ ret \in {"built", "poll"} /\ late = {}
       /\ filled = [p \in Pieces |-> {}] /\ complete = {} /\ plain = {}
       /\ needed = {} /\ op = None /\ ceiling = None /\ reserved = FALSE
       /\ pending = 0 /\ disc = FALSE
       /\ inflight = [i \in Ids |-> {}] /\ requested = {} /\ at = {}
       /\ wk \in [Ids -> {"none", "open"}] /\ cmds = [i \in Ids |-> 0] /\ pools = 1
       /\ taken = None /\ gap = FALSE /\ sent = FALSE /\ bare = FALSE
  BY DEF Init
<1>11. /\ filled \in [Pieces -> SUBSET Chunks] /\ inflight \in [Ids -> SUBSET Pieces]
       /\ cmds \in [Ids -> 0 .. QueueCap] /\ pending \in 0 .. MaxSegments - 1
       /\ wk \in [Ids -> {"none", "open", "closing", "closed"}] /\ pools \in Nat
  BY <1>10
<1>12. /\ pc \in {"built", "poll", "sweep", "advance", "release", "settle", "wait",
                  "lost", "drain", "connect", "gone"}
       /\ ret \in {"built", "poll", "sweep", "release", "again", "settle", "lost"}
       /\ late \subseteq Pieces /\ complete \subseteq Pieces /\ plain \subseteq Pieces
       /\ needed \subseteq Pieces /\ requested \subseteq Pieces /\ at \subseteq Pieces
  BY <1>10
<1> QED
  BY <1>6, <1>8, <1>9, <1>10, <1>11, <1>12 DEF TypeOK

\* A pool that ends leaves workers and queues of the right types.
LEMMA EndPoolType ==
    ASSUME EndPool
    PROVE  /\ wk' \in [Ids -> {"none", "open", "closing", "closed"}]
           /\ cmds' \in [Ids -> 0 .. QueueCap]
           /\ pc' = "drain" /\ ret' = "poll" /\ late' = {} /\ op' = None
           /\ reserved' = FALSE
  BY LivePoolAssumption DEF LivePoolAssumption, EndPool

\* A step of the actor's own loop keeps the types.
LEMMA TurnTypeOK ==
    ASSUME TypeOK, Turn
    PROVE  TypeOK'
<1> USE LivePoolAssumption DEF LivePoolAssumption, turnVars, reasmVars, pubVars, outVars,
        edgeVars, peerVars, reqVars, workVars, genVars, seenVars
<1>1. CASE Advance
  <2>1. head \in Pieces
    BY DEF TypeOK
  <2>2. /\ next' \in 0 .. MaxPiece + 1 /\ filled' \in [Pieces -> SUBSET Chunks]
        /\ complete' \subseteq Pieces /\ plain' \subseteq Pieces
        /\ floor' \in Pieces /\ disc' \in BOOLEAN
    BY <1>1, <2>1, SkipFarType DEF Advance
  <2>3. /\ inflight' \in [Ids -> SUBSET Pieces]
        /\ requested' \subseteq Pieces /\ at' \subseteq Pieces
        /\ wk' \in [Ids -> {"none", "open", "closing", "closed"}]
        /\ cmds' \in [Ids -> 0 .. QueueCap]
    <3>1. CASE Hold
      BY <1>1, <3>1 DEF Advance, TypeOK
    <3>2. CASE ~Hold /\ startup
      BY <1>1, <3>2, PrunedType DEF Advance, TypeOK
    <3>3. CASE ~Hold /\ ~startup
      BY <1>1, <3>3, <2>2, AssignType DEF Advance
    <3> QED
      BY <3>1, <3>2, <3>3
  <2>4. /\ pc' \in {"built", "poll", "sweep", "advance", "release", "settle", "lost"}
        /\ ret' \in {"built", "poll", "sweep", "release", "again", "settle", "lost"}
    BY <1>1 DEF Advance, TypeOK
  <2> QED
    BY <1>1, <2>2, <2>3, <2>4 DEF Advance, TypeOK
<1>2. CASE Poll
  <2>1. op' \in Pieces \cup {None}
    BY <1>2, StartOpType DEF Poll, TypeOK
  <2>2. ceiling' \in Nat \cup {None} /\ reserved' \in BOOLEAN
    BY <1>2 DEF Poll, TypeOK, Demand, None
  <2> QED
    BY <1>2, <2>1, <2>2 DEF Poll, TypeOK
<1>3. CASE Deadline
  BY <1>3 DEF Deadline, ThenAdvance, TypeOK
<1>4. CASE Stale
  BY <1>4, EndPoolType DEF Stale, TypeOK
<1>5. CASE Release
  <2>1. inflight' \in [Ids -> SUBSET Pieces]
    BY <1>5 DEF Release, Everywhere, TypeOK
  <2> QED
    BY <1>5, <2>1 DEF Release, ThenAdvance, TypeOK
<1>6. CASE Settle
  <2>1. CASE Peers = {} /\ ~Work
    BY <1>6, <2>1, EndPoolType DEF Settle, TypeOK
  <2>2. CASE ~(Peers = {} /\ ~Work)
    BY <1>6, <2>2 DEF Settle, TypeOK
  <2> QED
    BY <2>1, <2>2
<1>7. CASE Tick
  BY <1>7 DEF Tick, TypeOK
<1>8. ASSUME NEW stuck \in BOOLEAN, NEW T \in SUBSET at, Retransmit(T, stuck)
      PROVE  TypeOK'
  <2> DEFINE mins == {win[i].min : i \in Serving}
             n == IF stuck THEN Least(mins) ELSE FarTarget(head)
  <2>0. /\ stuck => Serving # {}
        /\ \A i \in Serving : win[i].min \in Pieces
    BY <1>8 DEF Retransmit, Evicted, Serving, Peers, TypeOK
  <2>1. stuck => mins \in SUBSET Pieces /\ mins # {}
    BY <2>0, Zenon
  <2>2. stuck => Least(mins) \in Pieces
    BY <2>1, LeastIs DEF Pieces
  <2>3. head \in Pieces /\ Larger(floor, head - Prefetch) \in Pieces
    BY FarTargetType DEF TypeOK
  <2>4. n \in 0 .. MaxPiece + 1
    BY <2>2, <2>3, FarTargetType DEF Pieces
  <2>5. SkipTo(n) /\ inflight' = Pruned(n)
    BY <1>8 DEF Retransmit
  <2>6. /\ next' \in 0 .. MaxPiece + 1 /\ filled' \in [Pieces -> SUBSET Chunks]
        /\ complete' \subseteq Pieces /\ plain' \subseteq Pieces
    BY <2>4, <2>5, SkipToType
  <2>7. inflight' \in [Ids -> SUBSET Pieces]
    BY <2>5, PrunedType
  <2>8. floor' \in Pieces /\ disc' \in BOOLEAN
    BY <1>8, <2>3 DEF Retransmit, TypeOK
  <2>9. requested' \subseteq Pieces /\ at' \subseteq Pieces /\ late' \subseteq Pieces
    BY <1>8 DEF Retransmit, TypeOK
  <2>10. pc' = "advance" /\ ret' \in {"release", "settle"}
    BY <1>8 DEF Retransmit
  <2> QED
    BY <1>8, <2>6, <2>7, <2>8, <2>9, <2>10 DEF Retransmit, TypeOK
<1> QED
  BY <1>1, <1>2, <1>3, <1>4, <1>5, <1>6, <1>7, <1>8 DEF Turn

\* Dropping peers keeps the types.
LEMMA DropType ==
    ASSUME TypeOK, NEW D, Drop(D)
    PROVE  /\ win' \in [Ids -> [min : Pieces, max : Pieces]] /\ unchoked' \subseteq Ids
           /\ inflight' \in [Ids -> SUBSET Pieces]
           /\ requested' \subseteq Pieces /\ at' \subseteq Pieces
           /\ wk' \in [Ids -> {"none", "open", "closing", "closed"}]
           /\ cmds' \in [Ids -> 0 .. QueueCap]
<1> USE LivePoolAssumption DEF LivePoolAssumption
<1>1. NoWindow \in [min : Pieces, max : Pieces]
  BY DEF NoWindow, Pieces
<1>2. win' \in [Ids -> [min : Pieces, max : Pieces]] /\ unchoked' \subseteq Ids
  BY <1>1 DEF Drop, TypeOK
<1>3. inflight' \in [Ids -> SUBSET Pieces]
  BY DEF Drop, TypeOK
<1>4. requested' \subseteq Pieces /\ at' \subseteq Pieces
  BY DEF Drop, Released, TypeOK
<1>5. wk' \in [Ids -> {"none", "open", "closing", "closed"}]
  BY DEF Drop, TypeOK
<1>6. cmds' \in [Ids -> 0 .. QueueCap]
  BY DEF Drop, TypeOK
<1> QED
  BY <1>2, <1>3, <1>4, <1>5, <1>6

\* The requests keep their types when a chunk ends some.
LEMMA FinishType ==
    ASSUME TypeOK, NEW S, Finish(S)
    PROVE  /\ inflight' \in [Ids -> SUBSET Pieces]
           /\ requested' \subseteq Pieces /\ at' \subseteq Pieces
<1>1. inflight' \in [Ids -> SUBSET Pieces]
  BY PrunedType DEF Finish
<1>2. requested' \subseteq Pieces /\ at' \subseteq Pieces
  BY PrunedType DEF Finish, TypeOK
<1> QED
  BY <1>1, <1>2

\* A chunk keeps the types, whatever becomes of it.
LEMMA ChunkTypeOK ==
    ASSUME TypeOK, NEW i \in Ids, NEW p \in Pieces, NEW c \in Chunks, NEW kind,
           ChunkSkipped(i, p, c) \/ ChunkRefused(i, p, c, kind) \/ ChunkTaken(i, p, c, kind)
    PROVE  TypeOK'
<1> USE LivePoolAssumption DEF LivePoolAssumption, turnVars, reasmVars, pubVars, outVars,
        edgeVars, peerVars, reqVars, workVars, genVars, seenVars
<1> DEFINE n == FarTarget(head)
<1>1. head \in Pieces /\ n \in 0 .. MaxPiece + 1 /\ Larger(floor, head - Prefetch) \in Pieces
  BY FarTargetType DEF TypeOK
<1>2. CASE ChunkSkipped(i, p, c)
  <2>1. /\ next' \in 0 .. MaxPiece + 1 /\ filled' \in [Pieces -> SUBSET Chunks]
        /\ complete' \subseteq Pieces /\ plain' \subseteq Pieces
        /\ floor' \in Pieces /\ disc' \in BOOLEAN
    BY <1>1, <1>2, SkipFarType DEF ChunkSkipped
  <2>2. /\ inflight' \in [Ids -> SUBSET Pieces]
        /\ requested' \subseteq Pieces /\ at' \subseteq Pieces
    BY <1>2, FinishType DEF ChunkSkipped
  <2> QED
    BY <1>2, <2>1, <2>2 DEF ChunkSkipped, TypeOK
<1>3. CASE ChunkRefused(i, p, c, kind)
  <2>1. next' \in 0 .. MaxPiece + 1 /\ floor' \in Pieces /\ disc' \in BOOLEAN
    BY <1>1, <1>3 DEF ChunkRefused, TypeOK
  <2>2. filled' \in [Pieces -> SUBSET Chunks]
    BY <1>3 DEF ChunkRefused, TypeOK
  <2>3. complete' \subseteq Pieces /\ plain' \subseteq Pieces
    BY <1>3 DEF ChunkRefused, TypeOK
  <2>4. /\ inflight' \in [Ids -> SUBSET Pieces]
        /\ requested' \subseteq Pieces /\ at' \subseteq Pieces
    BY <1>3, FinishType DEF ChunkRefused
  <2> QED
    BY <1>3, <2>1, <2>2, <2>3, <2>4 DEF ChunkRefused, ThenAdvance, TypeOK
<1>4. CASE ChunkTaken(i, p, c, kind)
  <2>1. next' \in 0 .. MaxPiece + 1 /\ floor' \in Pieces /\ disc' \in BOOLEAN
    BY <1>1, <1>4 DEF ChunkTaken, TypeOK
  <2>2. filled' \in [Pieces -> SUBSET Chunks]
    <3> DEFINE got == IF p \in complete THEN {} ELSE filled[p] \cup {c}
               done == p \notin complete /\ got = Chunks
    <3>1. filled' = [r \in Pieces |-> IF r < n THEN {}
                                      ELSE IF r = p THEN (IF done THEN {} ELSE got)
                                      ELSE filled[r]]
      BY <1>4, Zenon DEF ChunkTaken
    <3>2. got \in SUBSET Chunks
      BY DEF TypeOK
    <3> HIDE DEF got
    <3> QED
      BY <3>1, <3>2 DEF TypeOK
  <2>3. complete' \subseteq Pieces /\ plain' \subseteq Pieces /\ needed' \subseteq Pieces
    BY <1>4 DEF ChunkTaken, TypeOK
  <2>4. op' \in Pieces \cup {None}
    BY <1>4, <2>3, StartOpType DEF ChunkTaken, TypeOK
  <2>5. /\ inflight' \in [Ids -> SUBSET Pieces]
        /\ requested' \subseteq Pieces /\ at' \subseteq Pieces
    BY <1>4, FinishType DEF ChunkTaken
  <2> QED
    BY <1>4, <2>1, <2>2, <2>3, <2>4, <2>5 DEF ChunkTaken, ThenAdvance, TypeOK
<1> QED
  BY <1>2, <1>3, <1>4

\* So does what connected peers and candidates bring.
LEMMA EventTypeOK ==
    ASSUME TypeOK, Event
    PROVE  TypeOK'
<1> USE LivePoolAssumption DEF LivePoolAssumption, turnVars, reasmVars, pubVars, outVars,
        edgeVars, peerVars, reqVars, workVars, genVars, seenVars
<1>1. ASSUME NEW i \in Ids, Unchoke(i) \/ Choke(i)
      PROVE  TypeOK'
  BY <1>1 DEF Unchoke, Choke, ThenAdvance, TypeOK
<1>2. ASSUME NEW i \in Ids, Lost(i)
      PROVE  TypeOK'
  BY <1>2, DropType DEF Lost, ThenAdvance, TypeOK
<1>3. ASSUME NEW i \in Ids, Reply(i)
      PROVE  TypeOK'
  <2>1. cmds' \in [Ids -> 0 .. QueueCap]
    BY <1>3 DEF Reply, TypeOK
  <2>2. wk' \in [Ids -> {"none", "open", "closing", "closed"}]
    BY <1>3 DEF Reply, TypeOK
  <2> QED
    BY <1>3, <2>1, <2>2 DEF Reply, TypeOK
<1>4. ASSUME NEW i \in Ids, NEW h \in Pieces, Have(i, h)
      PROVE  TypeOK'
  <2>1. head' \in Pieces
    BY <1>4 DEF Have, Larger, TypeOK
  <2>2. win' \in [Ids -> [min : Pieces, max : Pieces]]
    BY <1>4 DEF Have, TypeOK
  <2> QED
    BY <1>4, <2>1, <2>2 DEF Have, ThenAdvance, TypeOK
<1>5. ASSUME NEW D \in SUBSET Ids, LostRest(D)
      PROVE  TypeOK'
  <2>1. CASE Peers = D /\ ~Work
    BY <1>5, <2>1, EndPoolType DEF LostRest, TypeOK
  <2>2. CASE ~(Peers = D /\ ~Work)
    BY <1>5, <2>2, DropType DEF LostRest, TypeOK
  <2> QED
    BY <2>1, <2>2
<1>6. ASSUME NEW i \in Ids, NEW p \in Pieces, NEW c \in Chunks,
             \/ ChunkSkipped(i, p, c)
             \/ \E kind \in Kinds : ChunkRefused(i, p, c, kind) \/ ChunkTaken(i, p, c, kind)
      PROVE  TypeOK'
  BY <1>6, ChunkTypeOK
<1>7. ASSUME NEW w \in Windows, Corroborate(w)
      PROVE  TypeOK'
  <2>1. /\ pc' \in {"advance", "poll"} /\ startup' = FALSE
        /\ ret' \in {"built", "poll", "sweep", "release", "again", "settle", "lost"}
        /\ late' \subseteq Pieces
    BY <1>7 DEF Corroborate, ThenAdvance, TypeOK
  <2>2. UNCHANGED <<reasmVars, pubVars, outVars, disc, head, floor, peerVars, reqVars,
                    workVars, genVars, seenVars>>
    BY <1>7 DEF Corroborate
  <2> QED
    BY <2>1, <2>2 DEF TypeOK
<1>8. ASSUME NEW w \in Windows, Receive(w)
      PROVE  TypeOK'
  <2>1. head' \in Pieces
    BY <1>8 DEF Receive, Larger, TypeOK
  <2>2. /\ next' \in 0 .. MaxPiece + 1 /\ filled' \in [Pieces -> SUBSET Chunks]
        /\ complete' \subseteq Pieces /\ plain' \subseteq Pieces
        /\ floor' \in Pieces /\ disc' \in BOOLEAN
    BY <1>8, <2>1, SkipFarType DEF Receive
  <2>3. inflight' \in [Ids -> SUBSET Pieces] /\ at' \subseteq Pieces
    BY <1>8, PrunedType DEF Receive
  <2> QED
    BY <1>8, <2>1, <2>2, <2>3 DEF Receive, TypeOK
<1>9. ASSUME NEW w \in Windows, NEW u \in BOOLEAN, NEW gone \in SUBSET Ids, Admit(w, u, gone)
      PROVE  TypeOK'
  <2>1. NoWindow \in [min : Pieces, max : Pieces] /\ w \in [min : Pieces, max : Pieces]
    BY DEF NoWindow, Pieces
  <2>2. Register(w, u, gone) /\ nextId \in Ids
    BY <1>9 DEF Admit, TypeOK, Ids
  <2>3. win' \in [Ids -> [min : Pieces, max : Pieces]] /\ unchoked' \subseteq Ids
    BY <2>1, <2>2 DEF Register, TypeOK
  <2>4. inflight' \in [Ids -> SUBSET Pieces] /\ requested' \subseteq Pieces
    BY <2>2 DEF Register, Released, TypeOK
  <2>5. wk' \in [Ids -> {"none", "open", "closing", "closed"}]
    BY <2>2 DEF Register, TypeOK
  <2>6. cmds' \in [Ids -> 0 .. QueueCap]
    BY <2>2 DEF Register, TypeOK
  <2>7. nextId' \in 1 .. MaxId + 1
    BY <2>2 DEF Register, Ids
  <2> QED
    BY <1>9, <2>3, <2>4, <2>5, <2>6, <2>7 DEF Admit, ThenAdvance, TypeOK
<1> QED
  BY <1>1, <1>2, <1>3, <1>4, <1>5, <1>6, <1>7, <1>8, <1>9 DEF Event

\* Publication and output keep the types.
LEMMA OutputTypeOK ==
    ASSUME TypeOK, Output
    PROVE  TypeOK'
<1> USE LivePoolAssumption DEF LivePoolAssumption, turnVars, reasmVars, pubVars, outVars,
        edgeVars, peerVars, reqVars, workVars, genVars, seenVars
<1>1. CASE PublicationDone
  <2>1. needed' \subseteq Pieces
    BY <1>1 DEF PublicationDone, TypeOK
  <2>2. op' \in Pieces \cup {None}
    BY <1>1, <2>1, StartOpType DEF PublicationDone
  <2>3. pc' \in {"poll", pc}
    BY <1>1 DEF PublicationDone
  <2> QED
    BY <1>1, <2>1, <2>2, <2>3 DEF PublicationDone, TypeOK
<1>2. ASSUME NEW k \in 0 .. MaxSegments, NEW damaged \in BOOLEAN, FinishOutput(k, damaged)
      PROVE  TypeOK'
  <2>0. UNCHANGED <<ret, late, pubVars, edgeVars, peerVars, reqVars, workVars, genVars>>
    BY <1>2 DEF FinishOutput
  <2>1. /\ ceiling' \in Nat \cup {None} /\ reserved' = FALSE
        /\ pc' \in {"poll", "sweep", "drain"}
    BY <1>2 DEF FinishOutput, AfterOutput, TypeOK
  <2>2. CASE pending > 0 /\ pending' = pending - 1 /\ sent' = TRUE /\ bare' = FALSE
             /\ UNCHANGED <<reasmVars, disc, taken, gap>>
    <3>1. pending' \in 0 .. MaxSegments - 1
      BY <2>2 DEF TypeOK
    <3> QED
      BY <2>0, <2>1, <2>2, <3>1 DEF TypeOK
  <2>3. CASE UNCHANGED <<reasmVars, disc, pending, seenVars>>
    <3>1. /\ next' = next /\ filled' = filled /\ complete' = complete /\ plain' = plain
          /\ disc' = disc /\ pending' = pending
          /\ taken' = taken /\ gap' = gap /\ sent' = sent /\ bare' = bare
      BY <2>3
    <3>2. disc' \in BOOLEAN /\ gap' \in BOOLEAN /\ sent' \in BOOLEAN /\ bare' \in BOOLEAN
      BY <3>1, Zenon DEF TypeOK
    <3>3. pending' \in 0 .. MaxSegments - 1 /\ taken' \in Pieces \cup {None}
      BY <3>1 DEF TypeOK
    <3> QED
      BY <2>0, <2>1, <3>1, <3>2, <3>3 DEF TypeOK
  <2>4. CASE /\ pending = 0 /\ Demand /\ SkipTo(next + 1) /\ taken' = next
             /\ disc' \in IF damaged /\ k > 0 THEN BOOLEAN
                          ELSE {damaged \/ (k = 0 /\ disc)}
             /\ pending' = Larger(k - 1, 0)
             /\ gap' = (k = 0 /\ Jumped)
             /\ sent' = (sent \/ k > 0)
             /\ bare' = (k > 0 /\ sent /\ Jumped /\ ~disc)
    <3>1. next \in Pieces
      BY <2>4 DEF Demand, TypeOK
    <3>2. next + 1 \in 0 .. MaxPiece + 1
      BY <3>1 DEF Pieces
    <3>3. /\ next' \in 0 .. MaxPiece + 1 /\ filled' \in [Pieces -> SUBSET Chunks]
          /\ complete' \subseteq Pieces /\ plain' \subseteq Pieces
      BY <2>4, <3>2, SkipToType
    <3>4. pending' \in 0 .. MaxSegments - 1
      BY <2>4 DEF Larger
    <3>5. disc' \in BOOLEAN /\ gap' \in BOOLEAN /\ sent' \in BOOLEAN /\ bare' \in BOOLEAN
      BY <2>4 DEF TypeOK
    <3> QED
      BY <2>0, <2>1, <2>4, <3>1, <3>3, <3>4, <3>5 DEF TypeOK
  <2> QED
    BY <1>2, <2>2, <2>3, <2>4 DEF FinishOutput
<1> QED
  BY <1>1, <1>2 DEF Output

\* The session between two pools keeps the types.
LEMMA BetweenTypeOK ==
    ASSUME TypeOK, Between
    PROVE  TypeOK'
<1> USE LivePoolAssumption DEF LivePoolAssumption, turnVars, reasmVars, pubVars, outVars,
        edgeVars, peerVars, reqVars, workVars, genVars, seenVars
<1>1. CASE DrainTurn
  <2>1. op' \in Pieces \cup {None}
    BY <1>1, StartOpType DEF DrainTurn, TypeOK
  <2>2. ceiling' \in Nat \cup {None} /\ reserved' \in BOOLEAN
    BY <1>1 DEF DrainTurn, TypeOK, Demand, None
  <2> QED
    BY <1>1, <2>1, <2>2 DEF DrainTurn, TypeOK
<1>2. CASE Drained
  BY <1>2 DEF Drained, TypeOK
<1>3. ASSUME NEW ws \in Cohorts, NEW A \in SUBSET (DOMAIN ws), NEW U \in SUBSET A,
             Reconnect(ws, A, U)
      PROVE  TypeOK'
  <2>1. PICK n \in 1 .. MaxActive : ws \in [1 .. n -> Windows]
    BY DEF Cohorts
  <2>2. Cardinality(DOMAIN ws) = n /\ DOMAIN ws \subseteq Ids /\ 1 \in DOMAIN ws
    BY <2>1, FS_Interval DEF Ids
  <2>3. \A i \in DOMAIN ws : ws[i] \in [min : Pieces, max : Pieces]
    BY <2>1
  <2>4. NoWindow \in [min : Pieces, max : Pieces]
    BY DEF NoWindow, Pieces
  <2>5. Resume(ws[1]) \in 0 .. MaxPiece + 1
    BY <2>2, <2>3 DEF Resume, Larger, TypeOK, Pieces
  <2>6. /\ next' \in 0 .. MaxPiece + 1 /\ filled' \in [Pieces -> SUBSET Chunks]
        /\ complete' \subseteq Pieces /\ plain' \subseteq Pieces
    BY <1>3, <2>5, SkipToType DEF Reconnect
  <2>7. head' \in Pieces
    BY <1>3, <2>2, <2>3 DEF Reconnect, Larger, TypeOK
  <2>8. Pool(ws, A, U)
    BY <1>3 DEF Reconnect
  <2>9. win' \in [Ids -> [min : Pieces, max : Pieces]] /\ unchoked' \subseteq Ids
    BY <2>2, <2>3, <2>4, <2>8 DEF Pool
  <2>10. wk' \in [Ids -> {"none", "open", "closing", "closed"}] /\ nextId' \in 1 .. MaxId + 1
    BY <2>2, <2>8 DEF Pool
  <2>11. pc' \in {"built", "advance"} /\ ret' \in {"built", ret} /\ late' \in {{}, late}
    BY <2>8 DEF Pool, ThenAdvance
  <2>12. inflight' \in [Ids -> SUBSET Pieces] /\ requested' = {} /\ at' = {}
    BY <1>3 DEF Reconnect
  <2>13. disc' \in BOOLEAN /\ pools' \in Nat
    BY <1>3 DEF Reconnect, TypeOK
  <2> QED
    BY <1>3, <2>6, <2>7, <2>9, <2>10, <2>11, <2>12, <2>13 DEF Reconnect, TypeOK
<1> QED
  BY <1>1, <1>2, <1>3 DEF Between

\* So do the workers and the consumer.
LEMMA WorldTypeOK ==
    ASSUME TypeOK, World
    PROVE  TypeOK'
<1> USE LivePoolAssumption DEF LivePoolAssumption, turnVars, reasmVars, pubVars, outVars,
        edgeVars, peerVars, reqVars, workVars, genVars, seenVars
<1>1. CASE ConsumerGone
  <2>1. /\ wk' \in [Ids -> {"none", "open", "closing", "closed"}]
        /\ cmds' \in [Ids -> 0 .. QueueCap]
    BY <1>1 DEF ConsumerGone
  <2> QED
    BY <1>1, <2>1 DEF ConsumerGone, TypeOK
<1>2. ASSUME NEW i \in Ids, NEW s \in {"closing", "closed"}, WorkerEnds(i, s)
      PROVE  TypeOK'
  <2>1. wk' \in [Ids -> {"none", "open", "closing", "closed"}]
    BY <1>2 DEF WorkerEnds, TypeOK
  <2> QED
    BY <1>2, <2>1 DEF WorkerEnds, TypeOK
<1>3. ASSUME NEW i \in Ids, WorkerSends(i)
      PROVE  TypeOK'
  BY <1>3 DEF WorkerSends, TypeOK
<1> QED
  BY <1>1, <1>2, <1>3 DEF World

\* Every step keeps the types.
LEMMA NextTypeOK == TypeOK /\ [Next]_vars => TypeOK'
<1> SUFFICES ASSUME TypeOK, [Next]_vars PROVE TypeOK'
  OBVIOUS
<1>1. CASE Next
  BY <1>1, TurnTypeOK, EventTypeOK, OutputTypeOK, BetweenTypeOK, WorldTypeOK DEF Next
<1>2. CASE UNCHANGED vars
  BY <1>2 DEF vars, turnVars, reasmVars, pubVars, outVars, edgeVars, peerVars, reqVars,
              workVars, genVars, seenVars, TypeOK
<1> QED
  BY <1>1, <1>2

\* The state of a session is always well typed; in particular no worker's queue
\* holds more commands than it has room for, and no peer gets a generation
\* beyond the bound.
THEOREM LivePoolTypes == Spec => []TypeOK
<1> QED
  BY InitTypeOK, NextTypeOK, PTL DEF Spec

-----------------------------------------------------------------------------
(* The cursor, publication and output.                                     *)

\* The cursor is past everything played and not past anything complete.
Ahead == taken < next /\ \A p \in complete : p >= next

\* A jump of the cursor since the last segment is marked; segments wait only
\* behind one that was sent.
Marked == (sent /\ Jumped => disc) /\ (pending > 0 => sent) /\ ~bare

\* Output that has its permit, or segments left to send, holds the cursor.
Gripped == (reserved => ceiling # None) /\ (pending > 0 => ceiling # None)

SafeInv ==
  /\ Ahead /\ PublicationIsHeld /\ FloorIsBehind /\ CorroborationFirst
  /\ Marked /\ Gripped

\* What a step does that neither plays a piece nor completes one: the cursor may
\* jump when nothing holds it, publication and output move towards their end.
Steady ==
  /\ next' \in Nat /\ next' >= next
  /\ next' # next => ~Hold /\ (sent => disc')
  /\ disc => disc'
  /\ complete' = {p \in complete : p >= next'}
  /\ plain' \subseteq plain
  /\ floor' <= next'
  /\ startup' => startup
  /\ needed' \subseteq needed /\ (op' # None => op' \in needed')
  /\ reserved' => reserved \/ Demand
  /\ ceiling' # None => ceiling # None \/ Demand
  /\ ceiling # None => ceiling' # None
  /\ reserved' => reserved \/ ceiling' # None
  /\ pending' = pending
  /\ taken' = taken /\ gap' = gap /\ sent' = sent /\ bare' = bare

\* A steady step keeps the invariant.
LEMMA SteadySafe ==
    ASSUME TypeOK, SafeInv, Steady
    PROVE  SafeInv'
<1> USE DEF Steady
<1>1. next \in Nat /\ taken \in Int /\ pending \in Int /\ complete \subseteq Int
  BY LivePoolAssumption DEF LivePoolAssumption, TypeOK, Pieces, None
<1>2. Ahead'
  BY <1>1 DEF SafeInv, Ahead
<1>3. PublicationIsHeld'
  <2>1. \A p \in needed' : p \in complete /\ p \notin plain' /\ p >= next'
    BY <1>1 DEF SafeInv, PublicationIsHeld, Hold
  <2> QED
    BY <2>1 DEF PublicationIsHeld
<1>4. FloorIsBehind'
  BY DEF FloorIsBehind
<1>5. CorroborationFirst'
  <2> SUFFICES ASSUME startup' PROVE (~Work /\ complete = {} /\ ~reserved /\ ~sent)'
    BY DEF CorroborationFirst
  <2>1. startup /\ complete = {} /\ ~reserved /\ ~sent /\ ceiling = None /\ ~(pending > 0)
    BY DEF SafeInv, CorroborationFirst, Work
  <2>2. ~Demand
    BY <2>1 DEF Demand
  <2>3. ~reserved' /\ ceiling' = None /\ complete' = {}
    BY <2>1, <2>2
  <2> QED
    BY <2>1, <2>3 DEF Work
<1>6. Marked'
  <2>1. CASE next' = next
    BY <2>1 DEF SafeInv, Marked, Jumped
  <2>2. CASE next' # next
    BY <2>2 DEF SafeInv, Marked, Jumped
  <2> QED
    BY <2>1, <2>2
<1>7. Gripped'
  BY DEF SafeInv, Gripped
<1> QED
  BY <1>2, <1>3, <1>4, <1>5, <1>6, <1>7 DEF SafeInv

\* The catch-up is steady.
LEMMA SkipFarSteady ==
    ASSUME TypeOK, SafeInv, NEW h \in Pieces,
           next' = FarTarget(h), complete' = {p \in complete : p >= FarTarget(h)},
           plain' \subseteq plain,
           floor' = (IF Hold THEN floor ELSE Larger(floor, h - Prefetch)),
           disc' = (disc \/ (FarTarget(h) # next /\ sent)),
           startup' = startup, UNCHANGED <<pubVars, outVars, seenVars>>
    PROVE  Steady
<1> USE DEF pubVars, outVars, seenVars
<1>1. /\ FarTarget(h) \in Nat /\ FarTarget(h) >= next
      /\ Hold => FarTarget(h) = next
      /\ Hold \/ Larger(floor, h - Prefetch) <= FarTarget(h)
  BY FarTargetType, LivePoolAssumption DEF LivePoolAssumption, SafeInv, FloorIsBehind
<1>2. floor' <= next'
  BY <1>1 DEF SafeInv, FloorIsBehind
<1>3. op' # None => op' \in needed'
  BY DEF SafeInv, PublicationIsHeld
<1> QED
  BY <1>1, <1>2, <1>3 DEF Steady

\* So is a step that leaves the session's media alone.
LEMMA QuietSteady ==
    ASSUME TypeOK, SafeInv,
           UNCHANGED <<reasmVars, disc, floor, pending, needed, ceiling, seenVars>>,
           startup' => startup, op' \in {op, None}, reserved' => reserved
    PROVE  Steady
<1> USE DEF reasmVars, seenVars
<1>1. next \in Nat
  BY LivePoolAssumption DEF LivePoolAssumption, TypeOK
<1>2. complete' = {p \in complete : p >= next'}
  BY DEF SafeInv, Ahead
<1>3. op' # None => op' \in needed'
  BY DEF SafeInv, PublicationIsHeld
<1> QED
  BY <1>1, <1>2, <1>3 DEF Steady, SafeInv, FloorIsBehind

\* Starting publication and output, in a turn or between pools, is steady.
LEMMA StartSteady ==
    ASSUME TypeOK, SafeInv, Poll \/ DrainTurn
    PROVE  Steady
<1> USE DEF turnVars, reasmVars, edgeVars, seenVars
<1>1. /\ op' = StartOp(op, needed) /\ reserved' = (reserved \/ Demand)
      /\ ceiling' = (IF ~reserved /\ Demand /\ ceiling = None
                     THEN next + MaxAhead ELSE ceiling)
      /\ UNCHANGED <<reasmVars, needed, pending, disc, edgeVars, seenVars>>
  BY DEF Poll, DrainTurn
<1>2. op' # None => op' \in needed'
  BY <1>1, StartOpType DEF TypeOK, SafeInv, PublicationIsHeld
<1>3. next \in Nat /\ complete' = {p \in complete : p >= next'}
  BY <1>1, LivePoolAssumption DEF LivePoolAssumption, TypeOK, SafeInv, Ahead
<1>4. reserved' => reserved \/ Demand
  BY <1>1
<1>5. ceiling' # None => ceiling # None \/ Demand
  BY <1>1
<1>6. next' >= next /\ floor' <= next'
  BY <1>1, <1>3 DEF SafeInv, FloorIsBehind
<1>7. next + MaxAhead # None
  BY <1>3, LivePoolAssumption DEF LivePoolAssumption, None
<1>8. (ceiling # None => ceiling' # None) /\ (reserved' => reserved \/ ceiling' # None)
  BY <1>1, <1>7
<1> HIDE DEF Demand
<1> QED
  BY <1>1, <1>2, <1>3, <1>4, <1>5, <1>6, <1>8 DEF Steady

\* So is every step of the actor's own loop.
LEMMA TurnSteady ==
    ASSUME TypeOK, SafeInv, Turn
    PROVE  Steady
<1> USE DEF turnVars, reasmVars, pubVars, outVars, edgeVars, seenVars
<1>1. CASE Advance
  BY <1>1, SkipFarSteady DEF Advance, SkipFar, SkipTo, TypeOK
<1>2. CASE Poll
  BY <1>2, StartSteady
<1>3. CASE Deadline \/ Stale \/ Release \/ Tick
  BY <1>3, QuietSteady DEF Deadline, Stale, Release, Tick, EndPool
<1>4. CASE Settle
  BY <1>4, QuietSteady DEF Settle, EndPool
<1>5. ASSUME NEW stuck \in BOOLEAN, NEW T \in SUBSET at, Retransmit(T, stuck)
      PROVE  Steady
  <2>1. CASE ~stuck
    BY <1>5, <2>1, SkipFarSteady DEF Retransmit, SkipTo, TypeOK
  <2>2. CASE stuck
    <3> DEFINE mins == {win[i].min : i \in Serving}
               n == Least(mins)
    <3>0. /\ Serving # {} /\ ~Hold /\ FarTarget(head) = next
          /\ \A i \in Serving : win[i].min \in Pieces /\ win[i].min > next
      BY <1>5, <2>2 DEF Retransmit, Evicted, Serving, Peers, TypeOK
    <3>1. mins \in SUBSET Pieces /\ mins # {} /\ \A m \in mins : m > next
      BY <3>0, Zenon
    <3>2. n \in Nat /\ n > next
      BY <3>1, LeastIs DEF Pieces
    <3>3. /\ next' = n /\ complete' = {p \in complete : p >= n} /\ plain' \subseteq plain
          /\ floor' = Larger(floor, head - Prefetch)
          /\ disc' = (disc \/ (n # next /\ (stuck \/ sent)))
          /\ UNCHANGED <<pubVars, outVars, head, startup, seenVars>>
      BY <1>5, <2>2, <3>0 DEF Retransmit, SkipTo
    <3>4. Larger(floor, head - Prefetch) <= next
      BY <3>0, FarTargetType DEF TypeOK, SafeInv, FloorIsBehind
    <3>5. next \in Nat /\ Larger(floor, head - Prefetch) \in Int
      <4>1. head \in Pieces /\ next \in Nat
        BY LivePoolAssumption DEF LivePoolAssumption, TypeOK
      <4>2. Larger(floor, head - Prefetch) \in Pieces
        BY <4>1, FarTargetType
      <4> QED
        BY <4>1, <4>2, LivePoolAssumption DEF LivePoolAssumption, Pieces
    <3>6. floor' <= next' /\ next' >= next /\ next' \in Nat
      BY <3>2, <3>3, <3>4, <3>5
    <3>7. op' # None => op' \in needed'
      BY <3>3 DEF SafeInv, PublicationIsHeld
    <3> QED
      BY <2>2, <3>0, <3>3, <3>6, <3>7 DEF Steady
  <2> QED
    BY <2>1, <2>2
<1> QED
  BY <1>1, <1>2, <1>3, <1>4, <1>5 DEF Turn

\* And every event but a chunk the reassembler takes.
LEMMA EventSteady ==
    ASSUME TypeOK, SafeInv, Event
    PROVE  \/ Steady
           \/ \E i \in Ids : \E p \in Pieces, c \in Chunks :
                \E kind \in Kinds : ChunkTaken(i, p, c, kind)
<1> USE DEF turnVars, reasmVars, pubVars, outVars, edgeVars, reqVars, seenVars
<1>1. ASSUME NEW i \in Ids, Unchoke(i) \/ Choke(i) \/ Lost(i) \/ Reply(i)
      PROVE  Steady
  BY <1>1, QuietSteady DEF Unchoke, Choke, Lost, Reply
<1>2. ASSUME NEW i \in Ids, NEW h \in Pieces, Have(i, h)
      PROVE  Steady
  BY <1>2, QuietSteady DEF Have
<1>3. ASSUME NEW D \in SUBSET Ids, LostRest(D)
      PROVE  Steady
  BY <1>3, QuietSteady DEF LostRest, EndPool
<1>4. ASSUME NEW i \in Ids, NEW p \in Pieces, NEW c \in Chunks, ChunkSkipped(i, p, c)
      PROVE  Steady
  BY <1>4, SkipFarSteady DEF ChunkSkipped, SkipFar, SkipTo, TypeOK
<1>5. ASSUME NEW i \in Ids, NEW p \in Pieces, NEW c \in Chunks, NEW kind \in Kinds,
             ChunkRefused(i, p, c, kind)
      PROVE  Steady
  BY <1>5, SkipFarSteady DEF ChunkRefused, TypeOK
<1>6. ASSUME NEW w \in Windows, Corroborate(w)
      PROVE  Steady
  BY <1>6, QuietSteady DEF Corroborate
<1>7. ASSUME NEW w \in Windows, Receive(w)
      PROVE  Steady
  <2>1. head' \in Pieces
    BY <1>7, LivePoolAssumption DEF LivePoolAssumption, Receive, Larger, TypeOK
  <2> QED
    BY <1>7, <2>1, SkipFarSteady DEF Receive, SkipFar, SkipTo
<1>8. ASSUME NEW w \in Windows, NEW u \in BOOLEAN, NEW gone \in SUBSET Ids, Admit(w, u, gone)
      PROVE  Steady
  BY <1>8, QuietSteady DEF Admit
<1> QED
  BY <1>1, <1>2, <1>3, <1>4, <1>5, <1>6, <1>7, <1>8 DEF Event

\* And every step between two pools, of a worker or of the consumer.
LEMMA OutsideSteady ==
    ASSUME TypeOK, SafeInv, Between \/ World
    PROVE  Steady
<1> USE DEF turnVars, reasmVars, pubVars, outVars, edgeVars, seenVars
<1>1. CASE DrainTurn
  BY <1>1, StartSteady
<1>2. CASE Drained \/ ConsumerGone
  BY <1>2, QuietSteady DEF Drained, ConsumerGone
<1>3. ASSUME NEW ws \in Cohorts, NEW A \in SUBSET (DOMAIN ws), NEW U \in SUBSET A,
             Reconnect(ws, A, U)
      PROVE  Steady
  <2> DEFINE n == Resume(ws[1])
  <2>1. PICK m \in 1 .. MaxActive : ws \in [1 .. m -> Windows]
    BY DEF Cohorts
  <2>2. ws[1].min \in Pieces
    BY <2>1, LivePoolAssumption DEF LivePoolAssumption
  <2>3. n \in Nat /\ n >= next /\ (Hold => n = next) /\ next \in Nat /\ floor \in Nat
    BY <2>2, LivePoolAssumption DEF LivePoolAssumption, Resume, Larger, TypeOK, Pieces
  <2>4. /\ next' = n /\ complete' = {p \in complete : p >= n} /\ plain' \subseteq plain
        /\ disc' = (disc \/ n # next) /\ floor' = floor
        /\ UNCHANGED <<pubVars, outVars, startup, seenVars>>
    BY <1>3 DEF Reconnect, SkipTo
  <2>5. floor' <= next' /\ (op' # None => op' \in needed')
    BY <2>3, <2>4 DEF SafeInv, FloorIsBehind, PublicationIsHeld
  <2> QED
    BY <2>3, <2>4, <2>5 DEF Steady
<1>4. ASSUME NEW i \in Ids, NEW s \in {"closing", "closed"}, WorkerEnds(i, s)
      PROVE  Steady
  BY <1>4, QuietSteady DEF WorkerEnds
<1>5. ASSUME NEW i \in Ids, WorkerSends(i)
      PROVE  Steady
  BY <1>5, QuietSteady DEF WorkerSends
<1> QED
  BY <1>1, <1>2, <1>3, <1>4, <1>5 DEF Between, World

\* And the end of a publication.
LEMMA PublicationSteady ==
    ASSUME TypeOK, SafeInv, PublicationDone
    PROVE  Steady
<1> USE DEF turnVars, reasmVars, outVars, edgeVars, seenVars
<1>1. /\ needed' \subseteq needed /\ op' = StartOp(None, needed')
      /\ UNCHANGED <<reasmVars, outVars, disc, edgeVars, seenVars>>
  BY DEF PublicationDone
<1>2. op' # None => op' \in needed'
  BY <1>1, StartOpType DEF TypeOK
<1>3. next \in Nat /\ complete' = {p \in complete : p >= next'}
  BY <1>1, LivePoolAssumption DEF LivePoolAssumption, TypeOK, SafeInv, Ahead
<1> QED
  BY <1>1, <1>2, <1>3 DEF Steady, SafeInv, FloorIsBehind

\* A chunk that is taken leaves pending output and history alone; a piece it
\* completes is owed only if it is whole and fit.
LEMMA TakenSafe ==
    ASSUME TypeOK, SafeInv, NEW i \in Ids, NEW p \in Pieces, NEW c \in Chunks, NEW kind,
           ChunkTaken(i, p, c, kind)
    PROVE  SafeInv'
<1> USE DEF outVars, seenVars
<1> DEFINE n == FarTarget(head)
           got == IF p \in complete THEN {} ELSE filled[p] \cup {c}
           done == p \notin complete /\ got = Chunks
           odd == p \notin complete /\ kind = "odd"
           fit == (done \/ p \in complete) /\ p \notin plain /\ ~odd
<1>1. /\ next' = n /\ Wanted(p, n)
      /\ complete' = {r \in complete : r >= n} \cup (IF done THEN {p} ELSE {})
      /\ plain' = {r \in plain : r >= n} \cup (IF odd THEN {p} ELSE {})
      /\ needed' = needed \cup (IF done /\ fit /\ Publishable THEN {p} ELSE {})
      /\ op' = StartOp(op, needed')
      /\ floor' = (IF Hold THEN floor ELSE Larger(floor, head - Prefetch))
      /\ disc' = (disc \/ (n # next /\ sent))
      /\ UNCHANGED <<outVars, startup, seenVars>>
  BY Zenon DEF ChunkTaken
<1>2. /\ n \in Nat /\ n >= next /\ (Hold => n = next)
      /\ Hold \/ Larger(floor, head - Prefetch) <= n
  BY FarTargetType, LivePoolAssumption
     DEF LivePoolAssumption, TypeOK, SafeInv, FloorIsBehind
<1>3. /\ next \in Nat /\ taken \in Int /\ complete \subseteq Int /\ p \in Int
      /\ needed' \subseteq Pieces
  BY <1>1, LivePoolAssumption DEF LivePoolAssumption, TypeOK, Pieces, None
<1>4. p >= n /\ ~startup
  BY <1>1 DEF Wanted
<1> HIDE DEF n, got
<1>5. Ahead'
  BY <1>1, <1>2, <1>3, <1>4 DEF SafeInv, Ahead
<1>6. PublicationIsHeld'
  <2>1. op' # None => op' \in needed'
    BY <1>1, <1>3, StartOpType DEF TypeOK, SafeInv, PublicationIsHeld
  <2>2. ASSUME NEW r \in needed'
        PROVE  r \in complete' /\ r \notin plain' /\ r >= next'
    <3>1. CASE r \in needed
      <4>1. r \in complete /\ r \notin plain /\ r >= next /\ n = next
        BY <3>1, <1>2 DEF SafeInv, PublicationIsHeld, Hold
      <4> QED
        BY <4>1, <1>1
    <3>2. CASE r \notin needed
      <4>1. r = p /\ done /\ fit
        BY <3>2, <2>2, <1>1
      <4> QED
        BY <4>1, <1>1, <1>4
    <3> QED
      BY <3>1, <3>2
  <2> QED
    BY <2>1, <2>2 DEF PublicationIsHeld
<1>7. FloorIsBehind'
  BY <1>1, <1>2 DEF SafeInv, FloorIsBehind
<1>8. CorroborationFirst'
  BY <1>1, <1>4 DEF CorroborationFirst
<1>9. Marked'
  <2>1. CASE n = next
    BY <2>1, <1>1 DEF SafeInv, Marked, Jumped
  <2>2. CASE n # next
    BY <2>2, <1>1 DEF SafeInv, Marked, Jumped
  <2> QED
    BY <2>1, <2>2
<1>10. Gripped'
  BY <1>1 DEF SafeInv, Gripped
<1> QED
  BY <1>5, <1>6, <1>7, <1>8, <1>9, <1>10 DEF SafeInv

\* A step of the consumer's side that takes a piece: the piece at the cursor,
\* complete, with nothing owed to publication.
Plays ==
  /\ taken' = next /\ next' = next + 1
  /\ complete' = {p \in complete : p >= next + 1}
  /\ next \in complete /\ needed = {} /\ needed' = {} /\ op' = op
  /\ ~startup /\ ~startup'

\* Output either plays the piece at the cursor or leaves the pieces alone, and
\* keeps the invariant.
LEMMA FinishSafe ==
    ASSUME TypeOK, SafeInv, NEW k \in 0 .. MaxSegments, NEW damaged \in BOOLEAN,
           FinishOutput(k, damaged)
    PROVE  /\ SafeInv'
           /\ Plays \/ (taken' = taken /\ complete' = complete /\ next' = next)
<1> USE LivePoolAssumption DEF LivePoolAssumption, reasmVars, pubVars, edgeVars, seenVars
<1>0. /\ next \in Nat /\ taken \in Int /\ complete \subseteq Int /\ pending \in Int
      /\ floor \in Int
  BY DEF TypeOK, Pieces, None
<1>1. /\ reserved /\ UNCHANGED <<pubVars, edgeVars>>
      /\ ~startup /\ ~startup'
  BY DEF FinishOutput, SafeInv, CorroborationFirst
<1>2. CorroborationFirst'
  BY <1>1 DEF CorroborationFirst
<1>3. Gripped'
  <2>1. ~reserved' /\ ceiling # None
    BY DEF FinishOutput, SafeInv, Gripped
  <2>2. pending' \in Int
    BY OutputTypeOK DEF Output, TypeOK
  <2>3. pending' > 0 => ceiling' = ceiling
    BY <1>0, <2>2 DEF FinishOutput, AfterOutput, SafeInv, Gripped, Larger, Demand
  <2> QED
    BY <2>1, <2>3 DEF Gripped
<1>4. CASE /\ pending > 0 /\ pending' = pending - 1 /\ sent' = TRUE /\ bare' = FALSE
           /\ UNCHANGED <<reasmVars, disc, taken, gap>>
  <2>1. Ahead' /\ FloorIsBehind' /\ PublicationIsHeld'
    BY <1>1, <1>4 DEF SafeInv, Ahead, FloorIsBehind, PublicationIsHeld
  <2>2. Marked'
    BY <1>4 DEF SafeInv, Marked, Jumped
  <2> QED
    BY <1>2, <1>3, <1>4, <2>1, <2>2 DEF SafeInv
<1>5. CASE UNCHANGED <<reasmVars, disc, pending, seenVars>>
  <2>1. Ahead' /\ FloorIsBehind' /\ PublicationIsHeld'
    BY <1>1, <1>5 DEF SafeInv, Ahead, FloorIsBehind, PublicationIsHeld
  <2>2. Marked'
    BY <1>5 DEF SafeInv, Marked, Jumped
  <2> QED
    BY <1>2, <1>3, <1>5, <2>1, <2>2 DEF SafeInv
<1>6. CASE /\ pending = 0 /\ Demand /\ SkipTo(next + 1) /\ taken' = next
           /\ disc' \in IF damaged /\ k > 0 THEN BOOLEAN
                        ELSE {damaged \/ (k = 0 /\ disc)}
           /\ pending' = Larger(k - 1, 0)
           /\ gap' = (k = 0 /\ Jumped)
           /\ sent' = (sent \/ k > 0)
           /\ bare' = (k > 0 /\ sent /\ Jumped /\ ~disc)
  <2>1. next' = next + 1 /\ complete' = {p \in complete : p >= next + 1}
    BY <1>6 DEF SkipTo
  <2>2. next \in complete /\ needed = {}
    BY <1>0, <1>6 DEF Demand
  <2>3. op = None /\ op' = op /\ needed' = {}
    BY <1>1, <2>2 DEF SafeInv, PublicationIsHeld
  <2>4. Ahead' /\ FloorIsBehind' /\ PublicationIsHeld'
    BY <1>0, <1>1, <1>6, <2>1, <2>3 DEF SafeInv, Ahead, FloorIsBehind, PublicationIsHeld
  <2>5. Marked'
    <3>0. Jumped' => gap'
      <4>1. ~(next' > taken' + 1)
        BY <1>0, <1>6, <2>1
      <4> QED
        BY <4>1 DEF Jumped
    <3>1. CASE k = 0
      <4>1. Jumped' => Jumped
        BY <1>6, <3>0, Zenon
      <4>2. pending' = 0 /\ ~(k > 0)
        BY <1>6, <3>1 DEF Larger
      <4>3. (sent' => sent) /\ ~bare' /\ (disc => disc')
        BY <1>6, <3>1, <4>2, Zenon
      <4> QED
        BY <4>1, <4>2, <4>3 DEF SafeInv, Marked
    <3>2. CASE k > 0
      <4>0. k # 0
        BY <3>2
      <4>1. ~Jumped'
        BY <1>6, <3>0, <4>0, Zenon
      <4>2. sent' /\ ~bare'
        BY <1>6, <3>2 DEF SafeInv, Marked
      <4> QED
        BY <4>1, <4>2 DEF Marked
    <3> QED
      BY <3>1, <3>2
  <2> QED
    BY <1>1, <1>2, <1>3, <1>6, <2>1, <2>2, <2>3, <2>4, <2>5 DEF SafeInv, Plays
<1> QED
  BY <1>4, <1>5, <1>6 DEF FinishOutput

\* The invariant holds initially.
LEMMA InitSafe == Init => SafeInv
<1> SUFFICES ASSUME Init PROVE SafeInv
  OBVIOUS
<1>1. /\ complete = {} /\ needed = {} /\ op = None /\ ceiling = None /\ reserved = FALSE
      /\ pending = 0 /\ taken = None /\ sent = FALSE /\ bare = FALSE /\ floor = next
  BY DEF Init
<1>2. next \in Nat
  BY InitTypeOK, LivePoolAssumption DEF LivePoolAssumption, TypeOK
<1>3. Ahead /\ FloorIsBehind
  BY <1>1, <1>2 DEF Ahead, FloorIsBehind, None
<1>4. PublicationIsHeld /\ Marked /\ Gripped
  BY <1>1 DEF PublicationIsHeld, Marked, Gripped
<1>5. CorroborationFirst
  BY <1>1 DEF CorroborationFirst, Work
<1> QED
  BY <1>3, <1>4, <1>5 DEF SafeInv

\* Every step keeps it, and loses or plays pieces only as it should.
LEMMA NextSafe ==
    ASSUME TypeOK, SafeInv, [Next]_vars
    PROVE  /\ SafeInv' /\ next' >= next
           /\ taken' # taken => taken' > taken /\ taken' = next /\ taken' \in complete \ needed
           /\ \A p \in complete \ complete' : p = taken' \/ ~Hold
<1>0. /\ next \in Nat /\ taken \in Int /\ taken < next
      /\ \A p \in complete : p \in Int /\ p >= next
  BY LivePoolAssumption DEF LivePoolAssumption, TypeOK, Pieces, None, SafeInv, Ahead
<1>1. CASE Steady
  <2>1. SafeInv' /\ taken' = taken /\ next' >= next
    BY <1>1, SteadySafe DEF Steady
  <2>2. \A p \in complete \ complete' : ~Hold
    BY <1>0, <1>1 DEF Steady
  <2> QED
    BY <2>1, <2>2
<1>2. ASSUME NEW i \in Ids, NEW p \in Pieces, NEW c \in Chunks, NEW kind \in Kinds,
             ChunkTaken(i, p, c, kind)
      PROVE  /\ SafeInv' /\ taken' = taken /\ next' >= next
             /\ \A r \in complete \ complete' : ~Hold
  <2>1. SafeInv' /\ taken' = taken
    BY <1>2, TakenSafe DEF ChunkTaken, seenVars
  <2>2. head \in Pieces
    BY DEF TypeOK
  <2>3. {r \in complete : r >= FarTarget(head)} \subseteq complete'
    BY <1>2, Zenon DEF ChunkTaken
  <2>4. (Hold => FarTarget(head) = next) /\ FarTarget(head) >= next
    BY <2>2, FarTargetType
  <2>5. next' = FarTarget(head)
    BY <1>2 DEF ChunkTaken
  <2> QED
    BY <1>0, <2>1, <2>3, <2>4, <2>5
<1>3. ASSUME NEW k \in 0 .. MaxSegments, NEW damaged \in BOOLEAN, FinishOutput(k, damaged)
      PROVE  /\ SafeInv' /\ next' >= next
             /\ taken' # taken => taken' > taken /\ taken' = next /\ taken' \in complete \ needed
             /\ \A p \in complete \ complete' : p = taken' \/ ~Hold
  <2>1. SafeInv' /\ (Plays \/ (taken' = taken /\ complete' = complete /\ next' = next))
    BY <1>3, FinishSafe
  <2>2. CASE Plays
    <3>1. \A p \in complete \ complete' : p = taken'
      BY <1>0, <2>2 DEF Plays
    <3> QED
      BY <1>0, <2>1, <2>2, <3>1 DEF Plays
  <2> QED
    BY <1>0, <2>1, <2>2
<1>4. CASE UNCHANGED vars
  <2>1. Steady
    BY <1>4, QuietSteady DEF vars, pubVars, outVars, edgeVars
  <2> QED
    BY <2>1, <1>1
<1>5. CASE Next
  <2>1. CASE Turn \/ Between \/ World
    BY <2>1, <1>1, TurnSteady, OutsideSteady
  <2>2. CASE Event
    BY <2>2, <1>1, <1>2, EventSteady
  <2>3. CASE Output
    BY <2>3, <1>1, <1>3, PublicationSteady DEF Output
  <2> QED
    BY <1>5, <2>1, <2>2, <2>3 DEF Next
<1> QED
  BY <1>4, <1>5

\* The inductive invariant of a session.
THEOREM SessionInvariant == Spec => [](TypeOK /\ SafeInv)
<1>1. TypeOK /\ SafeInv /\ [Next]_vars => (TypeOK /\ SafeInv)'
  BY NextTypeOK, NextSafe
<1> QED
  BY InitTypeOK, InitSafe, <1>1, PTL DEF Spec

\* What publication works on is always there.
THEOREM PublicationHeld == Spec => []PublicationIsHeld
<1>1. SafeInv => PublicationIsHeld
  BY DEF SafeInv
<1> QED
  BY SessionInvariant, <1>1, PTL

\* The floor below which workers drop requests never passes the cursor.
THEOREM FloorBehind == Spec => []FloorIsBehind
<1>1. SafeInv => FloorIsBehind
  BY DEF SafeInv
<1> QED
  BY SessionInvariant, <1>1, PTL

\* Nothing is assembled or sent before corroboration or its deadline.
THEOREM Corroborated == Spec => []CorroborationFirst
<1>1. SafeInv => CorroborationFirst
  BY DEF SafeInv
<1> QED
  BY SessionInvariant, <1>1, PTL

\* No segment hides a gap from the consumer.
THEOREM GapsMarked == Spec => []GapsAreMarked
<1>1. SafeInv => GapsAreMarked
  BY DEF SafeInv, Marked, GapsAreMarked
<1> QED
  BY SessionInvariant, <1>1, PTL

\* Pieces are played in order, once, and only when publication is done with them.
THEOREM PlaysInOrder == Spec => OutputInOrder
<1>1. TypeOK /\ SafeInv /\ [Next]_vars =>
        [taken' # taken => taken' > taken /\ taken' = next /\ taken' \in complete \ needed]_vars
  BY NextSafe
<1> QED
  BY SessionInvariant, <1>1, PTL DEF Spec, OutputInOrder

\* Accepted media is never thrown away while playback holds.
THEOREM KeepsAccepted == Spec => AcceptedIsKept
<1>1. TypeOK /\ SafeInv /\ [Next]_vars =>
        [\A p \in complete \ complete' : p = taken' \/ ~Hold]_vars
  BY NextSafe
<1> QED
  BY SessionInvariant, <1>1, PTL DEF Spec, AcceptedIsKept

\* Both together: playback neither repeats, reorders nor drops what was accepted.
THEOREM KeepsOutput == Spec => OutputIsKept
<1> QED
  BY PlaysInOrder, KeepsAccepted DEF OutputIsKept

-----------------------------------------------------------------------------
(* The session is an ordered feed.                                         *)

\* A step that plays nothing is a skip between two pieces, a mark, or nothing
\* that the consumer could tell.
LEMMA MoveFeeds ==
    ASSUME TypeOK, TypeOK', SafeInv, next' >= next,
           next' # next => ~Hold /\ (sent => disc'),
           disc => disc', UNCHANGED <<pending, taken, gap, sent>>
    PROVE  [Feed!FeedNext]_(Feed!feedVars)
<1>1. /\ next \in Int /\ next' \in Int /\ taken \in Int /\ taken >= -1 /\ pending \in Nat
      /\ disc \in BOOLEAN /\ disc' \in BOOLEAN
  BY LivePoolAssumption DEF LivePoolAssumption, TypeOK, Pieces, None
<1>2. CASE next' # next
  <2>1. pending = 0
    BY <1>1, <1>2 DEF SafeInv, Gripped, Hold
  <2>2. Jumped' <=> Jumped \/ taken >= 0
    BY <1>1, <1>2 DEF Jumped, None, SafeInv, Ahead
  <2>3. Jumped' = (Jumped \/ taken >= 0)
    BY <2>2 DEF Jumped, TypeOK
  <2>4. next' > next /\ (disc \/ sent => disc')
    BY <1>1, <1>2
  <2> QED
    BY <1>1, <2>1, <2>3, <2>4 DEF Feed!FeedNext, Feed!Skip
<1>3. CASE next' = next /\ disc' = disc
  BY <1>3 DEF Feed!feedVars, Jumped
<1>4. CASE next' = next /\ disc' # disc
  <2>1. ~disc /\ disc' = TRUE
    BY <1>1, <1>4
  <2>2. Jumped' = Jumped
    BY <1>4 DEF Jumped
  <2> QED
    BY <1>4, <2>1, <2>2 DEF Feed!FeedNext, Feed!Mark
<1> QED
  BY <1>2, <1>3, <1>4

\* A step of the output plays a piece, sends the next segment of one, or
\* changes nothing that the consumer could tell.
LEMMA OutputFeeds ==
    ASSUME TypeOK, TypeOK', SafeInv, NEW k \in 0 .. MaxSegments, NEW damaged \in BOOLEAN,
           FinishOutput(k, damaged)
    PROVE  [Feed!FeedNext]_(Feed!feedVars)
<1> USE DEF reasmVars, seenVars
<1>1. /\ next \in Nat /\ taken \in Int /\ pending \in Nat /\ pending' \in Nat
      /\ disc \in BOOLEAN /\ disc' \in BOOLEAN /\ sent \in BOOLEAN /\ k \in Nat
  BY LivePoolAssumption DEF LivePoolAssumption, TypeOK, Pieces, None
<1>2. CASE /\ pending > 0 /\ pending' = pending - 1 /\ sent' = TRUE
           /\ UNCHANGED <<reasmVars, disc, taken, gap>>
  <2>1. sent = TRUE /\ Jumped' = Jumped
    BY <1>1, <1>2 DEF SafeInv, Marked, Jumped
  <2> QED
    BY <1>2, <2>1 DEF Feed!FeedNext, Feed!Send
<1>3. CASE UNCHANGED <<reasmVars, disc, pending, seenVars>>
  BY <1>3 DEF Feed!feedVars, Jumped
<1>4. CASE /\ pending = 0 /\ SkipTo(next + 1) /\ taken' = next
           /\ disc' \in IF damaged /\ k > 0 THEN BOOLEAN
                        ELSE {damaged \/ (k = 0 /\ disc)}
           /\ pending' = Larger(k - 1, 0)
           /\ gap' = (k = 0 /\ Jumped)
           /\ sent' = (sent \/ k > 0)
  <2>1. next' = next + 1 /\ taken' = next /\ ~(next' > taken' + 1)
    BY <1>1, <1>4 DEF SkipTo
  <2>2. Jumped' = gap'
    BY <1>4, <2>1 DEF Jumped
  <2>3. CASE k = 0
    <3>1. sent' = sent /\ pending' = pending /\ Jumped' = Jumped /\ (disc => disc')
      BY <1>1, <1>4, <2>2, <2>3 DEF Larger, Jumped, TypeOK
    <3> QED
      BY <1>1, <1>4, <2>1, <3>1 DEF Feed!FeedNext, Feed!Swallow
  <2>4. CASE k > 0
    <3>0. k # 0
      BY <2>4
    <3>1. sent' = TRUE /\ Jumped' = FALSE
      BY <1>4, <2>2, <2>4, <3>0, Zenon
    <3>2. sent /\ Jumped => disc
      BY DEF SafeInv, Marked
    <3> QED
      BY <1>1, <1>4, <2>1, <3>1, <3>2 DEF Feed!FeedNext, Feed!Play
  <2> QED
    BY <1>1, <2>3, <2>4
<1> QED
  BY <1>2, <1>3, <1>4 DEF FinishOutput

\* Whatever a session does, its consumer sees a step of the feed or none.
LEMMA NextFeeds ==
    ASSUME TypeOK, SafeInv, [Next]_vars
    PROVE  [Feed!FeedNext]_(Feed!feedVars)
<1>0. TypeOK'
  BY NextTypeOK
<1>1. CASE Steady
  BY <1>0, <1>1, MoveFeeds DEF Steady
<1>2. ASSUME NEW i \in Ids, NEW p \in Pieces, NEW c \in Chunks, NEW kind \in Kinds,
             ChunkTaken(i, p, c, kind)
      PROVE  [Feed!FeedNext]_(Feed!feedVars)
  <2>1. /\ next' = FarTarget(head) /\ disc' = (disc \/ (FarTarget(head) # next /\ sent))
        /\ UNCHANGED <<outVars, seenVars>>
    BY <1>2, Zenon DEF ChunkTaken
  <2>2. (Hold => FarTarget(head) = next) /\ FarTarget(head) >= next
    BY FarTargetType DEF TypeOK
  <2> QED
    BY <1>0, <2>1, <2>2, MoveFeeds DEF outVars, seenVars
<1>3. ASSUME NEW k \in 0 .. MaxSegments, NEW damaged \in BOOLEAN, FinishOutput(k, damaged)
      PROVE  [Feed!FeedNext]_(Feed!feedVars)
  BY <1>0, <1>3, OutputFeeds
<1>4. CASE UNCHANGED vars
  BY <1>1, <1>4, QuietSteady DEF vars, pubVars, outVars, edgeVars
<1>5. CASE Next
  <2>1. CASE Turn \/ Between \/ World
    BY <2>1, <1>1, TurnSteady, OutsideSteady
  <2>2. CASE Event
    BY <2>2, <1>1, <1>2, EventSteady
  <2>3. CASE Output
    BY <2>3, <1>1, <1>3, PublicationSteady DEF Output
  <2> QED
    BY <1>5, <2>1, <2>2, <2>3 DEF Next
<1> QED
  BY <1>4, <1>5

\* A session implements the ordered feed: over lost peers, rebuilt pools, skips
\* and damaged pieces, its consumer gets pieces in order, none twice, and a
\* marked segment after every gap, never a gap inside a piece.
THEOREM SessionFeeds == Spec => SessionIsFeed
<1>1. Init => Feed!FeedInit
  <2>1. Init => next \in Nat
    BY InitTypeOK, LivePoolAssumption DEF LivePoolAssumption, TypeOK
  <2> QED
    BY <2>1 DEF Init, Feed!FeedInit, Jumped, None
<1>2. TypeOK /\ SafeInv /\ [Next]_vars => [Feed!FeedNext]_(Feed!feedVars)
  BY NextFeeds
<1> QED
  BY SessionInvariant, <1>1, <1>2, PTL DEF Spec, SessionIsFeed, Feed!FeedSpec

-----------------------------------------------------------------------------
(* Requests and slots.                                                     *)

ReqInv == RequestsAreOwned /\ SlotsAreBounded

\* What a step does that asks for nothing: slots are only given up, and a piece
\* that stays requested keeps its timer and its owner.
Yields ==
  /\ InPool' => InPool
  /\ \A i \in Ids : inflight'[i] \subseteq inflight[i]
  /\ \A p \in requested' : p >= next' =>
       /\ p \in requested /\ (p \in at => p \in at')
       /\ \A i \in Peers : p \in inflight[i] => i \in Peers' /\ p \in inflight'[i]

\* Giving up slots bounds them.
LEMMA FewerSlots ==
    ASSUME TypeOK, SlotsAreBounded, \A i \in Ids : inflight'[i] \subseteq inflight[i]
    PROVE  SlotsAreBounded'
<1> SUFFICES ASSUME NEW i \in Ids
             PROVE  Cardinality(inflight'[i]) <= MaxInFlight
  BY DEF SlotsAreBounded
<1>1. inflight[i] \in SUBSET Pieces /\ inflight'[i] \in SUBSET Pieces
  BY DEF TypeOK
<1>2. IsFiniteSet(inflight[i]) /\ Cardinality(inflight[i]) \in Nat
      /\ Cardinality(inflight'[i]) \in Nat
  BY <1>1, Finite
<1>3. Cardinality(inflight'[i]) <= Cardinality(inflight[i])
  BY <1>2, FS_Subset
<1> QED
  BY <1>2, <1>3, LivePoolAssumption DEF LivePoolAssumption, SlotsAreBounded

\* A step that yields keeps both invariants.
LEMMA YieldsSafe ==
    ASSUME TypeOK, TypeOK', next' >= next, ReqInv, Yields
    PROVE  ReqInv'
<1>1. SlotsAreBounded'
  BY FewerSlots DEF ReqInv, Yields
<1>2. ASSUME InPool', NEW p \in requested', p >= next'
      PROVE  p \in at' /\ \E i \in Peers' : p \in inflight'[i]
  <2>1. next \in Int /\ next' \in Int /\ p \in Int
    BY LivePoolAssumption DEF LivePoolAssumption, TypeOK, Pieces
  <2>2. p >= next
    BY <1>2, <2>1
  <2>3. p \in requested /\ (p \in at => p \in at')
        /\ \A i \in Peers : p \in inflight[i] => i \in Peers' /\ p \in inflight'[i]
    BY <1>2 DEF Yields
  <2>4. p \in at /\ \E i \in Peers : p \in inflight[i]
    BY <1>2, <2>2, <2>3 DEF Yields, ReqInv, RequestsAreOwned
  <2> QED
    BY <2>3, <2>4
<1>3. RequestsAreOwned'
  BY <1>2 DEF RequestsAreOwned
<1> QED
  BY <1>1, <1>3 DEF ReqInv

\* A jump of the cursor takes slots and timers only behind it.
LEMMA PrunedKeeps ==
    ASSUME TypeOK, NEW n \in Nat, NEW p, p >= n
    PROVE  /\ p \in at => p \in Timers(n)
           /\ \A i \in Ids : p \in inflight[i] => p \in Pruned(n)[i]
  BY DEF TypeOK, Timers, Pruned

\* A step that touches neither requests nor which workers there are yields.
LEMMA QuietYields ==
    ASSUME InPool' => InPool, UNCHANGED reqVars, Peers' = Peers
    PROVE  Yields
  BY DEF Yields, reqVars

\* Assigning a batch asks only what has no owner, of workers that are there, and
\* within their slots.
LEMMA AssignSafe ==
    ASSUME TypeOK, TypeOK', ReqInv, NEW n \in Nat, n >= next, next' = n, Assign(n), InPool
    PROVE  ReqInv'
<1> DEFINE req == {p \in requested : p >= n}
           given(b, i) == IF wk[i] = "open" THEN Chosen(b, i) ELSE {}
           all(b) == UNION {given(b, i) : i \in Ids}
<1>1. PICK b \in Batches(n, Pruned(n), req) :
        /\ inflight' = [i \in Ids |-> (Pruned(n)[i] \ Chosen(b, i)) \cup given(b, i)]
        /\ requested' = req \cup all(b)
        /\ at' = Timers(n) \cup all(b)
        /\ wk' = [i \in Ids |->
              IF wk[i] = "closing" /\ Chosen(b, i) # {} THEN "closed" ELSE wk[i]]
  BY Zenon DEF Assign
<1>2. /\ Pruned(n) \in [Ids -> SUBSET Pieces]
      /\ \A i \in Ids : Pruned(n)[i] \subseteq inflight[i] /\ inflight[i] \in SUBSET Pieces
  BY PrunedType DEF TypeOK
<1>3. \A i \in Ids : i \in Peers => i \in Peers'
  BY <1>1 DEF Peers
<1>4. ASSUME NEW p \in requested', p >= next'
      PROVE  p \in at' /\ \E i \in Peers' : p \in inflight'[i]
  <2>1. CASE p \in all(b)
    <3>1. PICK i \in Ids : wk[i] = "open" /\ p \in Chosen(b, i)
      BY <2>1
    <3>2. wk'[i] = "open" /\ p \in inflight'[i] /\ p \in at'
      BY <1>1, <2>1, <3>1
    <3> QED
      BY <3>2 DEF Peers
  <2>2. CASE p \notin all(b)
    <3>1. p \in req /\ p \in requested /\ p >= n
      BY <1>1, <2>2, <1>4
    <3>2. n \in Int /\ next \in Int /\ p \in Int
      BY <3>1, LivePoolAssumption DEF LivePoolAssumption, TypeOK, Pieces
    <3>3. p >= next
      BY <3>1, <3>2
    <3>4. p \in at /\ \E i \in Peers : p \in inflight[i]
      BY <3>1, <3>3 DEF ReqInv, RequestsAreOwned
    <3>5. PICK i \in Peers : p \in inflight[i]
      BY <3>4
    <3>6. p \notin Chosen(b, i) /\ i \in Ids
      BY <1>2, <3>1, BatchFits DEF Peers
    <3>7. p \in Timers(n) /\ p \in Pruned(n)[i]
      BY <3>1, <3>4, <3>5, <3>6, PrunedKeeps
    <3> QED
      BY <1>1, <1>3, <3>6, <3>7
  <2> QED
    BY <2>1, <2>2
<1>5. ASSUME NEW i \in Ids
      PROVE  Cardinality(inflight'[i]) <= MaxInFlight
  <2> DEFINE P == Pruned(n)[i]
             C == Chosen(b, i)
  <2>1. /\ IsFiniteSet(inflight[i]) /\ Cardinality(inflight[i]) \in Nat
        /\ IsFiniteSet(P) /\ Cardinality(P) \in Nat
        /\ IsFiniteSet(C) /\ Cardinality(C) \in Nat
    BY <1>2, Finite, BatchFits
  <2>2. Cardinality(P) <= Cardinality(inflight[i])
    BY <1>2, <2>1, FS_Subset
  <2>3. Cardinality(P) <= MaxInFlight /\ MaxInFlight \in Nat
    BY <2>1, <2>2, LivePoolAssumption DEF LivePoolAssumption, ReqInv, SlotsAreBounded
  <2>4. inflight'[i] \subseteq P \cup C
    BY <1>1
  <2>5. /\ IsFiniteSet(P \cup C) /\ Cardinality(P \cup C) \in Nat
        /\ Cardinality(P \cup C) <= Cardinality(P) + Cardinality(C)
    <3>1. /\ IsFiniteSet(P \cup C)
          /\ Cardinality(P \cup C) = Cardinality(P) + Cardinality(C) - Cardinality(P \cap C)
      BY <2>1, FS_Union
    <3>2. Cardinality(P \cap C) \in Nat /\ Cardinality(P \cup C) \in Nat
      BY <2>1, <3>1, FS_Intersection, FS_CardinalityType
    <3> QED
      BY <2>1, <3>1, <3>2
  <2>6. Cardinality(P \cup C) <= MaxInFlight
    <3>1. CASE C = {}
      BY <2>1, <2>3, <2>5, <3>1, FS_EmptySet
    <3>2. CASE C # {}
      <4>1. Cardinality(C) <= Spare(Pruned(n), i)
        BY <1>2, <3>2, BatchFits
      <4>2. Spare(Pruned(n), i) = MaxInFlight - Cardinality(P)
        BY <1>2, <2>3, SpareType
      <4> QED
        BY <2>1, <2>3, <2>5, <4>1, <4>2
    <3> QED
      BY <3>1, <3>2
  <2>7. Cardinality(inflight'[i]) <= Cardinality(P \cup C) /\ Cardinality(inflight'[i]) \in Nat
    BY <2>4, <2>5, FS_Subset, FS_CardinalityType
  <2> QED
    BY <2>3, <2>5, <2>6, <2>7
<1> QED
  BY <1>4, <1>5 DEF ReqInv, RequestsAreOwned, SlotsAreBounded

\* The actor's own loop.
LEMMA TurnReq ==
    ASSUME TypeOK, TypeOK', SafeInv, next' >= next, ReqInv, Turn
    PROVE  ReqInv'
<1> USE DEF turnVars, edgeVars, peerVars, reqVars, workVars
<1>0. head \in Pieces /\ next \in Nat /\ next' \in Nat
  BY LivePoolAssumption DEF LivePoolAssumption, TypeOK
<1>1. CASE Advance
  <2>0. next' = FarTarget(head) /\ InPool
    BY <1>1 DEF Advance, SkipFar, SkipTo, InPool
  <2>1. CASE Hold
    <3>1. Yields
      BY <1>1, <2>0, <2>1, QuietYields DEF Advance, Peers
    <3> QED
      BY <3>1, YieldsSafe
  <2>2. CASE ~Hold /\ startup
    <3>1. inflight' = Pruned(next') /\ at' = Timers(next') /\ UNCHANGED <<requested, wk>>
      BY <1>1, <2>2 DEF Advance
    <3>2. Yields
      BY <1>0, <2>0, <3>1, PrunedType, PrunedKeeps DEF Yields, Peers
    <3> QED
      BY <3>2, YieldsSafe
  <2>3. CASE ~Hold /\ ~startup
    BY <1>0, <1>1, <2>0, <2>3, AssignSafe DEF Advance
  <2> QED
    BY <2>1, <2>2, <2>3
<1>2. CASE Poll \/ Deadline \/ Tick
  <2>1. (InPool' => InPool) /\ UNCHANGED reqVars /\ Peers' = Peers
    BY <1>2 DEF Poll, Deadline, Tick, InPool, Peers
  <2> QED
    BY <2>1, QuietYields, YieldsSafe
<1>3. CASE Stale \/ Settle
  <2>1. CASE EndPool
    <3>1. ~InPool' /\ UNCHANGED inflight
      BY <1>3, <2>1 DEF Stale, Settle, EndPool, InPool
    <3> QED
      BY <3>1 DEF ReqInv, RequestsAreOwned, SlotsAreBounded
  <2>2. CASE ~EndPool
    <3>1. InPool /\ UNCHANGED reqVars /\ Peers' = Peers
      BY <1>3, <2>2 DEF Stale, Settle, InPool, Peers
    <3> QED
      BY <3>1, QuietYields, YieldsSafe
  <2> QED
    BY <2>1, <2>2
<1>4. CASE Release
  <2>1. /\ InPool /\ inflight' = [i \in Ids |-> inflight[i] \ (late \ at)]
        /\ UNCHANGED <<requested, at, wk, next>>
    BY <1>4 DEF Release, Everywhere, InPool, reasmVars
  <2>2. \A p \in requested : p >= next => p \in at
    BY <2>1 DEF ReqInv, RequestsAreOwned
  <2>3. Yields
    BY <2>1, <2>2 DEF Yields, Peers
  <2> QED
    BY <2>3, YieldsSafe
<1>5. ASSUME NEW stuck \in BOOLEAN, NEW T \in SUBSET at, Retransmit(T, stuck)
      PROVE  ReqInv'
  <2>1. /\ InPool /\ inflight' = Pruned(next') /\ requested' = requested \ T
        /\ at' = (IF Hold THEN at ELSE {p \in at : p >= next'}) \ T
        /\ UNCHANGED wk
    BY <1>5 DEF Retransmit, SkipTo, InPool
  <2>2. Yields
    BY <1>0, <2>1, PrunedType, PrunedKeeps DEF Yields, Peers
  <2> QED
    BY <2>2, YieldsSafe
<1> QED
  BY <1>1, <1>2, <1>3, <1>4, <1>5 DEF Turn

\* A piece that stays requested when peers go has an owner among the others.
LEMMA DropYields ==
    ASSUME TypeOK, NEW D, InPool,
           inflight' = [i \in Ids |-> IF i \in D THEN {} ELSE inflight[i]],
           requested' = Released(D), UNCHANGED at,
           \A i \in Ids : i \notin D /\ i \in Peers => i \in Peers'
    PROVE  Yields
<1>1. \A i \in Ids : inflight'[i] \subseteq inflight[i]
  OBVIOUS
<1>2. \A p \in requested' : p \in requested /\ \A i \in Peers : p \in inflight[i] => i \notin D
  BY DEF Released
<1>3. \A i \in Peers : i \in Ids
  BY DEF Peers
<1> QED
  BY <1>1, <1>2, <1>3 DEF Yields

\* Events.
LEMMA EventReq ==
    ASSUME TypeOK, TypeOK', SafeInv, next' >= next, ReqInv, Event
    PROVE  ReqInv'
<1> USE DEF turnVars, edgeVars, peerVars, reqVars, workVars
<1>0. head \in Pieces /\ next \in Nat /\ next' \in Nat
  BY LivePoolAssumption DEF LivePoolAssumption, TypeOK
<1>1. ASSUME NEW i \in Ids, Unchoke(i) \/ Choke(i) \/ Reply(i)
      PROVE  ReqInv'
  <2>1. InPool /\ UNCHANGED reqVars
    BY <1>1 DEF Unchoke, Choke, Reply, InPool
  <2>2. Peers' = Peers
    BY <1>1 DEF Unchoke, Choke, Reply, Peers, TypeOK
  <2> QED
    BY <2>1, <2>2, QuietYields, YieldsSafe
<1>2. ASSUME NEW i \in Ids, Lost(i)
      PROVE  ReqInv'
  <2>1. Yields
    BY <1>2, DropYields DEF Lost, Drop, InPool, Peers
  <2> QED
    BY <2>1, YieldsSafe
<1>3. ASSUME NEW i \in Ids, NEW h \in Pieces, Have(i, h)
      PROVE  ReqInv'
  BY <1>3, QuietYields, YieldsSafe DEF Have, InPool, Peers
<1>4. ASSUME NEW D \in SUBSET Ids, LostRest(D)
      PROVE  ReqInv'
  <2>1. CASE EndPool
    <3>1. ~InPool' /\ UNCHANGED inflight
      BY <1>4, <2>1 DEF LostRest, EndPool, InPool
    <3> QED
      BY <3>1 DEF ReqInv, RequestsAreOwned, SlotsAreBounded
  <2>2. CASE ~EndPool
    <3>1. Drop(D) /\ InPool
      BY <1>4, <2>2 DEF LostRest, InPool
    <3>2. Yields
      BY <3>1, DropYields DEF Drop, Peers
    <3> QED
      BY <3>2, YieldsSafe
  <2> QED
    BY <2>1, <2>2
<1>5. ASSUME NEW i \in Ids, NEW p \in Pieces, NEW c \in Chunks, NEW kind, NEW S,
             ChunkSkipped(i, p, c) \/ ChunkRefused(i, p, c, kind) \/ ChunkTaken(i, p, c, kind),
             Finish(S)
      PROVE  ReqInv'
  <2>1. InPool /\ next' = FarTarget(head) /\ UNCHANGED wk
    BY <1>5 DEF ChunkSkipped, ChunkRefused, ChunkTaken, SkipFar, SkipTo, InPool
  <2>2. /\ inflight' = [j \in Ids |-> Pruned(next')[j] \ S]
        /\ requested' = requested \ S /\ at' = Timers(next') \ S
    BY <1>5, <2>1 DEF Finish, Everywhere
  <2>3. Yields
    BY <1>0, <2>1, <2>2, PrunedType, PrunedKeeps DEF Yields, Peers
  <2> QED
    BY <2>3, YieldsSafe
<1>6. ASSUME NEW i \in Ids, NEW p \in Pieces, NEW c \in Chunks,
             \/ ChunkSkipped(i, p, c)
             \/ \E kind \in Kinds : ChunkRefused(i, p, c, kind) \/ ChunkTaken(i, p, c, kind)
      PROVE  ReqInv'
  <2>1. ASSUME ChunkSkipped(i, p, c) PROVE ReqInv'
    BY <2>1, <1>5 DEF ChunkSkipped
  <2>2. ASSUME NEW kind, ChunkRefused(i, p, c, kind) PROVE ReqInv'
    BY <2>2, <1>5 DEF ChunkRefused
  <2>3. ASSUME NEW kind, ChunkTaken(i, p, c, kind) PROVE ReqInv'
    <3>1. \E S : Finish(S)
      BY <2>3 DEF ChunkTaken
    <3> QED
      BY <2>3, <3>1, <1>5
  <2> QED
    BY <1>6, <2>1, <2>2, <2>3
<1>7. ASSUME NEW w \in Windows, Corroborate(w)
      PROVE  ReqInv'
  BY <1>7, QuietYields, YieldsSafe DEF Corroborate, InPool, Peers
<1>8. ASSUME NEW w \in Windows, Receive(w)
      PROVE  ReqInv'
  <2>1. /\ InPool /\ inflight' = Pruned(next') /\ at' = Timers(next')
        /\ UNCHANGED <<requested, wk>>
    BY <1>8 DEF Receive, InPool
  <2>2. Yields
    BY <1>0, <2>1, PrunedType, PrunedKeeps DEF Yields, Peers
  <2> QED
    BY <2>2, YieldsSafe
<1>9. ASSUME NEW w \in Windows, NEW u \in BOOLEAN, NEW gone \in SUBSET Ids, Admit(w, u, gone)
      PROVE  ReqInv'
  <2>1. Yields
    BY <1>9, DropYields DEF Admit, Register, InPool, Peers
  <2> QED
    BY <2>1, YieldsSafe
<1> QED
  BY <1>1, <1>2, <1>3, <1>4, <1>6, <1>7, <1>8, <1>9 DEF Event

\* Output, the time between two pools, workers and the consumer.
LEMMA OtherReq ==
    ASSUME TypeOK, TypeOK', SafeInv, next' >= next, ReqInv, Output \/ Between \/ World
    PROVE  ReqInv'
<1> USE DEF turnVars, edgeVars, peerVars, reqVars, workVars
<1>1. CASE Output
  <2>1. (InPool' => InPool) /\ UNCHANGED <<reqVars, wk>>
    BY <1>1 DEF Output, PublicationDone, FinishOutput, InPool
  <2> QED
    BY <2>1, QuietYields, YieldsSafe DEF Peers
<1>2. CASE DrainTurn \/ Drained \/ ConsumerGone
  <2>1. ~InPool' /\ UNCHANGED inflight
    BY <1>2 DEF DrainTurn, Drained, ConsumerGone, InPool
  <2> QED
    BY <2>1 DEF ReqInv, RequestsAreOwned, SlotsAreBounded
<1>3. ASSUME NEW ws \in Cohorts, NEW A \in SUBSET (DOMAIN ws), NEW U \in SUBSET A,
             Reconnect(ws, A, U)
      PROVE  ReqInv'
  <2>1. requested' = {} /\ \A i \in Ids : inflight'[i] = {}
    BY <1>3 DEF Reconnect
  <2>2. RequestsAreOwned' /\ SlotsAreBounded'
    BY <2>1, FewerSlots DEF ReqInv, RequestsAreOwned
  <2> QED
    BY <2>2 DEF ReqInv
<1>4. ASSUME NEW i \in Ids, \/ \E s \in {"closing", "closed"} : WorkerEnds(i, s)
                            \/ WorkerSends(i)
      PROVE  ReqInv'
  <2>1. (InPool' => InPool) /\ UNCHANGED reqVars
    BY <1>4 DEF WorkerEnds, WorkerSends, InPool
  <2>2. Peers' = Peers
    BY <1>4 DEF WorkerEnds, WorkerSends, Peers, TypeOK
  <2> QED
    BY <2>1, <2>2, QuietYields, YieldsSafe
<1> QED
  BY <1>1, <1>2, <1>3, <1>4 DEF Between, World

\* While a pool runs no request is orphaned, and no peer has more requests than
\* max_piece_advance.
THEOREM RequestsInvariant == Spec => [](RequestsAreOwned /\ SlotsAreBounded)
<1>1. Init => ReqInv
  <2> SUFFICES ASSUME Init PROVE ReqInv
    OBVIOUS
  <2>1. requested = {} /\ inflight = [i \in Ids |-> {}]
    BY DEF Init
  <2> QED
    BY <2>1, FS_EmptySet, LivePoolAssumption
       DEF LivePoolAssumption, ReqInv, RequestsAreOwned, SlotsAreBounded
<1>2. TypeOK /\ SafeInv /\ ReqInv /\ [Next]_vars => ReqInv'
  <2> SUFFICES ASSUME TypeOK, SafeInv, ReqInv, [Next]_vars PROVE ReqInv'
    OBVIOUS
  <2>1. TypeOK' /\ next' >= next
    BY NextTypeOK, NextSafe
  <2>2. CASE Next
    BY <2>1, <2>2, TurnReq, EventReq, OtherReq DEF Next
  <2>3. CASE UNCHANGED vars
    BY <2>3 DEF vars, turnVars, reasmVars, peerVars, reqVars, workVars, ReqInv,
                RequestsAreOwned, SlotsAreBounded, InPool, Peers
  <2> QED
    BY <2>2, <2>3
<1>3. ReqInv => RequestsAreOwned /\ SlotsAreBounded
  BY DEF ReqInv
<1> QED
  BY SessionInvariant, <1>1, <1>2, <1>3, PTL DEF Spec

\* No peer is ever asked for more than max_piece_advance pieces at a time.
THEOREM SlotsBounded == Spec => []SlotsAreBounded
  BY RequestsInvariant, PTL

\* Requests are owned, bounded per peer, and never below the cursor's floor.
THEOREM RequestsTracked == Spec => []RequestsAreTracked
<1>1. FloorIsBehind /\ RequestsAreOwned /\ SlotsAreBounded => RequestsAreTracked
  BY DEF RequestsAreTracked
<1> QED
  BY <1>1, FloorBehind, RequestsInvariant, PTL
=============================================================================
