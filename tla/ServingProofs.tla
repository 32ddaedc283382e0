---------------------------- MODULE ServingProofs ----------------------------
(***************************************************************************)
(* Theorems about what a node gives and fetches (MCServing), for every set *)
(* of connections and addresses and every size of window, crew and budget. *)
(*                                                                         *)
(* The choker of a seeder: only members are on the interest list, so a     *)
(* connection that joins is not chosen yet, and whoever changes the list   *)
(* or the turn is pending until it has recomputed.                         *)
(*                                                                         *)
(* The coordinator of a download: a verified piece that is still on its    *)
(* way keeps its worker's job and its owner, so that job and owner always  *)
(* name each other; and when the coordinator reaches its hand-out nobody   *)
(* else could have been connected.                                         *)
(***************************************************************************)
EXTENDS MCServing, FiniteSetTheorems, SequenceTheorems, TLAPS

-----------------------------------------------------------------------------
(* The seeder                                                              *)

\* What an edge can be: the greatest of some pieces.
Edges == Int \cup {Max(S) : S \in SUBSET Int}
PeerStates == [at : {"away", "joined"}, unchoked : BOOLEAN, told : Edges, greeted : BOOLEAN]

ServingTypes ==
    /\ interestedIn \in Seq(ServedPeers)
    /\ watch \in [ServedPeers -> BOOLEAN]
    /\ unseen \subseteq ServedPeers
    /\ turn \in Nat
    /\ peer \in [ServedPeers -> PeerStates]
    /\ have \subseteq Int

\* Interest is a list of members, each of them once.
ListInv ==
    /\ \A i \in 1 .. Len(interestedIn) : peer[interestedIn[i]].at = "joined"
    /\ \A i, j \in 1 .. Len(interestedIn) : interestedIn[i] = interestedIn[j] => i = j

ServingInv == ServingTypes /\ ListInv /\ ChokeIsCurrent

LEMMA MinOfTwo ==
    ASSUME NEW a \in Int, NEW b \in Int PROVE Min({a, b}) \in {a, b} /\ Min({a, b}) <= b
  <1>1. \E x \in {a, b} : \A y \in {a, b} : x =< y
    <2>1. CASE a <= b
      BY <2>1
    <2>2. CASE b <= a
      BY <2>2
    <2> QED BY <2>1, <2>2
  <1> QED BY <1>1 DEF Min

\* The choker picks among the interested (Choker::choose).
LEMMA ChosenAreInterested ==
    ASSUME ServingTypes, NEW p \in UnchokedNow
    PROVE  \E i \in 1 .. Len(interestedIn) : interestedIn[i] = p
  <1> DEFINE rest == Len(interestedIn) - MaxUnchoked
             most == Min({MaxUnchoked, Len(interestedIn)})
  <1>1. Len(interestedIn) \in Nat /\ MaxUnchoked \in Nat /\ rest \in Int /\ turn \in Nat
    BY ServingAssumption DEF ServingAssumption, ServingTypes
  <1>2. most \in Int /\ most <= Len(interestedIn)
    BY <1>1, MinOfTwo
  <1>3. CASE \E i \in 1 .. most : p = interestedIn[i]
    <2> HIDE DEF most
    <2> QED BY <1>1, <1>2, <1>3
  <1>4. CASE rest > 0 /\ p = interestedIn[MaxUnchoked + 1 + (turn % rest)]
    <2>1. turn % rest \in 0 .. rest - 1
      BY <1>1, <1>4
    <2>2. MaxUnchoked + 1 + (turn % rest) \in 1 .. Len(interestedIn)
      BY <1>1, <2>1
    <2> QED BY <1>4, <2>2
  <1> QED BY <1>3, <1>4 DEF UnchokedNow, Choose

\* What is left of a list after one place is removed.
LEMMA RemoveAtProperties ==
    ASSUME NEW S, NEW s \in Seq(S), NEW k \in 1 .. Len(s)
    PROVE  /\ RemoveAt(s, k) \in Seq(S) /\ Len(RemoveAt(s, k)) = Len(s) - 1
           /\ \A i \in 1 .. Len(s) - 1 : RemoveAt(s, k)[i] = IF i < k THEN s[i] ELSE s[i + 1]
  <1> DEFINE front == SubSeq(s, 1, k - 1)
             back == SubSeq(s, k + 1, Len(s))
  <1>1. Len(s) \in Nat /\ k \in Int /\ 1 <= k /\ k <= Len(s) /\ \A i \in 1 .. Len(s) : s[i] \in S
    BY LenProperties, ElementOfSeq
  <1>2. (\A i \in 1 .. k - 1 : s[i] \in S) /\ \A i \in k + 1 .. Len(s) : s[i] \in S
    BY <1>1
  <1>3. /\ front \in Seq(S) /\ Len(front) = k - 1
        /\ \A i \in 1 .. k - 1 : front[i] = s[i]
    <2>1. /\ front \in Seq(S) /\ Len(front) = IF 1 <= k - 1 THEN k - 1 - 1 + 1 ELSE 0
          /\ \A i \in 1 .. k - 1 - 1 + 1 : front[i] = s[1 + i - 1]
      BY <1>1, <1>2, SubSeqProperties
    <2> QED BY <1>1, <2>1
  <1>4. /\ back \in Seq(S) /\ Len(back) = Len(s) - k
        /\ \A i \in 1 .. Len(s) - k : back[i] = s[k + i]
    <2>1. /\ back \in Seq(S)
          /\ Len(back) = IF k + 1 <= Len(s) THEN Len(s) - (k + 1) + 1 ELSE 0
          /\ \A i \in 1 .. Len(s) - (k + 1) + 1 : back[i] = s[(k + 1) + i - 1]
      BY <1>1, <1>2, SubSeqProperties
    <2> QED BY <1>1, <2>1
  <1> HIDE DEF front, back
  <1>5. /\ front \o back \in Seq(S) /\ Len(front \o back) = Len(front) + Len(back)
        /\ \A i \in 1 .. Len(front) + Len(back) :
             (front \o back)[i] = IF i <= Len(front) THEN front[i] ELSE back[i - Len(front)]
    BY <1>3, <1>4, ConcatProperties
  <1>6. RemoveAt(s, k) = front \o back
    BY DEF RemoveAt, front, back
  <1>7. Len(front \o back) = Len(s) - 1
    BY <1>1, <1>3, <1>4, <1>5
  <1>8. ASSUME NEW i \in 1 .. Len(s) - 1
        PROVE  (front \o back)[i] = IF i < k THEN s[i] ELSE s[i + 1]
    <2>1. i \in 1 .. Len(front) + Len(back)
      BY <1>1, <1>3, <1>4
    <2>2. CASE i < k
      BY <1>1, <1>3, <1>5, <2>1, <2>2
    <2>3. CASE ~(i < k)
      <3>1. i - (k - 1) \in 1 .. Len(s) - k /\ k + (i - (k - 1)) = i + 1
        BY <1>1, <2>3
      <3>2. back[i - (k - 1)] = s[i + 1]
        BY <1>4, <3>1
      <3>3. (front \o back)[i] = back[i - (k - 1)]
        BY <1>1, <1>3, <1>5, <2>1, <2>3
      <3> QED BY <2>3, <3>2, <3>3
    <2> QED BY <2>2, <2>3
  <1> QED BY <1>5, <1>6, <1>7, <1>8

\* Who withdraws is off the list, and the others keep their order.
LEMMA WithdrawnKeepsOthers ==
    ASSUME ServingTypes, ListInv, NEW p \in ServedPeers
    PROVE  /\ Withdrawn(p) \in Seq(ServedPeers)
           /\ \A i \in 1 .. Len(Withdrawn(p)) :
                Withdrawn(p)[i] # p /\ \E j \in 1 .. Len(interestedIn) : Withdrawn(p)[i] = interestedIn[j]
           /\ \A i, j \in 1 .. Len(Withdrawn(p)) : Withdrawn(p)[i] = Withdrawn(p)[j] => i = j
  <1> DEFINE s == interestedIn
  <1>1. s \in Seq(ServedPeers) /\ Len(s) \in Nat /\ DOMAIN s = 1 .. Len(s)
    BY DEF ServingTypes
  <1>2. \A i, j \in 1 .. Len(s) : s[i] = s[j] => i = j
    BY DEF ListInv
  <1>3. CASE ~Contains(s, p)
    BY <1>1, <1>2, <1>3 DEF Withdrawn, Contains
  <1>4. CASE Contains(s, p)
    <2> DEFINE k == CHOOSE i \in DOMAIN s : s[i] = p
               w == RemoveAt(s, k)
    <2>1. k \in 1 .. Len(s) /\ s[k] = p
      BY <1>1, <1>4 DEF Contains
    <2>2. Withdrawn(p) = w
      BY <1>4 DEF Withdrawn
    <2> HIDE DEF k
    <2>3. /\ w \in Seq(ServedPeers) /\ Len(w) = Len(s) - 1
          /\ \A i \in 1 .. Len(s) - 1 : w[i] = IF i < k THEN s[i] ELSE s[i + 1]
      BY <1>1, <2>1, RemoveAtProperties
    <2> HIDE DEF w, s
    <2>4. ASSUME NEW i \in 1 .. Len(s) - 1
          PROVE  w[i] # p /\ \E j \in 1 .. Len(s) : w[i] = s[j]
      <3>1. PICK j \in 1 .. Len(s) : w[i] = s[j] /\ j # k
        <4>1. i \in 1 .. Len(s) /\ i + 1 \in 1 .. Len(s) /\ i \in Int /\ k \in Int
          BY <1>1, <2>1
        <4>2. CASE i < k
          BY <2>3, <4>1, <4>2
        <4>3. CASE ~(i < k)
          BY <2>3, <4>1, <4>3
        <4> QED BY <4>2, <4>3
      <3> QED BY <1>2, <2>1, <3>1
    <2>5. \A i, j \in 1 .. Len(s) - 1 : w[i] = w[j] => i = j
      BY <1>1, <1>2, <2>1, <2>3
    <2>6. /\ w \in Seq(ServedPeers)
          /\ \A i \in 1 .. Len(w) : w[i] # p /\ \E j \in 1 .. Len(s) : w[i] = s[j]
          /\ \A i, j \in 1 .. Len(w) : w[i] = w[j] => i = j
      BY <2>3, <2>4, <2>5
    <2> QED BY <2>2, <2>6 DEF s
  <1> QED BY <1>3, <1>4

LEMMA ServingStarts ==
    ASSUME ServingInit PROVE ServingInv
  <1>1. Away \in PeerStates
    BY DEF Away, PeerStates, Edges
  <1>2. ServingTypes
    BY <1>1 DEF ServingInit, ServingTypes
  <1>3. \A p \in ServedPeers : peer[p].at = "away" /\ ~watch[p]
    BY DEF ServingInit, Away
  <1>4. ListInv
    BY DEF ServingInit, ListInv
  <1>5. Members = {}
    BY <1>3 DEF Members
  <1> QED BY <1>2, <1>3, <1>4, <1>5 DEF ServingInv, ChokeIsCurrent

\* A step that leaves the list, the turn and who is here alone keeps the list
\* and the choice.
LEMMA SameChoice ==
    ASSUME ServingInv, interestedIn' = interestedIn, turn' = turn
    PROVE  UnchokedNow' = UnchokedNow
  BY DEF UnchokedNow, Choose

LEMMA RecomputeKeeps ==
    ASSUME ServingInv, NEW op, Recompute(op) PROVE ServingInv'
  <1>1. /\ watch' = [p \in ServedPeers |-> p \in Members /\ p \in UnchokedNow]
        /\ unseen' = unseen \cup {p \in Members : watch[p] # (p \in UnchokedNow)}
        /\ interestedIn' = interestedIn /\ turn' = turn /\ peer' = peer /\ have' = have
    BY DEF Recompute
  <1>2. Members' = Members /\ Members \subseteq ServedPeers
    BY <1>1 DEF Members
  <1>3. UnchokedNow' = UnchokedNow
    BY <1>1, SameChoice
  <1>4. ServingTypes'
    <2>1. watch' \in [ServedPeers -> BOOLEAN]
      BY <1>1
    <2>2. unseen' \subseteq ServedPeers
      BY <1>1, <1>2 DEF ServingInv, ServingTypes
    <2> QED BY <1>1, <2>1, <2>2 DEF ServingInv, ServingTypes
  <1>5. ListInv'
    BY <1>1 DEF ServingInv, ListInv
  <1>6. ASSUME NEW p \in Members PROVE watch'[p] = (p \in UnchokedNow)
    <2>1. CASE p \in UnchokedNow
      <3>1. watch'[p] = TRUE
        BY <1>1, <1>2, <2>1
      <3> QED BY <2>1, <3>1, Zenon
    <2>2. CASE p \notin UnchokedNow
      <3>1. watch'[p] = FALSE
        BY <1>1, <1>2, <2>2
      <3>2. (p \in UnchokedNow) = FALSE
        BY <2>2
      <3> QED BY <3>1, <3>2
    <2> QED BY <2>1, <2>2
  <1>7. ASSUME NEW p \in Members, p \notin unseen' PROVE peer[p].unchoked = watch'[p]
    <2>1. p \notin unseen /\ watch[p] = (p \in UnchokedNow)
      BY <1>1, <1>7, Zenon
    <2>2. peer[p].unchoked = watch[p]
      BY <1>7, <2>1 DEF ServingInv, ChokeIsCurrent
    <2> QED BY <1>6, <1>7, <2>1, <2>2, Zenon
  <1>8. \A p \in ServedPeers \ Members : ~watch'[p]
    BY <1>1, Zenon
  <1>9. ChokeIsCurrent'
    BY <1>1, <1>2, <1>3, <1>6, <1>7, <1>8, Zenon DEF ChokeIsCurrent
  <1> QED BY <1>4, <1>5, <1>9 DEF ServingInv

LEMMA RechokeKeeps ==
    ASSUME ServingInv, Rechoke PROVE ServingInv'
  <1>1. /\ turn' = (turn + 1) % Period /\ recompute' # {}
        /\ interestedIn' = interestedIn /\ watch' = watch /\ unseen' = unseen
        /\ peer' = peer /\ have' = have
    BY DEF Rechoke
  <1>2. turn' \in Nat
    BY <1>1, ServingAssumption DEF ServingAssumption, ServingInv, ServingTypes
  <1>3. ServingTypes'
    BY <1>1, <1>2 DEF ServingInv, ServingTypes
  <1>4. ListInv'
    BY <1>1 DEF ServingInv, ListInv
  <1>5. Members' = Members
    BY <1>1 DEF Members
  <1>6. ChokeIsCurrent'
    BY <1>1, <1>5 DEF ServingInv, ChokeIsCurrent
  <1> QED BY <1>3, <1>4, <1>6 DEF ServingInv

LEMMA SetInterestedKeeps ==
    ASSUME ServingInv, NEW p \in ServedPeers, NEW wants \in BOOLEAN, SetInterested(p, wants)
    PROVE  ServingInv'
  <1>1. /\ recompute' # {} /\ watch' = watch /\ unseen' = unseen /\ turn' = turn
        /\ peer' = peer /\ have' = have /\ peer[p].at = "joined"
    BY DEF SetInterested
  <1>2. ServingTypes /\ ListInv /\ ChokeIsCurrent
    BY DEF ServingInv
  <1>3. interestedIn' \in Seq(ServedPeers) /\ ListInv'
    <2>1. CASE interestedIn' = interestedIn
      BY <1>1, <1>2, <2>1 DEF ListInv, ServingTypes
    <2>2. CASE interestedIn' = Append(interestedIn, p) /\ ~Contains(interestedIn, p)
      <3>1. interestedIn \in Seq(ServedPeers) /\ Len(interestedIn) \in Nat
        BY <1>2 DEF ServingTypes
      <3>2. /\ interestedIn' \in Seq(ServedPeers)
            /\ Len(interestedIn') = Len(interestedIn) + 1
            /\ \A i \in 1 .. Len(interestedIn) : interestedIn'[i] = interestedIn[i]
            /\ interestedIn'[Len(interestedIn) + 1] = p
        BY <2>2, <3>1
      <3>3. \A i \in 1 .. Len(interestedIn) : interestedIn[i] # p
        BY <2>2 DEF Contains
      <3>4. \A i \in 1 .. Len(interestedIn') :
              i \in 1 .. Len(interestedIn) \/ i = Len(interestedIn) + 1
        BY <3>1, <3>2
      <3>5. \A i \in 1 .. Len(interestedIn') : peer'[interestedIn'[i]].at = "joined"
        BY <1>1, <1>2, <3>2, <3>4 DEF ListInv
      <3>6. \A i, j \in 1 .. Len(interestedIn') : interestedIn'[i] = interestedIn'[j] => i = j
        BY <1>2, <3>2, <3>3, <3>4 DEF ListInv
      <3> QED BY <3>2, <3>5, <3>6 DEF ListInv
    <2>3. CASE interestedIn' = Withdrawn(p)
      <3>1. /\ Withdrawn(p) \in Seq(ServedPeers)
            /\ \A i \in 1 .. Len(Withdrawn(p)) : Withdrawn(p)[i] # p
                 /\ \E j \in 1 .. Len(interestedIn) : Withdrawn(p)[i] = interestedIn[j]
            /\ \A i, j \in 1 .. Len(Withdrawn(p)) : Withdrawn(p)[i] = Withdrawn(p)[j] => i = j
        BY <1>2, WithdrawnKeepsOthers
      <3> QED BY <1>1, <1>2, <2>3, <3>1 DEF ListInv
    <2>4. \/ interestedIn' = interestedIn
          \/ interestedIn' = Append(interestedIn, p) /\ ~Contains(interestedIn, p)
          \/ interestedIn' = Withdrawn(p)
      BY Zenon DEF SetInterested
    <2> QED BY <2>1, <2>2, <2>3, <2>4
  <1>4. ServingTypes'
    BY <1>1, <1>2, <1>3 DEF ServingTypes
  <1>5. Members' = Members
    BY <1>1 DEF Members
  <1>6. ChokeIsCurrent'
    BY <1>1, <1>2, <1>5 DEF ChokeIsCurrent
  <1> QED BY <1>3, <1>4, <1>6 DEF ServingInv

LEMMA JoinKeeps ==
    ASSUME ServingInv, NEW p \in ServedPeers, Join(p) PROVE ServingInv'
  <1>1. /\ peer[p].at = "away" /\ peer' = [peer EXCEPT ![p] = [Away EXCEPT !.at = "joined"]]
        /\ watch' = [watch EXCEPT ![p] = FALSE] /\ unseen' = unseen \ {p}
        /\ interestedIn' = interestedIn /\ turn' = turn /\ have' = have /\ recompute' = recompute
    BY DEF Join
  <1>2. ServingTypes /\ ListInv /\ ChokeIsCurrent
    BY DEF ServingInv
  <1>3. /\ [Away EXCEPT !.at = "joined"] \in PeerStates
        /\ [Away EXCEPT !.at = "joined"].at = "joined"
        /\ [Away EXCEPT !.at = "joined"].unchoked = FALSE
    <2>1. Away \in PeerStates /\ Away.unchoked = FALSE
      BY DEF Away, PeerStates, Edges
    <2> QED BY <2>1 DEF PeerStates
  <1>4. /\ peer' \in [ServedPeers -> PeerStates] /\ peer'[p].at = "joined"
        /\ peer'[p].unchoked = FALSE /\ \A q \in ServedPeers : q # p => peer'[q] = peer[q]
    BY <1>1, <1>2, <1>3 DEF ServingTypes
  <1>5. /\ watch' \in [ServedPeers -> BOOLEAN] /\ ~watch'[p]
        /\ \A q \in ServedPeers : q # p => watch'[q] = watch[q]
    BY <1>1, <1>2 DEF ServingTypes
  <1>6. ServingTypes'
    BY <1>1, <1>2, <1>4, <1>5 DEF ServingTypes
  <1>7. \A i \in 1 .. Len(interestedIn) : interestedIn[i] \in ServedPeers /\ interestedIn[i] # p
    BY <1>1, <1>2 DEF ListInv, ServingTypes
  <1>8. ListInv'
    BY <1>1, <1>2, <1>4, <1>7 DEF ListInv
  <1>9. UnchokedNow' = UnchokedNow /\ p \notin UnchokedNow
    BY <1>1, <1>2, <1>7, SameChoice, ChosenAreInterested
  <1>10. Members' = Members \cup {p} /\ p \notin Members
    BY <1>1, <1>4 DEF Members
  <1>11. ASSUME NEW q \in Members', recompute' = {} PROVE watch'[q] = (q \in UnchokedNow')
    <2>1. CASE q = p
      <3>1. watch'[q] = FALSE /\ (q \in UnchokedNow') = FALSE
        BY <1>5, <1>9, <2>1
      <3> QED BY <3>1
    <2>2. CASE q # p
      <3>1. q \in Members /\ q \in ServedPeers
        BY <1>10, <1>11, <2>2 DEF Members
      <3>2. watch[q] = (q \in UnchokedNow)
        BY <1>1, <1>2, <1>11, <3>1 DEF ChokeIsCurrent
      <3> QED BY <1>5, <1>9, <2>2, <3>1, <3>2, Zenon
    <2> QED BY <2>1, <2>2
  <1>12. ASSUME NEW q \in Members', q \notin unseen' PROVE peer'[q].unchoked = watch'[q]
    <2>1. CASE q = p
      BY <1>4, <1>5, <2>1
    <2>2. CASE q # p
      <3>1. q \in Members /\ q \in ServedPeers /\ q \notin unseen
        BY <1>1, <1>10, <1>12, <2>2 DEF Members
      <3>2. peer[q].unchoked = watch[q]
        BY <1>2, <3>1 DEF ChokeIsCurrent
      <3> QED BY <1>4, <1>5, <2>2, <3>1, <3>2
    <2> QED BY <2>1, <2>2
  <1>13. \A q \in ServedPeers \ Members' : ~watch'[q]
    BY <1>2, <1>5, <1>10 DEF ChokeIsCurrent
  <1>14. ChokeIsCurrent'
    BY <1>11, <1>12, <1>13, Zenon DEF ChokeIsCurrent
  <1> QED BY <1>6, <1>8, <1>14 DEF ServingInv

LEMMA LeaveKeeps ==
    ASSUME ServingInv, NEW p \in ServedPeers, Leave(p) PROVE ServingInv'
  <1>1. /\ peer' = [peer EXCEPT ![p] = Away] /\ interestedIn' = Withdrawn(p)
        /\ watch' = [watch EXCEPT ![p] = FALSE] /\ unseen' = unseen \ {p}
        /\ turn' = turn /\ have' = have /\ recompute' # {}
    BY DEF Leave
  <1>2. ServingTypes /\ ListInv /\ ChokeIsCurrent
    BY DEF ServingInv
  <1>3. Away \in PeerStates /\ Away.at = "away"
    BY DEF Away, PeerStates, Edges
  <1>4. /\ peer' \in [ServedPeers -> PeerStates] /\ peer'[p].at = "away"
        /\ \A q \in ServedPeers : q # p => peer'[q] = peer[q]
    BY <1>1, <1>2, <1>3 DEF ServingTypes
  <1>5. /\ watch' \in [ServedPeers -> BOOLEAN] /\ ~watch'[p]
        /\ \A q \in ServedPeers : q # p => watch'[q] = watch[q]
    BY <1>1, <1>2 DEF ServingTypes
  <1>6. /\ interestedIn' \in Seq(ServedPeers)
        /\ \A i \in 1 .. Len(interestedIn') :
             interestedIn'[i] # p
               /\ \E j \in 1 .. Len(interestedIn) : interestedIn'[i] = interestedIn[j]
        /\ \A i, j \in 1 .. Len(interestedIn') : interestedIn'[i] = interestedIn'[j] => i = j
    <2> DEFINE w == Withdrawn(p)
    <2>1. /\ w \in Seq(ServedPeers)
          /\ \A i \in 1 .. Len(w) : w[i] # p /\ \E j \in 1 .. Len(interestedIn) : w[i] = interestedIn[j]
          /\ \A i, j \in 1 .. Len(w) : w[i] = w[j] => i = j
      BY <1>2, WithdrawnKeepsOthers, Zenon
    <2>2. interestedIn' = w
      BY <1>1
    <2> HIDE DEF w
    <2> QED BY <2>1, <2>2
  <1>7. ServingTypes'
    BY <1>1, <1>2, <1>4, <1>5, <1>6 DEF ServingTypes
  <1>8. \A i \in 1 .. Len(interestedIn') : peer'[interestedIn'[i]].at = "joined"
    <2>1. \A j \in 1 .. Len(interestedIn) : interestedIn[j] \in ServedPeers
      BY <1>2 DEF ServingTypes
    <2> QED BY <1>2, <1>4, <1>6, <2>1 DEF ListInv
  <1>9. ListInv'
    BY <1>6, <1>8 DEF ListInv
  <1>10. Members' = Members \ {p}
    BY <1>4 DEF Members
  <1>11. \A q \in Members' \ unseen' : peer'[q].unchoked = watch'[q]
    <2>1. \A q \in Members' \ unseen' : q \in Members \ unseen /\ q \in ServedPeers /\ q # p
      BY <1>1, <1>10 DEF Members
    <2> QED BY <1>2, <1>4, <1>5, <2>1 DEF ChokeIsCurrent
  <1>12. \A q \in ServedPeers \ Members' : ~watch'[q]
    BY <1>2, <1>5, <1>10 DEF ChokeIsCurrent
  <1>13. ChokeIsCurrent'
    BY <1>1, <1>11, <1>12 DEF ChokeIsCurrent
  <1> QED BY <1>7, <1>9, <1>13 DEF ServingInv

\* What a connection's own loop does to itself, with its channel looked at or not.
LEMMA PeerStepKeeps ==
    ASSUME ServingInv, NEW p \in ServedPeers, NEW w \in PeerStates,
           peer[p].at = "joined", w.at = "joined", peer' = [peer EXCEPT ![p] = w],
           \/ w.unchoked = peer[p].unchoked /\ unseen' = unseen
           \/ w.unchoked = watch[p] /\ unseen' = unseen \ {p},
           interestedIn' = interestedIn, watch' = watch, turn' = turn,
           recompute' = recompute, have' = have
    PROVE  ServingInv'
  <1>1. ServingTypes /\ ListInv /\ ChokeIsCurrent
    BY DEF ServingInv
  <1>2. /\ peer' \in [ServedPeers -> PeerStates] /\ peer'[p] = w
        /\ \A q \in ServedPeers : q # p => peer'[q] = peer[q]
    BY <1>1 DEF ServingTypes
  <1>3. ServingTypes'
    BY <1>1, <1>2 DEF ServingTypes
  <1>4. \A q \in ServedPeers : peer'[q].at = peer[q].at
    BY <1>2
  <1>5. Members' = Members /\ Members \subseteq ServedPeers
    BY <1>4 DEF Members
  <1>6. ListInv'
    BY <1>1, <1>4 DEF ListInv, ServingTypes
  <1>7. UnchokedNow' = UnchokedNow
    BY SameChoice
  <1>8. \A q \in Members \ unseen' : peer'[q].unchoked = watch[q]
    BY <1>1, <1>2, <1>5 DEF ChokeIsCurrent
  <1>9. ChokeIsCurrent'
    BY <1>1, <1>5, <1>7, <1>8, Zenon DEF ChokeIsCurrent
  <1> QED BY <1>3, <1>6, <1>9 DEF ServingInv

\* Every step of the coordinator and of a serve loop keeps the invariant.
LEMMA ServingKeeps ==
    ASSUME ServingInv, ServingNext PROVE ServingInv'
  <1>1. ASSUME NEW op \in ServedPeers \cup {"rechoke"}, Recompute(op) PROVE ServingInv'
    BY <1>1, RecomputeKeeps
  <1>2. CASE Rechoke
    BY <1>2, RechokeKeeps
  <1>3. CASE StoreMoves
    <2>1. /\ interestedIn' = interestedIn /\ watch' = watch /\ unseen' = unseen
          /\ turn' = turn /\ recompute' = recompute /\ peer' = peer
      BY <1>3 DEF StoreMoves
    <2>2. have' \subseteq Int
      <3>1. have \subseteq Int
        BY DEF ServingInv, ServingTypes
      <3>2. CASE \E n \in 1 .. LastPiece : have' = have \cup {n}
        BY <3>1, <3>2
      <3>3. CASE have' = have \ {Min(have)}
        BY <3>1, <3>3
      <3> QED BY <1>3, <3>2, <3>3, Zenon DEF StoreMoves
    <2>3. Members' = Members /\ UnchokedNow' = UnchokedNow
      BY <2>1, SameChoice DEF Members
    <2>4. ServingTypes' /\ ListInv'
      BY <2>1, <2>2 DEF ServingInv, ServingTypes, ListInv
    <2>5. ChokeIsCurrent'
      BY <2>1, <2>3, Zenon DEF ServingInv, ChokeIsCurrent
    <2> QED BY <2>4, <2>5 DEF ServingInv
  <1>4. ASSUME NEW p \in ServedPeers, NEW wants \in BOOLEAN, SetInterested(p, wants)
        PROVE  ServingInv'
    BY <1>4, SetInterestedKeeps
  <1>5. ASSUME NEW p \in ServedPeers, Join(p) PROVE ServingInv'
    BY <1>5, JoinKeeps
  <1>6. ASSUME NEW p \in ServedPeers, Leave(p) PROVE ServingInv'
    BY <1>6, LeaveKeeps
  <1>7. ASSUME NEW p \in ServedPeers, FollowWatch(p) PROVE ServingInv'
    <2> DEFINE w == [peer[p] EXCEPT !.unchoked = watch[p]]
    <2>1. peer[p] \in PeerStates /\ peer \in [ServedPeers -> PeerStates] /\ watch[p] \in BOOLEAN
      BY DEF ServingInv, ServingTypes
    <2>2. w \in PeerStates /\ w.at = peer[p].at /\ w.unchoked = watch[p]
      BY <2>1 DEF PeerStates
    <2>3. /\ peer[p].at = "joined" /\ peer' = [peer EXCEPT ![p] = w] /\ unseen' = unseen \ {p}
          /\ interestedIn' = interestedIn /\ watch' = watch /\ turn' = turn
          /\ recompute' = recompute /\ have' = have
      BY <1>7, <2>1 DEF FollowWatch
    <2> HIDE DEF w
    <2> QED BY <2>2, <2>3, PeerStepKeeps
  <1>8. ASSUME NEW p \in ServedPeers, Greet(p) PROVE ServingInv'
    <2> DEFINE edge == IF have = {} THEN 0 ELSE Max(have)
               w == [peer[p] EXCEPT !.greeted = TRUE, !.told = edge]
    <2>1. peer[p] \in PeerStates /\ peer \in [ServedPeers -> PeerStates]
      BY DEF ServingInv, ServingTypes
    <2>2. edge \in Edges
      BY DEF ServingInv, ServingTypes, Edges
    <2>3. /\ peer[p].at = "joined" /\ peer' = [peer EXCEPT ![p] = w] /\ unseen' = unseen
          /\ interestedIn' = interestedIn /\ watch' = watch /\ turn' = turn
          /\ recompute' = recompute /\ have' = have
      BY <1>8, <2>1 DEF Greet
    <2> HIDE DEF edge
    <2>4. w \in PeerStates /\ w.at = peer[p].at /\ w.unchoked = peer[p].unchoked
      BY <2>1, <2>2 DEF PeerStates
    <2> HIDE DEF w
    <2> QED BY <2>3, <2>4, PeerStepKeeps
  <1>9. ASSUME NEW p \in ServedPeers, AdvanceLiveEdge(p) PROVE ServingInv'
    <2> DEFINE edge == Max(NewHaves(p))
               w == [peer[p] EXCEPT !.told = edge]
    <2>1. peer[p] \in PeerStates /\ peer \in [ServedPeers -> PeerStates]
      BY DEF ServingInv, ServingTypes
    <2>2. edge \in Edges
      <3>1. NewHaves(p) \in SUBSET Int
        BY DEF ServingInv, ServingTypes, NewHaves
      <3> QED BY <3>1 DEF Edges
    <2>3. /\ peer[p].at = "joined" /\ peer' = [peer EXCEPT ![p] = w] /\ unseen' = unseen
          /\ interestedIn' = interestedIn /\ watch' = watch /\ turn' = turn
          /\ recompute' = recompute /\ have' = have
      BY <1>9, <2>1 DEF AdvanceLiveEdge
    <2> HIDE DEF edge
    <2>4. w \in PeerStates /\ w.at = peer[p].at /\ w.unchoked = peer[p].unchoked
      BY <2>1, <2>2 DEF PeerStates
    <2> HIDE DEF w
    <2> QED BY <2>3, <2>4, PeerStepKeeps
  <1> QED BY <1>1, <1>2, <1>3, <1>4, <1>5, <1>6, <1>7, <1>8, <1>9 DEF ServingNext

LEMMA ServingStutters ==
    ASSUME ServingInv, UNCHANGED servingVars PROVE ServingInv'
  <1>1. /\ interestedIn' = interestedIn /\ watch' = watch /\ unseen' = unseen /\ turn' = turn
        /\ recompute' = recompute /\ peer' = peer /\ have' = have
    BY DEF servingVars
  <1>2. Members' = Members /\ UnchokedNow' = UnchokedNow
    BY <1>1, SameChoice DEF Members
  <1>3. ServingTypes' /\ ListInv'
    BY <1>1 DEF ServingInv, ServingTypes, ListInv
  <1>4. ChokeIsCurrent'
    BY <1>1, <1>2, Zenon DEF ServingInv, ChokeIsCurrent
  <1> QED BY <1>3, <1>4 DEF ServingInv

-----------------------------------------------------------------------------
(* The download                                                            *)

WorkerStates == [at : {"none", "connecting", "ready", "fetching", "failed", "hash",
                       "panicked"},
                 job : VodPieces \cup {-1}, unchoked : BOOLEAN, lacks : SUBSET VodPieces]
CreditStates == [attempts : [VodPeers -> Nat], owner : VodPeers \cup {NoOwner}, got : BOOLEAN]
Verified == [by : VodPeers, piece : VodPieces]

VodTypes ==
    /\ vcursor \in 0 .. VodEnd
    /\ credit \in [VodPieces -> CreditStates]
    /\ worker \in [VodPeers -> WorkerStates]
    /\ banned \subseteq VodPeers
    /\ completions \in Seq(Verified)
    /\ vstep \in {"loop", "send", "schedule", "assign", "select", "ended"}
    /\ outcome \in {"none", "ok", "gone", "unrecoverable", "panicked"}

\* The loop past its top has a frontier; at the hand-out either the crew is full
\* or nobody is left to be connected.
Scheduled ==
    /\ vstep = "ended" <=> outcome # "none"
    /\ vstep = "ended" => \A a \in VodPeers : worker[a].at = "none"
    /\ vstep \notin {"loop", "ended"} => vcursor < VodEnd
    /\ vstep = "send" => credit[vcursor].got
    /\ vstep = "assign" => Connectable = {} \/ Cardinality(Crew) >= VodWorkers

\* Job and owner name each other.
Agreed ==
    /\ \A a \in VodPeers : worker[a].job # -1 => credit[worker[a].job].owner = a
    /\ \A p \in VodPieces : credit[p].owner # NoOwner => worker[credit[p].owner].job = p
    /\ \A p \in VodPieces : p < vcursor => credit[p].got
    /\ Cardinality(Crew) <= VodWorkers

\* A piece on its way is still the job of the worker that sent it, once.
Employed ==
    /\ \A i \in 1 .. Len(completions) :
         /\ worker[completions[i].by].job = completions[i].piece
         /\ worker[completions[i].by].at \in {"ready", "failed", "panicked"}
    /\ \A i, j \in 1 .. Len(completions) : completions[i].by = completions[j].by => i = j
    /\ \A a \in VodPeers : worker[a].at \in {"fetching", "hash"} => worker[a].job # -1
    /\ \A a \in VodPeers : worker[a].at \in {"none", "connecting"} => worker[a].job = -1

VodInv == VodTypes /\ Scheduled /\ (outcome = "none" => Agreed /\ Employed) /\ GivesUpLast

LEMMA VodInvIsSound ==
    ASSUME VodInv PROVE DownloadIsSound
  <1>1. ASSUME outcome = "none", NEW a \in VodPeers, NEW b \in VodPeers,
               worker[a].job # -1, worker[a].job = worker[b].job
        PROVE  a = b
    BY <1>1 DEF VodInv, Agreed
  <1> QED BY <1>1 DEF VodInv, Agreed, DownloadIsSound, CreditsAreOwned

LEMMA VodConstants ==
    /\ VodEnd \in Nat /\ VodWorkers \in Nat \ {0} /\ VodAttempts \in Nat \ {0}
    /\ NoOwner \notin VodPeers /\ -1 \notin VodPieces /\ IsFiniteSet(VodPeers)
  BY VodAssumption DEF VodAssumption, NoOwner, VodPieces

LEMMA CrewIsFinite ==
    ASSUME NEW S, S \subseteq VodPeers PROVE IsFiniteSet(S) /\ Cardinality(S) \in Nat
  BY VodConstants, FS_Subset, FS_CardinalityType

LEMMA VodStarts ==
    ASSUME VodInit PROVE VodInv
  <1>1. /\ vcursor = 0 /\ banned = {} /\ completions = <<>> /\ vstep = "loop" /\ outcome = "none"
        /\ credit = [p \in VodPieces |->
                       [attempts |-> [a \in VodPeers |-> 0], owner |-> NoOwner, got |-> FALSE]]
        /\ worker = [a \in VodPeers |-> NoWorker]
    BY DEF VodInit
  <1>2. [attempts |-> [a \in VodPeers |-> 0], owner |-> NoOwner, got |-> FALSE] \in CreditStates
    BY DEF CreditStates
  <1>3. NoWorker \in WorkerStates /\ NoWorker.at = "none" /\ NoWorker.job = -1
    BY DEF NoWorker, WorkerStates
  <1>4. VodTypes
    BY <1>1, <1>2, <1>3, VodConstants DEF VodTypes
  <1>5. \A a \in VodPeers : worker[a].at = "none" /\ worker[a].job = -1
    BY <1>1, <1>3
  <1>6. \A p \in VodPieces : credit[p].owner = NoOwner /\ ~(p < 0)
    BY <1>1 DEF VodPieces
  <1>7. Crew = {} /\ Cardinality(Crew) = 0
    BY <1>5, FS_EmptySet DEF Crew, Working
  <1>8. Agreed
    BY <1>1, <1>5, <1>6, <1>7, VodConstants DEF Agreed
  <1>9. Employed
    BY <1>1, <1>5 DEF Employed
  <1>10. Scheduled
    BY <1>1 DEF Scheduled
  <1> QED BY <1>1, <1>4, <1>8, <1>9, <1>10 DEF VodInv, GivesUpLast

\* The end of the download, for whatever reason, aborts every worker.
LEMMA StopsKeeps ==
    ASSUME VodInv, NEW how \in {"ok", "gone", "unrecoverable", "panicked"}, DownloadStops(how),
           how = "unrecoverable" =>
               \A a \in VodPeers \ banned : credit[vcursor].attempts[a] >= VodAttempts
    PROVE  VodInv'
  <1>1. /\ outcome' = how /\ vstep' = "ended" /\ worker' = [a \in VodPeers |-> NoWorker]
        /\ vcursor' = vcursor /\ credit' = credit /\ banned' = banned
        /\ completions' = completions
    BY DEF DownloadStops
  <1>2. NoWorker \in WorkerStates /\ NoWorker.at = "none"
    BY DEF NoWorker, WorkerStates
  <1>3. VodTypes'
    BY <1>1, <1>2 DEF VodInv, VodTypes
  <1>4. Scheduled'
    BY <1>1, <1>2 DEF Scheduled
  <1>5. GivesUpLast'
    BY <1>1 DEF GivesUpLast
  <1> QED BY <1>1, <1>3, <1>4, <1>5 DEF VodInv

\* The coordinator goes on to its next step, or the consumer moves.
LEMMA TurnKeeps ==
    ASSUME VodInv, vstep # "ended",
           vstep' \in {"loop", "send", "schedule", "assign", "select"},
           vstep' # "loop" => vcursor < VodEnd,
           vstep' = "send" => credit[vcursor].got,
           vstep' = "assign" => Connectable = {} \/ Cardinality(Crew) >= VodWorkers,
           vcursor' = vcursor, credit' = credit, worker' = worker, banned' = banned,
           completions' = completions, outcome' = outcome
    PROVE  VodInv'
  <1>1. Crew' = Crew /\ Connectable' = Connectable
    BY DEF Crew, Connectable, Working
  <1>2. VodTypes'
    BY DEF VodInv, VodTypes
  <1>3. Scheduled'
    BY <1>1 DEF VodInv, Scheduled
  <1>4. (outcome = "none" => Agreed /\ Employed)' /\ GivesUpLast'
    BY <1>1 DEF VodInv, Agreed, Employed, GivesUpLast
  <1> QED BY <1>2, <1>3, <1>4 DEF VodInv

LEMMA EmitKeeps ==
    ASSUME VodInv, EmitPiece PROVE VodInv'
  <1>1. vstep = "send" /\ outcome = "none" /\ vcursor < VodEnd /\ credit[vcursor].got
    BY DEF EmitPiece, VodInv, Scheduled
  <1>2. CASE DownloadStops("gone")
    BY <1>2, StopsKeeps
  <1>3. CASE ~DownloadStops("gone")
    <2>1. /\ vcursor' = vcursor + 1 /\ vstep' = "loop" /\ credit' = credit /\ worker' = worker
          /\ banned' = banned /\ completions' = completions /\ outcome' = outcome
      BY <1>3 DEF EmitPiece
    <2>2. vcursor \in Int /\ 0 <= vcursor
      BY DEF VodInv, VodTypes
    <2>3. vcursor' \in 0 .. VodEnd
      BY <1>1, <2>1, <2>2, VodConstants
    <2>4. VodTypes'
      BY <2>1, <2>3 DEF VodInv, VodTypes
    <2>5. Scheduled'
      BY <1>1, <2>1 DEF VodInv, Scheduled
    <2>6. Crew' = Crew
      BY <2>1 DEF Crew, Working
    <2>7. \A p \in VodPieces : p < vcursor' => credit'[p].got
      <3>1. \A p \in VodPieces : p < vcursor' => p < vcursor \/ p = vcursor
        BY <2>1, <2>2 DEF VodPieces
      <3> QED BY <1>1, <2>1, <3>1 DEF VodInv, Agreed
    <2>8. Agreed'
      BY <1>1, <2>1, <2>6, <2>7 DEF VodInv, Agreed
    <2>9. Employed'
      BY <1>1, <2>1 DEF VodInv, Employed
    <2> QED BY <1>1, <2>1, <2>4, <2>5, <2>8, <2>9 DEF VodInv, GivesUpLast
  <1> QED BY <1>2, <1>3

LEMMA ConnectKeeps ==
    ASSUME VodInv, ConnectPeers PROVE VodInv'
  <1>1. vstep = "schedule" /\ outcome = "none" /\ vcursor < VodEnd
    BY DEF ConnectPeers, VodInv, Scheduled
  <1>2. /\ vcursor' = vcursor /\ credit' = credit /\ banned' = banned
        /\ completions' = completions /\ outcome' = outcome
    BY DEF ConnectPeers
  <1>3. Cardinality(Crew) \in Nat /\ IsFiniteSet(Crew)
    BY CrewIsFinite DEF Crew
  <1>4. CASE ~(Cardinality(Crew) < VodWorkers /\ Connectable # {})
    <2>1. vstep' = "assign" /\ worker' = worker
      BY <1>4 DEF ConnectPeers
    <2>2. Connectable = {} \/ Cardinality(Crew) >= VodWorkers
      BY <1>3, <1>4, VodConstants
    <2> QED BY <1>1, <1>2, <2>1, <2>2, TurnKeeps
  <1>5. CASE Cardinality(Crew) < VodWorkers /\ Connectable # {}
    <2> DEFINE w == [NoWorker EXCEPT !.at = "connecting"]
    <2>1. PICK a \in FirstChoices : worker' = [worker EXCEPT ![a] = w] /\ vstep' = vstep
      BY <1>5 DEF ConnectPeers
    <2>2. w \in WorkerStates /\ w.at = "connecting" /\ w.job = -1
      <3>1. NoWorker \in WorkerStates /\ NoWorker.job = -1
        BY DEF NoWorker, WorkerStates
      <3> QED BY <3>1 DEF WorkerStates
    <2> HIDE DEF w
    <2>3. a \in VodPeers /\ worker[a].at = "none"
      BY DEF FirstChoices, Connectable, Working
    <2>4. /\ worker' \in [VodPeers -> WorkerStates] /\ worker'[a] = w
          /\ \A b \in VodPeers : b # a => worker'[b] = worker[b]
      BY <2>1, <2>2, <2>3 DEF VodInv, VodTypes
    <2>5. VodTypes'
      BY <1>2, <2>1, <2>4 DEF VodInv, VodTypes
    <2>6. Scheduled'
      BY <1>1, <1>2, <2>1 DEF VodInv, Scheduled
    <2>7. Crew' = Crew \cup {a} /\ a \notin Crew
      BY <2>2, <2>3, <2>4 DEF Crew, Working
    <2>8. Cardinality(Crew') <= VodWorkers
      <3>1. Cardinality(Crew') = Cardinality(Crew) + 1
        BY <1>3, <2>7, FS_AddElement
      <3> QED BY <1>3, <1>5, <3>1, VodConstants
    <2>9. worker[a].job = -1
      BY <1>1, <2>3 DEF VodInv, Employed
    <2>10. \A b \in VodPeers : worker'[b].job = worker[b].job
      BY <2>2, <2>4, <2>9
    <2>11. \A p \in VodPieces : credit[p].owner \in VodPeers \cup {NoOwner}
      BY DEF VodInv, VodTypes, CreditStates
    <2>12. Agreed'
      BY <1>1, <1>2, <2>8, <2>10, <2>11 DEF VodInv, Agreed
    <2>13. \A i \in 1 .. Len(completions) : completions[i].by \in VodPeers /\ completions[i].by # a
      <3>1. \A i \in 1 .. Len(completions) : completions[i] \in Verified
        BY DEF VodInv, VodTypes
      <3> QED BY <1>1, <2>3, <3>1 DEF VodInv, Employed, Verified
    <2>14. Employed'
      BY <1>1, <1>2, <2>2, <2>4, <2>13 DEF VodInv, Employed
    <2> QED BY <1>1, <1>2, <2>5, <2>6, <2>12, <2>14 DEF VodInv, GivesUpLast
  <1> QED BY <1>4, <1>5

\* A worker's own step keeps its job; it was at work before and after.
LEMMA WorkerStepKeeps ==
    ASSUME VodInv, NEW a \in VodPeers, NEW w \in WorkerStates,
           worker[a].at \in {"connecting", "ready", "fetching"},
           w.job = worker[a].job, w.at # "none", w.at # "connecting",
           w.at \in {"fetching", "hash"} => worker[a].at = "fetching",
           VodWorkerStep(a, w)
    PROVE  VodInv'
  <1>1. /\ worker' = [worker EXCEPT ![a] = w] /\ vcursor' = vcursor /\ credit' = credit
        /\ banned' = banned /\ completions' = completions /\ vstep' = vstep /\ outcome' = outcome
    BY DEF VodWorkerStep
  <1>2. vstep # "ended" /\ outcome = "none"
    BY DEF VodInv, Scheduled
  <1>3. /\ worker' \in [VodPeers -> WorkerStates] /\ worker'[a] = w
        /\ \A b \in VodPeers : b # a => worker'[b] = worker[b]
    BY <1>1 DEF VodInv, VodTypes
  <1>4. VodTypes'
    BY <1>1, <1>3 DEF VodInv, VodTypes
  <1>5. \A b \in VodPeers : worker'[b].job = worker[b].job
                              /\ (worker'[b].at = "none" <=> worker[b].at = "none")
    BY <1>3
  <1>6. Crew' = Crew /\ Connectable' = Connectable
    BY <1>1, <1>5 DEF Crew, Connectable, Working
  <1>7. Scheduled'
    BY <1>1, <1>2, <1>6 DEF VodInv, Scheduled
  <1>8. \A p \in VodPieces : credit[p].owner \in VodPeers \cup {NoOwner}
    BY DEF VodInv, VodTypes, CreditStates
  <1>9. Agreed'
    BY <1>1, <1>2, <1>5, <1>6, <1>8 DEF VodInv, Agreed
  <1>10. \A i \in 1 .. Len(completions) : completions[i].by \in VodPeers
    <2>1. \A i \in 1 .. Len(completions) : completions[i] \in Verified
      BY DEF VodInv, VodTypes
    <2> QED BY <2>1 DEF Verified
  <1>11. w.at \in {"ready", "failed", "fetching", "hash", "panicked"}
    BY DEF WorkerStates
  <1>12. \A i \in 1 .. Len(completions) : worker'[completions[i].by].at \in {"ready", "failed", "panicked"}
    BY <1>2, <1>3, <1>10, <1>11 DEF VodInv, Employed
  <1>13. \A b \in VodPeers : worker'[b].at \in {"fetching", "hash"} => worker'[b].job # -1
    BY <1>2, <1>3 DEF VodInv, Employed
  <1>14. \A b \in VodPeers : worker'[b].at \in {"none", "connecting"} => worker'[b].job = -1
    BY <1>2, <1>3 DEF VodInv, Employed
  <1>15. Employed'
    BY <1>1, <1>2, <1>5, <1>10, <1>12, <1>13, <1>14 DEF VodInv, Employed
  <1> QED BY <1>1, <1>2, <1>4, <1>7, <1>9, <1>15 DEF VodInv, GivesUpLast

\* Handing out a free piece spends one attempt and changes nobody's membership.
LEMMA AssignKeeps ==
    ASSUME VodInv, AssignPiece PROVE VodInv'
  <1>1. PICK p \in Assignable : \E a \in LeastTried(p) :
          /\ worker[a].at = "ready"
          /\ worker' = [worker EXCEPT ![a].at = "fetching", ![a].job = p]
          /\ credit' = [credit EXCEPT ![p].attempts[a] = @ + 1, ![p].owner = a]
    BY DEF AssignPiece
  <1>2. PICK a \in LeastTried(p) :
          /\ worker[a].at = "ready"
          /\ worker' = [worker EXCEPT ![a].at = "fetching", ![a].job = p]
          /\ credit' = [credit EXCEPT ![p].attempts[a] = @ + 1, ![p].owner = a]
    BY <1>1
  <1>3. /\ vstep = "assign" /\ vcursor' = vcursor /\ banned' = banned
        /\ completions' = completions /\ vstep' = vstep /\ outcome' = outcome
    BY DEF AssignPiece
  <1>4. outcome = "none" /\ vcursor < VodEnd
    BY <1>3 DEF VodInv, Scheduled
  <1>5. /\ p \in VodPieces /\ credit[p].owner = NoOwner /\ ~credit[p].got
        /\ a \in VodPeers /\ worker[a].job = -1
    BY DEF Assignable, InWindow, Unowned, LeastTried, Eligible
  <1> DEFINE w == [worker[a] EXCEPT !.at = "fetching", !.job = p]
             tries == [credit[p].attempts EXCEPT ![a] = @ + 1]
             c == [credit[p] EXCEPT !.attempts = tries, !.owner = a]
  <1>6. /\ worker \in [VodPeers -> WorkerStates] /\ credit \in [VodPieces -> CreditStates]
        /\ worker[a] \in WorkerStates /\ credit[p] \in CreditStates
    BY <1>5 DEF VodInv, VodTypes
  <1>7. w \in WorkerStates /\ w.at = "fetching" /\ w.job = p
    BY <1>5, <1>6 DEF WorkerStates
  <1>8. tries \in [VodPeers -> Nat] /\ \A b \in VodPeers : tries[b] >= credit[p].attempts[b]
    BY <1>5, <1>6 DEF CreditStates
  <1>9. worker' = [worker EXCEPT ![a] = w] /\ credit' = [credit EXCEPT ![p] = c]
    BY <1>2, <1>5, <1>6 DEF CreditStates
  <1> HIDE DEF w, tries
  <1>10. c \in CreditStates /\ c.attempts = tries /\ c.owner = a /\ c.got = credit[p].got
    BY <1>5, <1>6, <1>8 DEF CreditStates
  <1> HIDE DEF c
  <1>11. /\ worker' \in [VodPeers -> WorkerStates] /\ worker'[a] = w
         /\ \A b \in VodPeers : b # a => worker'[b] = worker[b]
    BY <1>5, <1>6, <1>7, <1>9
  <1>12. /\ credit' \in [VodPieces -> CreditStates] /\ credit'[p] = c
         /\ \A q \in VodPieces : q # p => credit'[q] = credit[q]
    BY <1>5, <1>6, <1>9, <1>10
  <1>13. VodTypes'
    BY <1>3, <1>11, <1>12 DEF VodInv, VodTypes
  <1>14. \A b \in VodPeers : worker'[b].at = "none" <=> worker[b].at = "none"
    BY <1>2, <1>7, <1>11
  <1>15. Crew' = Crew
    BY <1>14 DEF Crew, Working
  <1>16. vcursor \in VodPieces /\ credit[vcursor] \in CreditStates
    BY <1>4, <1>6, VodConstants DEF VodInv, VodTypes, VodPieces
  <1>17. \A b \in VodPeers : credit'[vcursor].attempts[b] >= credit[vcursor].attempts[b]
    <2>1. CASE vcursor = p
      BY <1>8, <1>10, <1>12, <2>1
    <2>2. CASE vcursor # p
      BY <1>12, <1>16, <2>2 DEF CreditStates
    <2> QED BY <2>1, <2>2
  <1>18. Connectable = {} => Connectable' = {}
    <2>1. \A b \in VodPeers : /\ credit[vcursor].attempts[b] \in Nat
                              /\ credit'[vcursor].attempts[b] \in Nat
      BY <1>12, <1>16 DEF CreditStates
    <2>2. \A b \in VodPeers : credit'[vcursor].attempts[b] < VodAttempts
                                => credit[vcursor].attempts[b] < VodAttempts
      BY <1>17, <2>1, VodConstants
    <2> QED BY <1>3, <1>14, <2>2 DEF Connectable, Working
  <1>19. Scheduled'
    BY <1>3, <1>4, <1>15, <1>18 DEF VodInv, Scheduled
  <1>20. Agreed
    BY <1>4 DEF VodInv
  <1>21. \A b \in VodPeers : worker'[b].job # -1 => credit'[worker'[b].job].owner = b
    <2> SUFFICES ASSUME NEW b \in VodPeers, worker'[b].job # -1
                 PROVE  credit'[worker'[b].job].owner = b
      OBVIOUS
    <2>1. CASE b = a
      BY <1>7, <1>10, <1>11, <1>12, <2>1
    <2>2. CASE b # a
      <3>1. worker'[b] = worker[b] /\ worker[b].job # -1
        BY <1>11, <2>2
      <3>2. credit[worker[b].job].owner = b /\ b # NoOwner
        BY <1>20, <3>1, VodConstants DEF Agreed
      <3>3. worker[b].job \in VodPieces
        BY <1>6, <3>1 DEF WorkerStates
      <3>4. worker[b].job # p
        BY <1>5, <3>2
      <3> QED BY <1>12, <3>1, <3>2, <3>3, <3>4
    <2> QED BY <2>1, <2>2
  <1>22. \A q \in VodPieces : credit'[q].owner # NoOwner => worker'[credit'[q].owner].job = q
    <2> SUFFICES ASSUME NEW q \in VodPieces, credit'[q].owner # NoOwner
                 PROVE  worker'[credit'[q].owner].job = q
      OBVIOUS
    <2>1. CASE q = p
      BY <1>7, <1>10, <1>11, <1>12, <2>1
    <2>2. CASE q # p
      <3>1. credit'[q] = credit[q] /\ credit[q].owner \in VodPeers
        BY <1>6, <1>12, <2>2 DEF CreditStates
      <3>2. worker[credit[q].owner].job = q
        BY <1>20, <3>1, VodConstants DEF Agreed
      <3>3. credit[q].owner # a
        BY <1>5, <3>2, VodConstants
      <3> QED BY <1>11, <3>1, <3>2, <3>3
    <2> QED BY <2>1, <2>2
  <1>23. \A q \in VodPieces : credit'[q].got = credit[q].got
    BY <1>10, <1>12
  <1>24. Agreed'
    BY <1>3, <1>15, <1>20, <1>21, <1>22, <1>23 DEF Agreed
  <1>25. Employed
    BY <1>4 DEF VodInv
  <1>26. \A i \in 1 .. Len(completions) : completions[i].by \in VodPeers /\ completions[i].by # a
    <2>1. \A i \in 1 .. Len(completions) : completions[i] \in Verified
      BY DEF VodInv, VodTypes
    <2> QED BY <1>5, <1>25, <2>1, VodConstants DEF Employed, Verified
  <1>27. Employed'
    BY <1>3, <1>5, <1>7, <1>11, <1>25, <1>26, VodConstants DEF Employed
  <1> QED BY <1>3, <1>4, <1>13, <1>19, <1>24, <1>27 DEF VodInv, GivesUpLast

\* A verified piece arrives: its worker is idle again, and nobody else had it.
LEMMA CompletionKeeps ==
    ASSUME VodInv, WaitCompletion PROVE VodInv'
  <1> DEFINE done == Head(completions)
             a == done.by
             p == done.piece
  <1>1. /\ vstep = "select" /\ completions # <<>> /\ completions' = Tail(completions)
        /\ credit' = IF credit[p].owner = a
                     THEN [credit EXCEPT ![p].owner = NoOwner, ![p].got = TRUE] ELSE credit
        /\ worker' = [worker EXCEPT ![a].job = -1] /\ vstep' = "loop"
        /\ vcursor' = vcursor /\ banned' = banned /\ outcome' = outcome
    BY DEF WaitCompletion
  <1>2. outcome = "none"
    BY <1>1 DEF VodInv, Scheduled
  <1>3. Agreed /\ Employed
    BY <1>2 DEF VodInv
  <1>4. completions \in Seq(Verified) /\ Len(completions) \in Nat /\ Len(completions) >= 1
    BY <1>1 DEF VodInv, VodTypes
  <1>5. done = completions[1] /\ 1 \in 1 .. Len(completions) /\ done \in Verified
    BY <1>4
  <1>6. a \in VodPeers /\ p \in VodPieces
    BY <1>5 DEF Verified
  <1>7. worker[a].job = p /\ worker[a].at \in {"ready", "failed", "panicked"}
    BY <1>3, <1>5 DEF Employed
  <1>8. credit[p].owner = a
    BY <1>3, <1>6, <1>7, VodConstants DEF Agreed
  <1>9. /\ completions' \in Seq(Verified) /\ Len(completions') = Len(completions) - 1
        /\ \A i \in 1 .. Len(completions') :
             completions'[i] = completions[i + 1] /\ i + 1 \in 1 .. Len(completions)
    BY <1>1, <1>4
  <1> HIDE DEF done, a, p
  <1> DEFINE w == [worker[a] EXCEPT !.job = -1]
             c == [credit[p] EXCEPT !.owner = NoOwner, !.got = TRUE]
  <1>10. /\ worker \in [VodPeers -> WorkerStates] /\ credit \in [VodPieces -> CreditStates]
         /\ worker[a] \in WorkerStates /\ credit[p] \in CreditStates
    BY <1>6 DEF VodInv, VodTypes
  <1>11. w \in WorkerStates /\ w.at = worker[a].at /\ w.job = -1
    BY <1>10 DEF WorkerStates
  <1>12. c \in CreditStates /\ c.owner = NoOwner /\ c.got = TRUE
    BY <1>10 DEF CreditStates
  <1>13. worker' = [worker EXCEPT ![a] = w] /\ credit' = [credit EXCEPT ![p] = c]
    BY <1>1, <1>6, <1>8, <1>10 DEF CreditStates
  <1> HIDE DEF w, c
  <1>14. /\ worker' \in [VodPeers -> WorkerStates] /\ worker'[a] = w
         /\ \A b \in VodPeers : b # a => worker'[b] = worker[b]
    BY <1>6, <1>10, <1>11, <1>13
  <1>15. /\ credit' \in [VodPieces -> CreditStates] /\ credit'[p] = c
         /\ \A q \in VodPieces : q # p => credit'[q] = credit[q]
    BY <1>6, <1>10, <1>12, <1>13
  <1>16. VodTypes'
    BY <1>1, <1>9, <1>14, <1>15 DEF VodInv, VodTypes
  <1>17. Scheduled'
    BY <1>1, <1>2 DEF Scheduled
  <1>18. Crew' = Crew
    <2>1. \A b \in VodPeers : worker'[b].at = worker[b].at
      BY <1>11, <1>14
    <2> QED BY <2>1 DEF Crew, Working
  <1>19. \A b \in VodPeers : worker'[b].job # -1 => credit'[worker'[b].job].owner = b
    <2> SUFFICES ASSUME NEW b \in VodPeers, worker'[b].job # -1
                 PROVE  credit'[worker'[b].job].owner = b
      OBVIOUS
    <2>1. b # a /\ worker'[b] = worker[b] /\ worker[b].job # -1
      BY <1>11, <1>14
    <2>2. credit[worker[b].job].owner = b /\ worker[b].job \in VodPieces
      BY <1>3, <1>10, <2>1 DEF Agreed, WorkerStates
    <2>3. worker[b].job # p
      BY <1>8, <2>1, <2>2
    <2> QED BY <1>15, <2>1, <2>2, <2>3
  <1>20. \A q \in VodPieces : credit'[q].owner # NoOwner => worker'[credit'[q].owner].job = q
    <2> SUFFICES ASSUME NEW q \in VodPieces, credit'[q].owner # NoOwner
                 PROVE  worker'[credit'[q].owner].job = q
      OBVIOUS
    <2>1. q # p /\ credit'[q] = credit[q] /\ credit[q].owner \in VodPeers
      BY <1>10, <1>12, <1>15 DEF CreditStates
    <2>2. worker[credit[q].owner].job = q
      BY <1>3, <2>1, VodConstants DEF Agreed
    <2>3. credit[q].owner # a
      BY <1>7, <2>1, <2>2
    <2> QED BY <1>14, <2>1, <2>2, <2>3
  <1>21. \A q \in VodPieces : q < vcursor' => credit'[q].got
    BY <1>1, <1>3, <1>12, <1>15 DEF Agreed
  <1>22. Agreed'
    BY <1>3, <1>18, <1>19, <1>20, <1>21 DEF Agreed
  <1>23. \A i \in 1 .. Len(completions') : completions'[i].by \in VodPeers /\ completions'[i].by # a
    <2>1. \A i \in 1 .. Len(completions') : completions'[i] \in Verified
      BY <1>9
    <2>2. \A i \in 1 .. Len(completions') : i + 1 # 1
      BY <1>4, <1>9
    <2>3. a = completions[1].by
      BY <1>5 DEF a
    <2> QED BY <1>3, <1>5, <1>9, <2>1, <2>2, <2>3 DEF Employed, Verified
  <1>24. \A i \in 1 .. Len(completions') :
           /\ worker'[completions'[i].by].job = completions'[i].piece
           /\ worker'[completions'[i].by].at \in {"ready", "failed", "panicked"}
    <2> SUFFICES ASSUME NEW i \in 1 .. Len(completions')
                 PROVE  /\ worker'[completions'[i].by].job = completions'[i].piece
                        /\ worker'[completions'[i].by].at \in {"ready", "failed", "panicked"}
      OBVIOUS
    <2>1. completions'[i] = completions[i + 1] /\ i + 1 \in 1 .. Len(completions)
      BY <1>9
    <2>2. worker'[completions'[i].by] = worker[completions'[i].by]
      BY <1>14, <1>23
    <2>3. /\ worker[completions[i + 1].by].job = completions[i + 1].piece
          /\ worker[completions[i + 1].by].at \in {"ready", "failed", "panicked"}
      BY <1>3, <2>1 DEF Employed
    <2> QED BY <2>1, <2>2, <2>3
  <1>25. \A i, j \in 1 .. Len(completions') : completions'[i].by = completions'[j].by => i = j
    <2> SUFFICES ASSUME NEW i \in 1 .. Len(completions'), NEW j \in 1 .. Len(completions'),
                        completions'[i].by = completions'[j].by
                 PROVE  i = j
      OBVIOUS
    <2>1. i + 1 = j + 1
      BY <1>3, <1>9 DEF Employed
    <2> QED BY <1>4, <1>9, <2>1
  <1>26. Employed'
    <2>1. \A b \in VodPeers : worker'[b].at \in {"fetching", "hash"} => worker'[b].job # -1
      BY <1>3, <1>7, <1>11, <1>14 DEF Employed
    <2>2. \A b \in VodPeers : worker'[b].at \in {"none", "connecting"} => worker'[b].job = -1
      BY <1>3, <1>11, <1>14 DEF Employed
    <2> QED BY <1>24, <1>25, <2>1, <2>2 DEF Employed
  <1> QED BY <1>1, <1>2, <1>16, <1>17, <1>22, <1>26 DEF VodInv, GivesUpLast

\* An ended worker is joined with no completion under way, so a job it has is a
\* piece it did not finish.
LEMMA JoinedKeeps ==
    ASSUME VodInv, NEW a \in VodPeers, WaitJoined(a) PROVE VodInv'
  <1>1. /\ vstep = "select" /\ completions = <<>> /\ completions' = completions
        /\ worker[a].at \in {"failed", "hash"}
        /\ worker' = [worker EXCEPT ![a] = NoWorker] /\ vstep' = "loop"
        /\ vcursor' = vcursor /\ outcome' = outcome
    BY DEF WaitJoined
  <1>2. outcome = "none" /\ vcursor < VodEnd
    BY <1>1 DEF VodInv, Scheduled
  <1>3. Agreed /\ Employed
    BY <1>2 DEF VodInv
  <1>4. worker \in [VodPeers -> WorkerStates] /\ credit \in [VodPieces -> CreditStates]
    BY DEF VodInv, VodTypes
  <1>5. NoWorker \in WorkerStates /\ NoWorker.at = "none" /\ NoWorker.job = -1
    BY DEF NoWorker, WorkerStates
  <1>6. /\ worker' \in [VodPeers -> WorkerStates] /\ worker'[a] = NoWorker
        /\ \A b \in VodPeers : b # a => worker'[b] = worker[b]
    BY <1>1, <1>4, <1>5
  <1>7. banned' \subseteq VodPeers
    BY DEF WaitJoined, VodInv, VodTypes
  <1>8. /\ credit' \in [VodPieces -> CreditStates]
        /\ \A q \in VodPieces : credit'[q].got = credit[q].got
        /\ \A q \in VodPieces : credit'[q].owner = IF q = worker[a].job THEN NoOwner ELSE credit[q].owner
    <2>1. CASE worker[a].job # -1
      <3> DEFINE p == worker[a].job
                 c == [credit[p] EXCEPT !.owner = NoOwner]
      <3>1. p \in VodPieces
        BY <1>4, <2>1 DEF WorkerStates
      <3>2. c \in CreditStates /\ c.owner = NoOwner /\ c.got = credit[p].got
        BY <1>4, <3>1 DEF CreditStates
      <3>3. credit' = [credit EXCEPT ![p] = c]
        BY <1>4, <2>1, <3>1 DEF WaitJoined, CreditStates
      <3> HIDE DEF c, p
      <3>4. /\ credit' \in [VodPieces -> CreditStates] /\ credit'[p] = c
            /\ \A q \in VodPieces : q # p => credit'[q] = credit[q]
        BY <1>4, <3>1, <3>2, <3>3
      <3> QED BY <3>2, <3>4 DEF p
    <2>2. CASE worker[a].job = -1
      <3> DEFINE tries == [credit[vcursor].attempts EXCEPT ![a] = @ + 1]
                 c == [credit[vcursor] EXCEPT !.attempts = tries]
      <3>1. vcursor \in VodPieces /\ credit[vcursor] \in CreditStates
        BY <1>2, <1>4, VodConstants DEF VodInv, VodTypes, VodPieces
      <3>2. tries \in [VodPeers -> Nat]
        BY <3>1 DEF CreditStates
      <3>3. credit' = [credit EXCEPT ![vcursor] = c]
        BY <1>4, <2>2, <3>1 DEF WaitJoined, CreditStates
      <3> HIDE DEF tries
      <3>4. c \in CreditStates /\ c.owner = credit[vcursor].owner /\ c.got = credit[vcursor].got
        BY <3>1, <3>2 DEF CreditStates
      <3> HIDE DEF c
      <3>5. /\ credit' \in [VodPieces -> CreditStates] /\ credit'[vcursor] = c
            /\ \A q \in VodPieces : q # vcursor => credit'[q] = credit[q]
        BY <1>4, <3>1, <3>3, <3>4
      <3> QED BY <2>2, <3>4, <3>5, VodConstants
    <2> QED BY <2>1, <2>2
  <1>9. VodTypes'
    BY <1>1, <1>6, <1>7, <1>8 DEF VodInv, VodTypes
  <1>10. Scheduled'
    BY <1>1, <1>2 DEF Scheduled
  <1>11. Cardinality(Crew') <= VodWorkers
    <2>1. Crew' = Crew \ {a} /\ Crew \subseteq VodPeers /\ a \in Crew
      BY <1>1, <1>5, <1>6 DEF Crew, Working
    <2>2. IsFiniteSet(Crew) /\ Cardinality(Crew) \in Nat
      BY <2>1, CrewIsFinite
    <2>3. Cardinality(Crew') = Cardinality(Crew) - 1
      BY <2>1, <2>2, FS_RemoveElement
    <2>4. Cardinality(Crew) <= VodWorkers
      BY <1>3 DEF Agreed
    <2> QED BY <2>2, <2>3, <2>4, VodConstants
  <1>12. \A b \in VodPeers : worker'[b].job # -1 => credit'[worker'[b].job].owner = b
    <2> SUFFICES ASSUME NEW b \in VodPeers, worker'[b].job # -1
                 PROVE  credit'[worker'[b].job].owner = b
      OBVIOUS
    <2>1. b # a /\ worker'[b] = worker[b] /\ worker[b].job # -1
      BY <1>5, <1>6
    <2>2. credit[worker[b].job].owner = b /\ worker[b].job \in VodPieces
      BY <1>3, <1>4, <2>1 DEF Agreed, WorkerStates
    <2>3. worker[b].job # worker[a].job
      BY <1>3, <2>1, <2>2 DEF Agreed
    <2> QED BY <1>8, <2>1, <2>2, <2>3
  <1>13. \A q \in VodPieces : credit'[q].owner # NoOwner => worker'[credit'[q].owner].job = q
    <2> SUFFICES ASSUME NEW q \in VodPieces, credit'[q].owner # NoOwner
                 PROVE  worker'[credit'[q].owner].job = q
      OBVIOUS
    <2>1. q # worker[a].job /\ credit'[q].owner = credit[q].owner
      BY <1>8
    <2>2. credit[q].owner \in VodPeers
      BY <1>4, <2>1 DEF CreditStates
    <2>3. worker[credit[q].owner].job = q
      BY <1>3, <2>1 DEF Agreed
    <2> QED BY <1>6, <2>1, <2>2, <2>3
  <1>14. Agreed'
    BY <1>1, <1>3, <1>8, <1>11, <1>12, <1>13 DEF Agreed
  <1>15. Employed'
    BY <1>1, <1>3, <1>5, <1>6 DEF Employed
  <1> QED BY <1>1, <1>2, <1>9, <1>10, <1>14, <1>15 DEF VodInv, GivesUpLast

\* A worker that verified its piece sends it and keeps the job until it arrives.
LEMMA FetchedKeeps ==
    ASSUME VodInv, NEW a \in VodPeers, worker[a].at = "fetching",
           completions' = Append(completions, [by |-> a, piece |-> worker[a].job]),
           worker' = [worker EXCEPT ![a].at = "ready"],
           UNCHANGED <<vcursor, credit, banned, vstep, outcome, consumer>>
    PROVE  VodInv'
  <1>1. vstep # "ended" /\ outcome = "none"
    BY DEF VodInv, Scheduled
  <1>2. Agreed /\ Employed
    BY <1>1 DEF VodInv
  <1> DEFINE w == [worker[a] EXCEPT !.at = "ready"]
             p == worker[a].job
             done == [by |-> a, piece |-> p]
  <1>3. worker \in [VodPeers -> WorkerStates] /\ worker[a] \in WorkerStates
    BY DEF VodInv, VodTypes
  <1>4. w \in WorkerStates /\ w.at = "ready" /\ w.job = p
    BY <1>3 DEF WorkerStates
  <1>5. p \in VodPieces
    BY <1>2, <1>3 DEF Employed, WorkerStates
  <1>6. done \in Verified /\ done.by = a /\ done.piece = p
    BY <1>5 DEF Verified
  <1>7. worker' = [worker EXCEPT ![a] = w]
    BY <1>3
  <1>8. completions \in Seq(Verified) /\ Len(completions) \in Nat
    BY DEF VodInv, VodTypes
  <1> HIDE DEF w, done
  <1>9. /\ completions' \in Seq(Verified) /\ Len(completions') = Len(completions) + 1
        /\ \A i \in 1 .. Len(completions) : completions'[i] = completions[i]
        /\ completions'[Len(completions) + 1] = done
    <2>1. completions' = Append(completions, done)
      BY DEF done
    <2> QED BY <1>6, <1>8, <2>1
  <1> HIDE DEF p
  <1>10. /\ worker' \in [VodPeers -> WorkerStates] /\ worker'[a] = w
         /\ \A b \in VodPeers : b # a => worker'[b] = worker[b]
    BY <1>3, <1>4, <1>7
  <1>11. VodTypes'
    BY <1>9, <1>10 DEF VodInv, VodTypes
  <1>12. \A b \in VodPeers : worker'[b].job = worker[b].job
                               /\ (worker'[b].at = "none" <=> worker[b].at = "none")
    BY <1>4, <1>10 DEF p
  <1>13. Crew' = Crew /\ Connectable' = Connectable
    BY <1>12 DEF Crew, Connectable, Working
  <1>14. Scheduled'
    BY <1>1, <1>13 DEF VodInv, Scheduled
  <1>15. \A q \in VodPieces : credit[q].owner \in VodPeers \cup {NoOwner}
    BY DEF VodInv, VodTypes, CreditStates
  <1>16. Agreed'
    BY <1>2, <1>12, <1>13, <1>15 DEF Agreed
  <1>17. \A i \in 1 .. Len(completions) : completions[i].by \in VodPeers /\ completions[i].by # a
    <2>1. \A i \in 1 .. Len(completions) : completions[i] \in Verified
      BY <1>8
    <2> QED BY <1>2, <2>1 DEF Employed, Verified
  <1>18. \A i \in 1 .. Len(completions') :
           i \in 1 .. Len(completions) \/ i = Len(completions) + 1
    BY <1>8, <1>9
  <1>19. \A i \in 1 .. Len(completions') :
           /\ worker'[completions'[i].by].job = completions'[i].piece
           /\ worker'[completions'[i].by].at \in {"ready", "failed", "panicked"}
    BY <1>2, <1>4, <1>6, <1>9, <1>10, <1>17, <1>18 DEF Employed
  <1>20. \A i, j \in 1 .. Len(completions') : completions'[i].by = completions'[j].by => i = j
    BY <1>2, <1>6, <1>9, <1>17, <1>18 DEF Employed
  <1>21. \A b \in VodPeers : /\ worker'[b].at \in {"fetching", "hash"} => worker'[b].job # -1
                             /\ worker'[b].at \in {"none", "connecting"} => worker'[b].job = -1
    BY <1>2, <1>4, <1>10 DEF Employed
  <1>22. Employed'
    BY <1>19, <1>20, <1>21 DEF Employed
  <1> QED BY <1>1, <1>11, <1>14, <1>16, <1>22 DEF VodInv, GivesUpLast

\* Without workers and with nobody to connect, every address that did not lie has
\* spent the frontier's budget.
LEMMA AssignDoneKeeps ==
    ASSUME VodInv, AssignDone PROVE VodInv'
  <1>1. vstep = "assign" /\ outcome = "none" /\ vcursor < VodEnd
    BY DEF AssignDone, VodInv, Scheduled
  <1>2. CASE Crew = {}
    <2>1. DownloadStops("unrecoverable")
      BY <1>2 DEF AssignDone
    <2>2. Cardinality(Crew) = 0
      BY <1>2, FS_EmptySet
    <2>3. Connectable = {}
      BY <1>1, <2>2, VodConstants DEF VodInv, Scheduled
    <2>4. \A a \in VodPeers \ banned : ~(credit[vcursor].attempts[a] < VodAttempts)
      BY <1>2, <2>3 DEF Connectable, Crew
    <2>5. \A a \in VodPeers : credit[vcursor].attempts[a] \in Nat
      <3>1. vcursor \in VodPieces
        BY <1>1, VodConstants DEF VodInv, VodTypes, VodPieces
      <3> QED BY <3>1 DEF VodInv, VodTypes, CreditStates
    <2>6. \A a \in VodPeers \ banned : credit[vcursor].attempts[a] >= VodAttempts
      BY <2>4, <2>5, VodConstants
    <2> QED BY <2>1, <2>6, StopsKeeps
  <1>3. CASE Crew # {}
    <2>1. /\ vstep' = "select" /\ vcursor' = vcursor /\ credit' = credit /\ worker' = worker
          /\ banned' = banned /\ completions' = completions /\ outcome' = outcome
      BY <1>3 DEF AssignDone
    <2> QED BY <1>1, <2>1, TurnKeeps
  <1> QED BY <1>2, <1>3

LEMMA LoopTopKeeps ==
    ASSUME VodInv, LoopTop PROVE VodInv'
  <1>1. CASE DownloadStops("ok") \/ DownloadStops("gone")
    BY <1>1, StopsKeeps
  <1>2. CASE ~(DownloadStops("ok") \/ DownloadStops("gone"))
    <2>1. /\ vcursor < VodEnd /\ vstep' = IF credit[vcursor].got THEN "send" ELSE "schedule"
          /\ vcursor' = vcursor /\ credit' = credit /\ worker' = worker
          /\ banned' = banned /\ completions' = completions /\ outcome' = outcome
      BY <1>2, Zenon DEF LoopTop
    <2>2. vstep = "loop"
      BY DEF LoopTop
    <2>3. CASE credit[vcursor].got
      BY <2>1, <2>2, <2>3, TurnKeeps
    <2>4. CASE ~credit[vcursor].got
      BY <2>1, <2>2, <2>4, TurnKeeps
    <2> QED BY <2>3, <2>4
  <1> QED BY <1>1, <1>2

\* Every step of the coordinator, of a worker and of the consumer keeps the
\* invariant.
LEMMA VodKeeps ==
    ASSUME VodInv, VodNext PROVE VodInv'
  <1>1. CASE LoopTop \/ EmitPiece \/ ConnectPeers \/ AssignPiece \/ AssignDone \/ WaitCompletion
    BY <1>1, LoopTopKeeps, EmitKeeps, ConnectKeeps, AssignKeeps, AssignDoneKeeps, CompletionKeeps
  <1>2. CASE WaitGone
    BY <1>2, StopsKeeps DEF WaitGone
  <1>3. ASSUME NEW a \in VodPeers, WaitJoined(a) \/ WaitPanicked(a) PROVE VodInv'
    BY <1>3, JoinedKeeps, StopsKeeps DEF WaitPanicked
  <1>4. CASE WaitNotified
    <2>1. /\ vstep = "select" /\ vstep' = "loop" /\ vcursor' = vcursor /\ credit' = credit
          /\ worker' = worker /\ banned' = banned /\ completions' = completions
          /\ outcome' = outcome
      BY <1>4 DEF WaitNotified
    <2> QED BY <2>1, TurnKeeps
  <1>5. CASE ConsumerReads \/ ConsumerLeaves
    <2>1. /\ outcome = "none" /\ vstep' = vstep /\ vcursor' = vcursor /\ credit' = credit
          /\ worker' = worker /\ banned' = banned /\ completions' = completions
          /\ outcome' = outcome
      BY <1>5 DEF ConsumerReads, ConsumerLeaves, ConsumerBecomes
    <2>2. /\ vstep # "ended" /\ vstep \in {"loop", "send", "schedule", "assign", "select"}
          /\ vstep # "loop" => vcursor < VodEnd
          /\ vstep = "send" => credit[vcursor].got
          /\ vstep = "assign" => Connectable = {} \/ Cardinality(Crew) >= VodWorkers
      BY <2>1 DEF VodInv, VodTypes, Scheduled
    <2> QED BY <2>1, <2>2, TurnKeeps
  <1>6. ASSUME NEW a \in VodPeers,
               WorkerConnects(a) \/ PeerSpeaks(a) \/ WorkerGivesUp(a) \/ WorkerFetched(a)
               \/ WorkerPanics(a)
        PROVE  VodInv'
    <2>1. worker[a] \in WorkerStates
      BY DEF VodInv, VodTypes
    <2>2. ASSUME NEW at \in {"ready", "failed", "hash", "panicked"}, worker[a].at # "none",
                 worker[a].at \in {"connecting", "ready", "fetching"},
                 at = "hash" => worker[a].at = "fetching",
                 VodWorkerStep(a, [worker[a] EXCEPT !.at = at])
          PROVE  VodInv'
      <3> DEFINE w == [worker[a] EXCEPT !.at = at]
      <3>1. w \in WorkerStates /\ w.at = at /\ w.job = worker[a].job
        BY <2>1 DEF WorkerStates
      <3>2. VodWorkerStep(a, w)
        BY <2>2
      <3> HIDE DEF w
      <3> QED BY <2>2, <3>1, <3>2, WorkerStepKeeps
    <2>3. CASE WorkerConnects(a)
      BY <2>2, <2>3 DEF WorkerConnects
    <2>4. CASE WorkerGivesUp(a)
      BY <2>2, <2>4 DEF WorkerGivesUp
    <2>5. CASE WorkerFetched(a)
      BY <2>2, <2>5, FetchedKeeps DEF WorkerFetched
    <2>6. CASE PeerSpeaks(a)
      <3>1. worker[a].at = "ready" \/ worker[a].at = "fetching"
        BY <2>6 DEF PeerSpeaks
      <3>2. ASSUME NEW w \in WorkerStates, w.at = worker[a].at, w.job = worker[a].job,
                   VodWorkerStep(a, w)
            PROVE  VodInv'
        BY <3>1, <3>2, WorkerStepKeeps
      <3>3. CASE VodWorkerStep(a, [worker[a] EXCEPT !.unchoked = ~@])
        <4> DEFINE w == [worker[a] EXCEPT !.unchoked = ~@]
        <4>1. w \in WorkerStates /\ w.at = worker[a].at /\ w.job = worker[a].job
          BY <2>1 DEF WorkerStates
        <4>2. VodWorkerStep(a, w)
          BY <3>3
        <4> HIDE DEF w
        <4> QED BY <3>2, <4>1, <4>2
      <3>4. ASSUME NEW gone \in SUBSET VodPieces, VodWorkerStep(a, [worker[a] EXCEPT !.lacks = gone])
            PROVE  VodInv'
        <4> DEFINE w == [worker[a] EXCEPT !.lacks = gone]
        <4>1. w \in WorkerStates /\ w.at = worker[a].at /\ w.job = worker[a].job
          BY <2>1 DEF WorkerStates
        <4>2. VodWorkerStep(a, w)
          BY <3>4
        <4> HIDE DEF w
        <4> QED BY <3>2, <4>1, <4>2
      <3>5. \A p \in VodPieces : {p} \in SUBSET VodPieces
        OBVIOUS
      <3>6. {} \in SUBSET VodPieces
        OBVIOUS
      <3> QED BY <2>6, <3>3, <3>4, <3>5, <3>6 DEF PeerSpeaks
    <2>7. CASE WorkerPanics(a)
      BY <2>2, <2>7 DEF WorkerPanics
    <2> QED BY <1>6, <2>3, <2>4, <2>5, <2>6, <2>7
  <1> QED BY <1>1, <1>2, <1>3, <1>4, <1>5, <1>6 DEF VodNext, CoordinatorStep

LEMMA VodStutters ==
    ASSUME VodInv, UNCHANGED vodVars PROVE VodInv'
  <1>1. /\ vcursor' = vcursor /\ credit' = credit /\ worker' = worker /\ banned' = banned
        /\ completions' = completions /\ vstep' = vstep /\ outcome' = outcome
    BY DEF vodVars
  <1>2. Crew' = Crew /\ Connectable' = Connectable
    BY <1>1 DEF Crew, Connectable, Working
  <1>3. VodTypes' /\ Scheduled'
    BY <1>1, <1>2 DEF VodInv, VodTypes, Scheduled
  <1>4. (outcome = "none" => Agreed /\ Employed)' /\ GivesUpLast'
    BY <1>1, <1>2 DEF VodInv, Agreed, Employed, GivesUpLast
  <1> QED BY <1>3, <1>4 DEF VodInv

-----------------------------------------------------------------------------
(* The theorems                                                            *)

\* The strengthened invariant of both components: interest is a list of members
\* and the choke follows it; every piece on its way has its worker and owner.
THEOREM SharingInvariant ==
    UpSpec => [](ServingInv /\ VodInv)
  <1>1. ASSUME UpInit PROVE ServingInv /\ VodInv
    BY <1>1, ServingStarts, VodStarts DEF UpInit
  <1>2. ASSUME ServingInv, VodInv, [UpNext]_upVars PROVE ServingInv' /\ VodInv'
    <2>1. ServingNext \/ UNCHANGED servingVars
      BY <1>2 DEF UpNext, upVars
    <2>2. VodNext \/ UNCHANGED vodVars
      BY <1>2 DEF UpNext, upVars
    <2>3. ServingInv'
      BY <1>2, <2>1, ServingKeeps, ServingStutters
    <2>4. VodInv'
      BY <1>2, <2>2, VodKeeps, VodStutters
    <2> QED BY <2>3, <2>4
  <1> QED BY <1>1, <1>2, PTL DEF UpSpec

\* Once every operation of the coordinator has recomputed, the channels say
\* exactly what the choker chose, a session that looked follows its channel and
\* nobody who left is unchoked; a piece of a download is fetched by the one
\* worker its credit names, verified pieces are never dropped, the crew stays
\* within its bound, and the download gives up only when every address that did
\* not lie has spent its attempts on the frontier.
THEOREM SharingHolds ==
    UpSpec => []SharingIsSound
  <1>1. ServingInv /\ VodInv => SharingIsSound
    BY VodInvIsSound DEF ServingInv, SharingIsSound
  <1> QED BY <1>1, SharingInvariant, PTL
=============================================================================
