----------------------------- MODULE LeaseProofs -----------------------------
(***************************************************************************)
(* Theorems about the playback leases of the compatibility API (AceLeases),*)
(* for every set of tokens, every capacity and every life of a lease.      *)
(*                                                                         *)
(* What makes the properties inductive: a lease leaves the map only        *)
(* together with its cancel channel, so a request that is opening its      *)
(* source or streaming has its lease or has been told; and a lease of an   *)
(* HLS client that enters the map while the reaper sleeps leaves a wake-up *)
(* behind.                                                                 *)
(***************************************************************************)
EXTENDS MCNode, FiniteSetTheorems, WellFoundedInduction, TLAPS

LeaseTypes ==
    /\ now \in Nat
    /\ lease \subseteq AceTokens /\ IsFiniteSet(lease)
    /\ expiry \in [AceTokens -> Nat]
    /\ request \in [AceTokens -> {"idle", "minted", "given", "opening", "body", "ended", "failed"}]
    /\ woken \in BOOLEAN
    /\ reaper \in [at : {"off", "look", "sleep"}, deadline : Nat]

\* Whoever opens or streams has its lease, or its cancel channel was set.
OpenIsTold ==
    \A t \in AceTokens : request[t] \in {"opening", "body"} => t \in lease \/ t \in revoked

LeaseInv ==
    LeaseTypes /\ OpenIsTold /\ LeasesAreBounded /\ DirectLeaseIsRemoved /\ ReaperIsTimely

LEMMA LeaseInvIsSound ==
    ASSUME LeaseInv PROVE LeasesAreSound
  BY DEF LeaseInv, OpenIsTold, LeasesAreSound, BodiesAreTold, BodyMustEnd

LEMMA LeaseConstants ==
    /\ Capacity \in Nat /\ Capacity >= 1 /\ Ttl \in Nat /\ Horizon \in Nat /\ Never \in Nat
    /\ \A t \in DirectTokens \cup JsonTokens : t \notin HlsTokens /\ t \in AceTokens
    /\ \A t \in HlsTokens : t \in AceTokens
    /\ DirectTokens \subseteq AceTokens
  BY LeaseAssumption DEF LeaseAssumption, Never, AceTokens

LEMMA MinOfNaturals ==
    ASSUME NEW S \in SUBSET Nat, S # {} PROVE Min(S) \in S /\ \A x \in S : Min(S) <= x
  <1> DEFINE R == OpToRel(<, Nat)
  <1>1. IsWellFoundedOn(R, Nat)
    BY NatLessThanWellFounded
  <1>2. \A x, y \in Nat : <<x, y>> \in R <=> x < y
    BY DEF OpToRel
  <1> HIDE DEF R
  <1>3. PICK x \in S : \A y \in S : ~(<<y, x>> \in R)
    BY <1>1, WFMin
  <1>4. ASSUME NEW y \in S PROVE x <= y
    <2>1. x \in Nat /\ y \in Nat
      OBVIOUS
    <2>2. ~(y < x)
      BY <1>2, <1>3, <2>1
    <2> QED BY <2>1, <2>2
  <1> QED BY <1>4 DEF Min

LEMMA LeasesStart ==
    ASSUME AceInit PROVE LeaseInv
  <1>1. LeaseTypes
    BY LeaseConstants, FS_EmptySet DEF AceInit, LeaseTypes
  <1>2. LeasesAreBounded
    BY LeaseConstants, FS_EmptySet DEF AceInit, LeasesAreBounded
  <1>3. OpenIsTold /\ DirectLeaseIsRemoved /\ ReaperIsTimely
    BY LeaseConstants DEF AceInit, OpenIsTold, DirectLeaseIsRemoved, ReaperIsTimely
  <1> QED BY <1>1, <1>2, <1>3 DEF LeaseInv

\* A smaller map is no fuller, and its leases of HLS clients were there before.
LEMMA FewerLeases ==
    ASSUME LeaseInv, NEW S, S \subseteq lease
    PROVE  /\ S \subseteq AceTokens /\ IsFiniteSet(S)
           /\ Cardinality(S) \in Nat /\ Cardinality(S) <= Cardinality(lease)
           /\ Cardinality(S) <= Capacity
  <1>1. IsFiniteSet(lease) /\ lease \subseteq AceTokens /\ Cardinality(lease) <= Capacity
    BY DEF LeaseInv, LeaseTypes, LeasesAreBounded
  <1>2. /\ IsFiniteSet(S) /\ Cardinality(S) \in Nat /\ Cardinality(lease) \in Nat
        /\ Cardinality(S) <= Cardinality(lease)
    BY <1>1, FS_Subset, FS_CardinalityType
  <1> QED BY <1>1, <1>2, LeaseConstants

\* Leases leave the map together with their channels, some request moves on, and
\* time, deadlines and the reaper's schedule stay as they are.
LEMMA LeavingKeeps ==
    ASSUME LeaseInv, NEW gone, lease' = lease \ gone, revoked' = revoked \cup (gone \cap lease),
           expiry' = expiry, now' = now, reaper' = reaper, woken' \in BOOLEAN, woken => woken',
           request' \in [AceTokens -> {"idle", "minted", "given", "opening", "body", "ended", "failed"}],
           \A t \in AceTokens : request'[t] \in {"opening", "body"} /\ request[t] \notin {"opening", "body"}
                                  => t \in lease',
           \A t \in DirectTokens : request'[t] = "ended" /\ request[t] # "ended" => t \notin lease'
    PROVE  LeaseInv'
  <1>1. /\ lease' \subseteq lease /\ lease' \subseteq AceTokens /\ IsFiniteSet(lease')
        /\ Cardinality(lease') <= Capacity
    BY FewerLeases
  <1>2. LeaseTypes'
    BY <1>1 DEF LeaseInv, LeaseTypes
  <1>3. OpenIsTold'
    BY DEF LeaseInv, OpenIsTold
  <1>4. LeasesAreBounded'
    BY <1>1 DEF LeasesAreBounded
  <1>5. DirectLeaseIsRemoved'
    BY <1>1 DEF LeaseInv, DirectLeaseIsRemoved
  <1>6. ReaperIsTimely'
    BY <1>1 DEF LeaseInv, ReaperIsTimely, Pinned
  <1> QED BY <1>2, <1>3, <1>4, <1>5, <1>6 DEF LeaseInv

\* insert_with_pin: room is made first, and the reaper hears of an HLS lease.
LEMMA InsertKeeps ==
    ASSUME LeaseInv, NEW t \in AceTokens, Insert(t), request[t] = "idle",
           NEW next \in {"minted", "given"}, request' = [request EXCEPT ![t] = next],
           now' = now, reaper' = reaper
    PROVE  LeaseInv'
  <1>1. PICK evicted \in Evictable :
          /\ lease' = (Purged \ evicted) \cup {t}
          /\ revoked' = revoked \cup (Expired \cup evicted)
          /\ expiry' = [expiry EXCEPT ![t] = now + Ttl]
          /\ IF t \in HlsTokens \/ evicted \cap HlsTokens # {} THEN Wake ELSE UNCHANGED woken
    BY DEF Insert, Takes
  <1> DEFINE kept == Purged \ evicted
  <1>2. kept \subseteq lease /\ Purged \subseteq lease
    BY DEF Purged
  <1>3. IsFiniteSet(kept) /\ Cardinality(kept) \in Nat /\ Cardinality(kept) + 1 <= Capacity
    <2>1. /\ IsFiniteSet(Purged) /\ Cardinality(Purged) \in Nat /\ Cardinality(Purged) <= Capacity
          /\ IsFiniteSet(kept) /\ Cardinality(kept) \in Nat
      BY <1>2, FewerLeases
    <2>2. CASE Cardinality(Purged) < Capacity
      <3>1. evicted = {} /\ kept = Purged
        BY <2>2 DEF Evictable
      <3> QED BY <2>1, <2>2, <3>1, LeaseConstants
    <2>3. CASE ~(Cardinality(Purged) < Capacity)
      <3>1. PICK o \in Purged : evicted = {o}
        BY <2>3 DEF Evictable
      <3>2. Cardinality(kept) = Cardinality(Purged) - 1
        BY <2>1, <3>1, FS_RemoveElement
      <3> QED BY <2>1, <3>2, LeaseConstants
    <2> QED BY <2>2, <2>3
  <1>4. /\ IsFiniteSet(lease') /\ Cardinality(lease') <= Capacity
        /\ lease' = kept \cup {t} /\ lease' \subseteq AceTokens
    <2>1. lease' = kept \cup {t}
      BY <1>1
    <2>2. lease' \subseteq AceTokens
      BY <1>2, <2>1 DEF LeaseInv, LeaseTypes
    <2>3. CASE t \in kept
      <3>1. lease' = kept
        BY <2>1, <2>3
      <3>2. Cardinality(kept) <= Capacity
        BY <1>3, LeaseConstants
      <3> HIDE DEF kept
      <3> QED BY <1>3, <2>1, <2>2, <3>1, <3>2
    <2>4. CASE t \notin kept
      <3>1. IsFiniteSet(kept \cup {t}) /\ Cardinality(kept \cup {t}) = Cardinality(kept) + 1
        BY <1>3, <2>4, FS_AddElement
      <3> QED BY <1>3, <2>1, <2>2, <3>1
    <2> QED BY <2>3, <2>4
  <1> HIDE DEF kept
  <1>5. /\ request' \in [AceTokens -> {"idle", "minted", "given", "opening", "body", "ended", "failed"}]
        /\ request'[t] = next /\ \A s \in AceTokens : s # t => request'[s] = request[s]
    BY DEF LeaseInv, LeaseTypes
  <1>6. expiry' \in [AceTokens -> Nat] /\ \A s \in AceTokens : s # t => expiry'[s] = expiry[s]
    BY <1>1, LeaseConstants DEF LeaseInv, LeaseTypes
  <1>7. woken' \in BOOLEAN /\ (woken => woken') /\ (t \in HlsTokens /\ reaper.at # "off" => woken')
    <2>1. CASE t \in HlsTokens \/ evicted \cap HlsTokens # {}
      BY <1>1, <2>1 DEF Wake, LeaseInv, LeaseTypes
    <2>2. CASE ~(t \in HlsTokens \/ evicted \cap HlsTokens # {})
      BY <1>1, <2>2 DEF LeaseInv, LeaseTypes
    <2> QED BY <2>1, <2>2
  <1>8. LeaseTypes'
    BY <1>4, <1>5, <1>6, <1>7 DEF LeaseInv, LeaseTypes
  <1>9. OpenIsTold'
    <2>1. \A s \in lease : s \in kept \/ s \in Expired \cup evicted
      BY DEF kept, Purged
    <2> QED BY <1>1, <1>4, <1>5, <2>1 DEF LeaseInv, OpenIsTold
  <1>10. LeasesAreBounded'
    BY <1>4 DEF LeasesAreBounded
  <1>11. DirectLeaseIsRemoved'
    BY <1>2, <1>4, <1>5, LeaseConstants DEF LeaseInv, DirectLeaseIsRemoved
  <1>12. ReaperIsTimely'
    <2> SUFFICES ASSUME reaper.at = "sleep", ~woken', NEW s \in Pinned'
                 PROVE  reaper.deadline <= expiry'[s]
      BY DEF ReaperIsTimely
    <2>1. ~woken /\ t \notin HlsTokens
      BY <1>7
    <2>2. s \in HlsTokens /\ s \in lease /\ s # t /\ s \in AceTokens
      BY <1>2, <1>4, <2>1, LeaseConstants DEF Pinned
    <2>3. reaper.deadline <= expiry[s]
      BY <2>1, <2>2 DEF LeaseInv, ReaperIsTimely, Pinned
    <2> QED BY <1>6, <2>2, <2>3
  <1> QED BY <1>8, <1>9, <1>10, <1>11, <1>12 DEF LeaseInv

\* A request purges the map and goes on to `next'.
LEMMA PurgingKeeps ==
    ASSUME LeaseInv, lease' = Purged, Takes(Expired), expiry' = expiry, now' = now,
           reaper' = reaper, woken' = woken, NEW t \in AceTokens,
           NEW next \in {"given", "opening", "body", "ended"},
           request' = [request EXCEPT ![t] = next],
           next \in {"opening", "body"} => t \in Purged,
           next = "ended" => t \notin Purged
    PROVE  LeaseInv'
  <1>1. lease' = lease \ Expired /\ revoked' = revoked \cup (Expired \cap lease)
    BY DEF Purged, Takes, Expired
  <1>2. /\ request' \in [AceTokens -> {"idle", "minted", "given", "opening", "body", "ended", "failed"}]
        /\ request'[t] = next /\ \A s \in AceTokens : s # t => request'[s] = request[s]
    BY DEF LeaseInv, LeaseTypes
  <1>3. \A s \in AceTokens : request'[s] \in {"opening", "body"} /\ request[s] \notin {"opening", "body"}
                                 => s \in lease'
    BY <1>2
  <1>4. \A s \in DirectTokens : request'[s] = "ended" /\ request[s] # "ended" => s \notin lease'
    BY <1>2, LeaseConstants
  <1>5. woken' \in BOOLEAN /\ (woken => woken')
    BY DEF LeaseInv, LeaseTypes
  <1> QED BY <1>1, <1>2, <1>3, <1>4, <1>5, LeavingKeeps

\* A request goes on and the map stays as it is.
LEMMA RequestKeeps ==
    ASSUME LeaseInv, UNCHANGED <<now, lease, expiry, revoked, reaper, woken>>, NEW t \in AceTokens,
           NEW next \in {"body", "given", "failed", "ended"}, request' = [request EXCEPT ![t] = next],
           next = "body" => request[t] = "opening", next = "ended" => t \notin DirectTokens
    PROVE  LeaseInv'
  <1>1. /\ lease' = lease \ {} /\ revoked' = revoked \cup ({} \cap lease)
        /\ expiry' = expiry /\ now' = now /\ reaper' = reaper
    OBVIOUS
  <1>2. /\ request' \in [AceTokens -> {"idle", "minted", "given", "opening", "body", "ended", "failed"}]
        /\ request'[t] = next /\ \A s \in AceTokens : s # t => request'[s] = request[s]
    BY DEF LeaseInv, LeaseTypes
  <1>3. \A s \in AceTokens : request'[s] \in {"opening", "body"} /\ request[s] \notin {"opening", "body"}
                                 => s \in lease'
    BY <1>2
  <1>4. \A s \in DirectTokens : request'[s] = "ended" /\ request[s] # "ended" => s \notin lease'
    BY <1>2, LeaseConstants
  <1>5. woken' \in BOOLEAN /\ (woken => woken')
    BY DEF LeaseInv, LeaseTypes
  <1> QED BY <1>1, <1>2, <1>3, <1>4, <1>5, LeavingKeeps

\* A lease is given back by name.
LEMMA EndingKeeps ==
    ASSUME LeaseInv, NEW t \in AceTokens, EndLease(t), now' = now, reaper' = reaper,
           NEW next \in {"failed", "ended"},
           \/ request' = [request EXCEPT ![t] = next]
           \/ request' = request
    PROVE  LeaseInv'
  <1>1. lease' = lease \ {t} /\ revoked' = revoked \cup ({t} \cap lease) /\ expiry' = expiry
    BY DEF EndLease, Takes
  <1>2. /\ request' \in [AceTokens -> {"idle", "minted", "given", "opening", "body", "ended", "failed"}]
        /\ request'[t] \in {next, request[t]} /\ \A s \in AceTokens : s # t => request'[s] = request[s]
    BY DEF LeaseInv, LeaseTypes
  <1>3. \A s \in AceTokens : request'[s] \in {"opening", "body"} /\ request[s] \notin {"opening", "body"}
                                 => s \in lease'
    BY <1>2
  <1>4. \A s \in DirectTokens : request'[s] = "ended" /\ request[s] # "ended" => s \notin lease'
    BY <1>1, <1>2, LeaseConstants
  <1>5. woken' \in BOOLEAN /\ (woken => woken')
    BY DEF EndLease, Wake, LeaseInv, LeaseTypes
  <1> QED BY <1>1, <1>2, <1>3, <1>4, <1>5, LeavingKeeps

LEMMA LooksKeeps ==
    ASSUME LeaseInv, ReaperLooks PROVE LeaseInv'
  <1> DEFINE S == {expiry[t] : t \in Pinned} \cup {Never}
             next == [at |-> "sleep", deadline |-> Min(S)]
  <1>1. /\ reaper' = next /\ now' = now /\ lease' = lease /\ expiry' = expiry
        /\ revoked' = revoked /\ request' = request /\ woken' = woken
    BY DEF ReaperLooks
  <1>2. \A t \in Pinned : t \in AceTokens
    BY DEF Pinned, LeaseInv, LeaseTypes
  <1>3. S \in SUBSET Nat /\ S # {}
    BY <1>2, LeaseConstants DEF LeaseInv, LeaseTypes
  <1>4. \A t \in Pinned : expiry[t] \in S
    OBVIOUS
  <1> HIDE DEF S
  <1>5. Min(S) \in Nat /\ \A t \in Pinned : Min(S) <= expiry[t]
    BY <1>3, <1>4, MinOfNaturals
  <1>6. next \in [at : {"off", "look", "sleep"}, deadline : Nat] /\ next.deadline = Min(S)
    BY <1>5
  <1> HIDE DEF next
  <1>7. LeaseTypes'
    BY <1>1, <1>6 DEF LeaseInv, LeaseTypes
  <1>8. ReaperIsTimely'
    BY <1>1, <1>5, <1>6 DEF ReaperIsTimely, Pinned
  <1>9. OpenIsTold' /\ LeasesAreBounded' /\ DirectLeaseIsRemoved'
    BY <1>1 DEF LeaseInv, OpenIsTold, LeasesAreBounded, DirectLeaseIsRemoved
  <1> QED BY <1>7, <1>8, <1>9 DEF LeaseInv

\* Nothing is asked of a reaper that is about to look.
LEMMA AwakeKeeps ==
    ASSUME LeaseInv, lease' \subseteq lease, \A t \in lease \ lease' : t \in revoked',
           revoked \subseteq revoked', expiry' = expiry, now' = now, woken' \in BOOLEAN,
           NEW next \in [at : {"off", "look", "sleep"}, deadline : Nat], next.at = "look", reaper' = next,
           request' = request
    PROVE  LeaseInv'
  <1>1. /\ lease' \subseteq AceTokens /\ IsFiniteSet(lease') /\ Cardinality(lease') <= Capacity
    BY FewerLeases
  <1>2. LeaseTypes'
    BY <1>1 DEF LeaseInv, LeaseTypes
  <1>3. OpenIsTold' /\ LeasesAreBounded' /\ DirectLeaseIsRemoved'
    BY <1>1 DEF LeaseInv, OpenIsTold, LeasesAreBounded, DirectLeaseIsRemoved
  <1>4. ReaperIsTimely'
    BY DEF ReaperIsTimely
  <1> QED BY <1>2, <1>3, <1>4 DEF LeaseInv

LEMMA SleepsKeeps ==
    ASSUME LeaseInv, ReaperSleeps PROVE LeaseInv'
  <1> DEFINE next == [reaper EXCEPT !.at = "look"]
  <1>1. next \in [at : {"off", "look", "sleep"}, deadline : Nat] /\ next.at = "look"
    BY DEF LeaseInv, LeaseTypes
  <1>2. reaper' = next /\ now' = now /\ expiry' = expiry /\ request' = request
    BY DEF ReaperSleeps
  <1>3. lease' \subseteq lease /\ (\A t \in lease \ lease' : t \in revoked') /\ revoked \subseteq revoked'
    BY DEF ReaperSleeps, Takes, Purged
  <1>4. woken' \in BOOLEAN
    BY DEF ReaperSleeps, LeaseInv, LeaseTypes
  <1> HIDE DEF next
  <1> QED BY <1>1, <1>2, <1>3, <1>4, AwakeKeeps

\* mint_hls starts the reaper, or wakes the one that runs.
LEMMA MintKeeps ==
    ASSUME LeaseInv, NEW t \in AceTokens, MintHls(t) PROVE LeaseInv'
  <1>1. /\ request' = [request EXCEPT ![t] = "given"] /\ woken' = TRUE
        /\ reaper' = IF reaper.at = "off" THEN [reaper EXCEPT !.at = "look"] ELSE reaper
        /\ now' = now /\ lease' = lease /\ expiry' = expiry /\ revoked' = revoked
    BY DEF MintHls
  <1>2. /\ request' \in [AceTokens -> {"idle", "minted", "given", "opening", "body", "ended", "failed"}]
        /\ request'[t] = "given" /\ \A s \in AceTokens : s # t => request'[s] = request[s]
    BY <1>1 DEF LeaseInv, LeaseTypes
  <1>3. reaper' \in [at : {"off", "look", "sleep"}, deadline : Nat]
    BY <1>1 DEF LeaseInv, LeaseTypes
  <1>4. LeaseTypes'
    BY <1>1, <1>2, <1>3 DEF LeaseInv, LeaseTypes
  <1>5. OpenIsTold' /\ LeasesAreBounded' /\ DirectLeaseIsRemoved'
    BY <1>1, <1>2, LeaseConstants DEF LeaseInv, OpenIsTold, LeasesAreBounded, DirectLeaseIsRemoved
  <1>6. ReaperIsTimely'
    BY <1>1 DEF ReaperIsTimely
  <1> QED BY <1>4, <1>5, <1>6 DEF LeaseInv

\* Validate purges on behalf of nobody in particular; time alone changes nothing
\* the invariant speaks of.
LEMMA ValidateKeeps ==
    ASSUME LeaseInv, Validate PROVE LeaseInv'
  <1>1. /\ lease' = lease \ Expired /\ revoked' = revoked \cup (Expired \cap lease)
        /\ expiry' = expiry /\ now' = now /\ reaper' = reaper /\ woken' = woken
        /\ request' = request
    BY DEF Validate, Purged, Takes, Expired
  <1>2. /\ request' \in [AceTokens -> {"idle", "minted", "given", "opening", "body", "ended", "failed"}]
        /\ woken' \in BOOLEAN
    BY <1>1 DEF LeaseInv, LeaseTypes
  <1> QED BY <1>1, <1>2, LeavingKeeps

LEMMA TickKeeps ==
    ASSUME LeaseInv, AceTick \/ UNCHANGED leaseVars PROVE LeaseInv'
  <1>1. /\ lease' = lease /\ expiry' = expiry /\ revoked' = revoked /\ request' = request
        /\ reaper' = reaper /\ woken' = woken
    BY DEF AceTick, leaseVars
  <1>2. now' \in Nat
    BY DEF AceTick, leaseVars, LeaseInv, LeaseTypes
  <1>3. LeaseTypes'
    BY <1>1, <1>2 DEF LeaseInv, LeaseTypes
  <1>4. OpenIsTold' /\ LeasesAreBounded' /\ DirectLeaseIsRemoved' /\ ReaperIsTimely'
    BY <1>1 DEF LeaseInv, OpenIsTold, LeasesAreBounded, DirectLeaseIsRemoved, ReaperIsTimely, Pinned
  <1> QED BY <1>3, <1>4 DEF LeaseInv

\* Every step keeps the invariant.
LEMMA LeasesKeep ==
    ASSUME LeaseInv, AceNext PROVE LeaseInv'
  <1>1. ASSUME NEW t \in AceTokens, GetStream(t) PROVE LeaseInv'
    <2>1. \E next \in {"minted", "given"} : request' = [request EXCEPT ![t] = next]
      BY <1>1 DEF GetStream
    <2> QED BY <1>1, <2>1, InsertKeeps DEF GetStream, MayMint
  <1>2. ASSUME NEW t \in AceTokens, Lookup(t) PROVE LeaseInv'
    BY <1>2, PurgingKeeps DEF Lookup
  <1>3. ASSUME NEW t \in AceTokens, AcePlayback(t) PROVE LeaseInv'
    BY <1>3, PurgingKeeps DEF AcePlayback
  <1>4. ASSUME NEW t \in AceTokens, BodyStarts(t) PROVE LeaseInv'
    BY <1>4, RequestKeeps DEF BodyStarts
  <1>5. ASSUME NEW t \in AceTokens, StartFails(t) PROVE LeaseInv'
    <2>1. CASE t \in DirectTokens /\ t \notin Expired
      BY <1>5, <2>1, EndingKeeps DEF StartFails
    <2>2. CASE ~(t \in DirectTokens /\ t \notin Expired)
      BY <1>5, <2>2, RequestKeeps DEF StartFails
    <2> QED BY <2>1, <2>2
  <1>6. ASSUME NEW t \in AceTokens, StartDropped(t) PROVE LeaseInv'
    BY <1>6, RequestKeeps DEF StartDropped
  <1>7. ASSUME NEW t \in AceTokens, BodyEnds(t) PROVE LeaseInv'
    <2>1. CASE t \in DirectTokens
      BY <1>7, <2>1, EndingKeeps DEF BodyEnds, GuardDrops
    <2>2. CASE t \notin DirectTokens
      BY <1>7, <2>2, RequestKeeps DEF BodyEnds, GuardDrops
    <2> QED BY <2>1, <2>2
  <1>8. ASSUME NEW t \in AceTokens, Manifest(t) PROVE LeaseInv'
    BY <1>8, InsertKeeps DEF Manifest, MayMint
  <1>9. ASSUME NEW t \in AceTokens, MintHls(t) PROVE LeaseInv'
    BY <1>9, MintKeeps
  <1>10. ASSUME NEW t \in AceTokens, HlsPoll(t) \/ HlsAnswer(t) PROVE LeaseInv'
    BY <1>10, PurgingKeeps DEF HlsPoll, HlsAnswer
  <1>11. ASSUME NEW t \in AceTokens, AceCommand(t) PROVE LeaseInv'
    BY <1>11, EndingKeeps DEF AceCommand
  <1> QED BY <1>1, <1>2, <1>3, <1>4, <1>5, <1>6, <1>7, <1>8, <1>9, <1>10, <1>11,
             ValidateKeeps, LooksKeeps, SleepsKeeps, TickKeeps DEF AceNext

-----------------------------------------------------------------------------
(* The theorems                                                            *)

\* The strengthened invariant of the leases.
THEOREM LeaseInvariant ==
    NodeSpec => []LeaseInv
  <1>1. ASSUME NodeInit PROVE LeaseInv
    BY <1>1, LeasesStart DEF NodeInit
  <1>2. ASSUME LeaseInv, [NodeNext]_nodeVars PROVE LeaseInv'
    <2>1. AceNext \/ UNCHANGED leaseVars
      BY <1>2 DEF NodeNext, nodeVars
    <2> QED BY <1>2, <2>1, LeasesKeep, TickKeeps
  <1> QED BY <1>1, <1>2, PTL DEF NodeSpec

\* The map of leases keeps to its capacity; a body whose lease was revoked,
\* evicted or reaped has been told or is past its deadline; a direct request
\* leaves no lease behind; and the reaper never sleeps past the first deadline of
\* an HLS client without a wake-up pending.
THEOREM LeasesHold ==
    NodeSpec => []LeasesAreSound
  <1>1. LeaseInv => LeasesAreSound
    BY LeaseInvIsSound
  <1> QED BY <1>1, LeaseInvariant, PTL
=============================================================================
