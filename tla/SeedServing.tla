----------------------------- MODULE SeedServing -----------------------------
(***************************************************************************)
(* Serving one stream to its inbound peers (seed.rs, seed/protocol.rs): the*)
(* coordinator that chooses who is unchoked, whose every operation changes *)
(* the interest list under its lock and recomputes under the lock again,   *)
(* and the serve loop of each connection, which follows its own watch      *)
(* channel, advertises the live edge and answers requests.                 *)
(***************************************************************************)
EXTENDS Integers, Sequences, FiniteSets, FiniteSetsExt, SequencesExt

CONSTANTS ServedPeers,    \* connections of one coordinator
          MaxUnchoked,    \* max_unchoked
          Period,         \* a common multiple of the lengths the rotation divides by
          LastPiece       \* bound: pieces 1..LastPiece complete and leave

ASSUME ServingAssumption ==
    /\ MaxUnchoked \in Nat /\ LastPiece \in Nat /\ Period \in Nat \ {0}
    /\ IsFiniteSet(ServedPeers)
    /\ \A rest \in 1 .. Cardinality(ServedPeers) - MaxUnchoked : Period % rest = 0

VARIABLES
    interestedIn,   \* CoordState.interested, in order of entry
    watch,          \* the value in each member's watch channel
    unseen,         \* members whose channel changed since they last looked
    turn,           \* CoordState.tick, modulo Period
    recompute,      \* operations between their change and their recompute
    peer,           \* the serve loop of each connection
    have            \* complete pieces in the store

servingVars == <<interestedIn, watch, unseen, turn, recompute, peer, have>>

Members == {p \in ServedPeers : peer[p].at = "joined"}
Away == [at |-> "away", unchoked |-> FALSE, told |-> 0, greeted |-> FALSE]

ServingInit ==
    /\ interestedIn = <<>> /\ watch = [p \in ServedPeers |-> FALSE] /\ unseen = {}
    /\ turn = 0 /\ recompute = {} /\ have = {}
    /\ peer = [p \in ServedPeers |-> Away]

-----------------------------------------------------------------------------
(* The coordinator.                                                        *)

\* Choker::choose: the first max_unchoked, and one of the rest by rotation.
Choose(interested, tick) ==
    LET rest == Len(interested) - MaxUnchoked IN
    {interested[i] : i \in 1 .. Min({MaxUnchoked, Len(interested)})}
        \cup IF rest > 0 THEN {interested[MaxUnchoked + 1 + (tick % rest)]} ELSE {}

\* Variant: the rotating slot stays with the first of the rest.
ChosenFirst == Choose(interestedIn, 0)

UnchokedNow == Choose(interestedIn, turn)

\* ServeCoordinator::recompute, the second half of every operation.
Recompute(op) ==
    /\ op \in recompute /\ recompute' = recompute \ {op}
    /\ watch' = [p \in ServedPeers |-> p \in Members /\ p \in UnchokedNow]
    /\ unseen' = unseen \cup {p \in Members : watch[p] # (p \in UnchokedNow)}
    /\ UNCHANGED <<interestedIn, turn, peer, have>>

\* rechoke.
Rechoke ==
    /\ "rechoke" \notin recompute
    /\ turn' = (turn + 1) % Period
    /\ recompute' = recompute \cup {"rechoke"}
    /\ UNCHANGED <<interestedIn, watch, unseen, peer, have>>

\* The position of p is looked up, and what stands there is removed.
Withdrawn(p) ==
    IF Contains(interestedIn, p)
    THEN RemoveAt(interestedIn, CHOOSE i \in DOMAIN interestedIn : interestedIn[i] = p)
    ELSE interestedIn

\* set_interested, called from the connection's own loop: it recomputes before
\* the loop goes on.
SetInterested(p, wants) ==
    /\ peer[p].at = "joined" /\ p \notin recompute
    /\ interestedIn' = IF wants = Contains(interestedIn, p) THEN interestedIn
                       ELSE IF wants THEN Append(interestedIn, p) ELSE Withdrawn(p)
    /\ interestedIn' # interestedIn
    /\ recompute' = recompute \cup {p}
    /\ UNCHANGED <<watch, unseen, turn, peer, have>>

-----------------------------------------------------------------------------
(* The serve loop.                                                         *)

\* The signed handshake with the current window, then join.
Join(p) ==
    /\ peer[p].at = "away" /\ p \notin recompute
    /\ peer' = [peer EXCEPT ![p] = [Away EXCEPT !.at = "joined"]]
    /\ watch' = [watch EXCEPT ![p] = FALSE] /\ unseen' = unseen \ {p}
    /\ UNCHANGED <<interestedIn, turn, recompute, have>>

\* Any error or close: LeaveGuard takes the member out and recomputes.
Leave(p) ==
    /\ peer[p].at = "joined" /\ p \notin recompute
    /\ peer' = [peer EXCEPT ![p] = Away]
    /\ interestedIn' = Withdrawn(p)
    /\ recompute' = recompute \cup {p}
    /\ watch' = [watch EXCEPT ![p] = FALSE] /\ unseen' = unseen \ {p}
    /\ UNCHANGED <<turn, have>>

\* rx.changed: send Choke or Unchoke when the value differs from what was sent.
FollowWatch(p) ==
    /\ peer[p].at = "joined" /\ p \notin recompute /\ p \in unseen
    /\ peer' = [peer EXCEPT ![p].unchoked = watch[p]]
    /\ unseen' = unseen \ {p}
    /\ UNCHANGED <<interestedIn, watch, turn, recompute, have>>

\* The peer's extended handshake: advertise_live_bitfields from one snapshot.
Greet(p) ==
    /\ peer[p].at = "joined" /\ p \notin recompute /\ ~peer[p].greeted
    /\ peer' = [peer EXCEPT ![p].greeted = TRUE,
                            ![p].told = IF have = {} THEN 0 ELSE Max(have)]
    /\ UNCHANGED <<interestedIn, watch, unseen, turn, recompute, have>>

\* advance_live_edge, one HAVE per complete piece above the edge.
NewHaves(p) == {n \in have : n > peer[p].told}

AdvanceLiveEdge(p) ==
    /\ peer[p].at = "joined" /\ p \notin recompute /\ peer[p].greeted /\ NewHaves(p) # {}
    /\ peer' = [peer EXCEPT ![p].told = Max(NewHaves(p))]
    /\ UNCHANGED <<interestedIn, watch, unseen, turn, recompute, have>>

\* Another part completes the next piece, or the store lets its lowest go.
StoreMoves ==
    /\ \/ \E n \in 1 .. LastPiece : (\A q \in have : q < n) /\ have' = have \cup {n}
       \/ have # {} /\ have' = have \ {Min(have)}
    /\ UNCHANGED <<interestedIn, watch, unseen, turn, recompute, peer>>

ServingNext ==
    \/ \E op \in ServedPeers \cup {"rechoke"} : Recompute(op)
    \/ Rechoke \/ StoreMoves
    \/ \E p \in ServedPeers :
        \/ \E wants \in BOOLEAN : SetInterested(p, wants)
        \/ Join(p) \/ Leave(p) \/ FollowWatch(p) \/ Greet(p) \/ AdvanceLiveEdge(p)

\* The ticker and the second halves of operations run on; a serve loop chooses
\* at random among what is ready, so its poll of the store is not starved.
ServingFairness ==
    /\ WF_servingVars(Rechoke)
    /\ \A op \in ServedPeers \cup {"rechoke"} : WF_servingVars(Recompute(op))
    /\ \A p \in ServedPeers : SF_servingVars(AdvanceLiveEdge(p))

ServingSpec == ServingInit /\ [][ServingNext]_servingVars /\ ServingFairness

-----------------------------------------------------------------------------
(* Properties.                                                             *)

\* Whatever operations interleave between their halves, once all have
\* recomputed the channels say exactly what the choker chose, a session that
\* has looked follows its channel, and nobody who left is unchoked.
ChokeIsCurrent ==
    /\ recompute = {} => \A p \in Members : watch[p] = (p \in UnchokedNow)
    /\ \A p \in Members \ unseen : peer[p].unchoked = watch[p]
    /\ \A p \in ServedPeers \ Members : ~watch[p]

\* A peer that stays interested while interest is otherwise settled is
\* told to be unchoked again and again: the rotating slot starves nobody.
EveryoneGetsATurn ==
    \A p \in ServedPeers :
        <>[][interestedIn' = interestedIn]_servingVars /\ <>[]Contains(interestedIn, p)
            => []<>watch[p]

\* A connected peer hears of the live edge: the highest complete piece is told
\* or has left the store.
EdgeIsTold ==
    \A p \in ServedPeers, n \in 1 .. LastPiece :
        []<>(peer[p].greeted /\ n \in have => peer[p].told >= n)

ServingIsFair == EveryoneGetsATurn /\ EdgeIsTold /\ []ChokeIsCurrent
=============================================================================
