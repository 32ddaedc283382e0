---------------------------- MODULE PeerAdmission ----------------------------
(***************************************************************************)
(* How a live session finds its upstreams: the candidates it knows and     *)
(* their cooldowns (SessionCandidates), the connect rounds between two     *)
(* pools (follow_live, connect_pool), and the connects that refill a       *)
(* running pool (PoolActor::maybe_refill, on_refill, finish_activation).   *)
(*                                                                         *)
(* `turnStage' is the session's position: "top", "cohort", "fill", "join"  *)
(* and "chosen" are a connect round, "failed" and "sleep" its failure,     *)
(* "activate" the start of a pool and "pool" its loop.  Time is a tick     *)
(* counter; only the order of the durations is kept.  Whether a window can *)
(* resume the stream, and how it compares with the head, are free choices  *)
(* here, since LivePool models windows.  Candidates that tie in rank keep  *)
(* the order they were learned in; here any of them may come first.        *)
(***************************************************************************)
EXTENDS Integers, FiniteSets, FiniteSetsExt

CONSTANTS
  Peer,          \* peer endpoints
  Policies,      \* private peer sets a session may have; {} is a public session
  Hints,         \* endpoints the session starts with
  Findable,      \* endpoints that a search reports
  Rumours,       \* endpoints that peers gossip of, and as what
  MaxCandidates, \* MAX_CANDIDATES
  MaxSources,    \* MAX_SOURCES
  MaxParallel,   \* max_parallel_connect
  PoolSize,      \* max_active_upstreams
  Second,        \* ticks of the first cooldown
  ConnectTicks,  \* CONNECT_TIMEOUT
  LastTick,      \* bound: ticks of a run
  MaxTurns,      \* bound: opportunities a candidate is given
  MaxPanics,     \* bound: connect tasks of a pool that panic
  MaxNews        \* bound: searches and gossip messages

Kind == {"source", "pex", "discovered"}
Rank(k) == CASE k = "source" -> 0 [] k = "pex" -> 1 [] k = "discovered" -> 2

ASSUME PeerAdmissionAssumption ==
  /\ IsFiniteSet(Peer) /\ Policies \subseteq SUBSET Peer /\ Hints \subseteq Peer
  /\ Findable \subseteq Peer /\ Rumours \subseteq Peer \X {"source", "pex"}
  /\ MaxCandidates \in Nat \ {0} /\ MaxSources \in Nat
  /\ MaxParallel \in Nat \ {0} /\ PoolSize \in Nat \ {0}
  /\ Second \in Nat \ {0} /\ ConnectTicks \in Nat
  /\ LastTick \in Nat /\ MaxTurns \in Nat /\ MaxPanics \in Nat /\ MaxNews \in Nat

VARIABLES
  tick,       \* the clock
  cand,       \* SessionCandidates: the known endpoints and their history
  search,     \* the discovery run: none, or what it still has to report;
              \* and the searches and gossip messages so far
  turnStage,  \* position of the session
  firstReady, \* what was eligible when the round began
  cohort,     \* explorations of the cohort that is being dialled
  tried,      \* endpoints dialled in this round
  dials,      \* connect tasks that are not joined
  ups,        \* connected and not yet activated
  active,     \* peers of the pool
  reserved,   \* learned_pending
  receipts,   \* connected transports in the refill channel
  heldPeers,  \* the transport whose activation is being written, or {}
  replacing,  \* the peer it is to replace, or {}
  gossip,     \* the stale transport that is read for gossip, or {}
  wakeAt,     \* when a failed round sleeps until
  seenRetry,  \* observed_retry
  startup,    \* startup_deadline: "fresh" before the first pool, "waiting" while
              \* it runs, "done" without one
  policy,     \* PeerPolicy: fixed for the session
  rivals,     \* history: candidates that each dial competes with
  leaked      \* history: reserved by a connect task of the pool that panicked

roundVars == <<firstReady, cohort, tried, ups, wakeAt>>
transportVars == <<active, reserved, receipts, heldPeers, replacing, gossip, leaked>>
poolVars == <<transportVars, seenRetry, startup>>
admissionVars == <<policy, tick, cand, search, turnStage, roundVars, dials, poolVars, rivals>>

Unknown == [kind |-> "discovered", fails |-> 0, turns |-> 0, admits |-> 0, retry |-> -1]
NoSearch == [on |-> FALSE, left |-> {}, news |-> 0]
NewSearch == [on |-> TRUE, left |-> Findable, news |-> search.news + 1]
Heard == [search EXCEPT !.news = @ + 1]
NoRivals == [a \in Peer |-> {}]
Known(C) == {a \in Peer : C[a].retry >= 0}
Permitted == IF policy = {} THEN Peer ELSE policy

-----------------------------------------------------------------------------
(* SessionCandidates.                                                      *)

Better(j, k) == IF Rank(j) <= Rank(k) THEN j ELSE k

\* learn: an excess source is an ordinary learned peer, known endpoints only
\* improve in kind, and a full table gives up an entry of a worse kind.
Learn(C, a, k) ==
  LET sources == {b \in Known(C) \ {a} : C[b].kind = "source"}
      kind == IF k = "source" /\ Cardinality(sources) >= MaxSources THEN "pex" ELSE k
      worse == {b \in Known(C) : Rank(C[b].kind) > Rank(kind)}
      fresh == [Unknown EXCEPT !.kind = kind, !.retry = tick]
  IN IF a \notin Permitted THEN C
     ELSE IF a \in Known(C) THEN [C EXCEPT ![a].kind = Better(@, kind)]
     ELSE IF Cardinality(Known(C)) < MaxCandidates THEN [C EXCEPT ![a] = fresh]
     ELSE IF worse = {} THEN C
     ELSE LET out == CHOOSE b \in worse : \A c \in worse : Rank(C[b].kind) >= Rank(C[c].kind)
          IN [C EXCEPT ![out] = Unknown, ![a] = fresh]

LearnAll(C, S, k) == FoldSet(LAMBDA a, acc : Learn(acc, a, k), C, S)

\* explored, admitted, failed, productive, refresh_stale_transport
Explored(C, a) == IF a \in Known(C) THEN [C EXCEPT ![a].turns = @ + 1] ELSE C
Admitted(C, a) == IF a \in Known(C) THEN [Explored(C, a) EXCEPT ![a].admits = @ + 1] ELSE C

Backoff(n, k) ==
  Second * (IF n <= 1 THEN 1 ELSE IF n = 2 THEN 2 ELSE IF n = 3 \/ k = "source" THEN 4 ELSE 8)

Failed(C, a) ==
  IF a \notin Known(C) THEN C
  ELSE LET n == IF C[a].fails = 4 THEN 4 ELSE C[a].fails + 1
       IN [C EXCEPT ![a].fails = n, ![a].retry = tick + Backoff(n, C[a].kind)]

FailedAll(C, S) == FoldSet(LAMBDA a, acc : Failed(acc, a), C, S)

Produced(C, a) ==
  LET reset == [b \in Peer |-> [C[b] EXCEPT !.turns = 0, !.admits = 0]]
  IN IF a \in Known(C) THEN [reset EXCEPT ![a].fails = 0, ![a].retry = tick] ELSE reset

Refreshed(C, S) == [a \in Peer |-> IF a \in S \cap Known(C) THEN [C[a] EXCEPT !.retry = tick] ELSE C[a]]

\* eligible, and the order it sorts by
Ready(C) == {a \in Known(C) : C[a].retry <= tick}
Before(C, a, b) ==
  \/ C[a].turns < C[b].turns
  \/ C[a].turns = C[b].turns /\ Rank(C[a].kind) < Rank(C[b].kind)
  \/ C[a].turns = C[b].turns /\ C[a].kind = C[b].kind /\ C[a].admits < C[b].admits

\* exploration_cohort
Turns(C, S) == {C[a].turns : a \in S}
Cohort(C, act, res) == Turns(C, {a \in Known(C) \ act : C[a].retry <= tick \/ a \in res})

\* The sets of at most `room' candidates that a loop over the sorted list takes.
Firsts(C, S, room) ==
  {A \in SUBSET S : /\ Cardinality(A) = Min({Cardinality(S), IF room > 0 THEN room ELSE 0})
                    /\ \A a \in A, b \in S \ A : ~Before(C, b, a)}

\* History: those who were ready, or under way, when A was dialled, until they
\* are dialled themselves or forgotten.
RivalsOf(C, A, skip, under) ==
  [a \in Peer |-> IF a \in A THEN (Ready(C) \ (A \cup skip)) \cup under
                 ELSE IF a \in dials' THEN (rivals[a] \ A) \cap Known(C) ELSE {}]

-----------------------------------------------------------------------------
(* The connect rounds of follow_live.  Its second look at the windows of   *)
(* connected peers repeats connect_pool's with the same cursor and finds   *)
(* none that is stale.                                                     *)

AdmissionInit ==
  /\ policy \in Policies
  /\ tick = 0 /\ turnStage = "top"
  /\ cand = [a \in Peer |->
       IF a \in (IF policy = {} THEN Hints ELSE policy) THEN [Unknown EXCEPT !.retry = 0] ELSE Unknown]
  /\ search = NoSearch
  /\ firstReady = {} /\ cohort = 0 /\ tried = {} /\ ups = {} /\ wakeAt = 0
  /\ dials = {} /\ active = {} /\ reserved = {} /\ receipts = {} /\ heldPeers = {} /\ gossip = {}
  /\ replacing = {} /\ leaked = {}
  /\ seenRetry = 0 /\ startup = "fresh"
  /\ rivals = NoRivals

\* Discovery reports by and by; drain_discovery takes what has arrived.
SearchDrained(S) == [search EXCEPT !.left = @ \ S]

RoundStarts ==
  /\ turnStage = "top" /\ turnStage' = "cohort" /\ tried' = {}
  /\ \E S \in SUBSET search.left :
       /\ cand' = LearnAll(cand, S, "discovered")
       /\ search' = SearchDrained(S)
  /\ firstReady' = Ready(cand')
  /\ UNCHANGED <<tick, cohort, ups, wakeAt, dials, poolVars, rivals>>

CohortStarts ==
  /\ turnStage = "cohort"
  /\ LET rest == Ready(cand) \ tried
     IN IF rest = {} THEN turnStage' = "failed" /\ UNCHANGED cohort
        ELSE turnStage' = "fill" /\ cohort' = Min(Turns(cand, rest))
  /\ UNCHANGED <<tick, cand, search, firstReady, tried, ups, wakeAt, dials, poolVars, rivals>>

\* Variant: the round dials whoever is ready, explored before or not.
DialableAny(C) == Ready(C) \ tried

\* Who the round may dial: not tried yet and no more explored than its cohort.
Dialable(C) == {a \in Ready(C) \ tried : C[a].turns <= cohort}

Fills ==
  /\ turnStage = "fill"
  /\ \E A \in Firsts(cand, Dialable(cand), MaxParallel - Cardinality(dials \cup ups)) :
       /\ dials' = dials \cup A
       /\ tried' = tried \cup A
       /\ rivals' = RivalsOf(cand, A, tried, dials)
       /\ turnStage' = IF dials' = {} \/ Cardinality(ups) >= PoolSize THEN "chosen" ELSE "join"
  /\ UNCHANGED <<tick, cand, search, firstReady, cohort, ups, wakeAt, poolVars>>

\* connect_upstream ended: with a window that fits, with one that does not,
\* with an error, or by a panic of its task.
DialEnds(a) ==
  /\ turnStage = "join" /\ a \in dials
  /\ dials' = dials \ {a} /\ turnStage' = "fill"
  /\ \/ ups' = ups \cup {a} /\ UNCHANGED cand
     \/ cand[a].turns < MaxTurns /\ cand' = Failed(Explored(cand, a), a) /\ UNCHANGED ups
     \/ UNCHANGED <<ups, cand>>
  /\ rivals' = [rivals EXCEPT ![a] = {}]
  /\ UNCHANGED <<tick, search, firstReady, cohort, tried, wakeAt, poolVars>>

\* next_discovery_peer: another endpoint, or the end of the run.
Reports(C) ==
  /\ search.on
  /\ \/ \E a \in search.left : cand' = Learn(C, a, "discovered") /\ search' = SearchDrained({a})
     \/ search.left = {} /\ search' = [search EXCEPT !.on = FALSE] /\ cand' = C

RoundLearns ==
  /\ turnStage = "join" /\ Reports(cand) /\ turnStage' = "fill"
  /\ UNCHANGED <<tick, roundVars, dials, poolVars>>
  /\ rivals' = RivalsOf(cand', {}, {}, {})

\* The selection grace is over.
GraceEnds ==
  /\ turnStage = "join" /\ ups # {} /\ turnStage' = "chosen"
  /\ UNCHANGED <<tick, cand, search, roundVars, dials, poolVars, rivals>>

\* refill_candidates: discovered peers that a new pool has not tried.
RefillCandidates(U) ==
  LET next == Cohort(cand, U, {})
  IN {a \in Ready(cand) \ U : cand[a].kind = "discovered" /\ cand[a].turns = Min(next)}

PoolSearch(U) ==
  IF ~search.on /\ policy = {} /\ RefillCandidates(U) # {} THEN NewSearch ELSE search

\* lone_fresh: the first window of a session, alone, waits to be corroborated.
Corroborating(U) == IF startup # "fresh" THEN startup ELSE IF Cardinality(U) = 1 THEN "waiting" ELSE "done"

\* The other attempts are aborted and joined before the best are published.
Chooses ==
  /\ turnStage = "chosen"
  /\ dials' = {} /\ rivals' = NoRivals /\ cohort' = 0
  /\ IF ups = {} THEN turnStage' = "cohort" /\ UNCHANGED <<ups, search, startup, firstReady, tried>>
     ELSE /\ \E U \in SUBSET ups :
               /\ Cardinality(U) = Min({PoolSize, Cardinality(ups)})
               /\ ups' = U
               /\ search' = PoolSearch(U) /\ search'.news <= MaxNews
               /\ startup' = Corroborating(U)
          /\ turnStage' = "activate" /\ firstReady' = {} /\ tried' = {}
  /\ UNCHANGED <<tick, cand, wakeAt, transportVars, seenRetry>>

\* retry_delay, counted from now
RetryAt ==
  IF Known(cand) = {} THEN tick + Second
  ELSE Max({tick, Min({cand[a].retry : a \in Known(cand)})})

\* A round without upstreams: try what has become ready, wait for a cooldown,
\* or look for more peers.
RoundFails ==
  /\ turnStage = "failed" /\ firstReady' = {} /\ tried' = {}
  /\ IF Ready(cand) \ firstReady # {} THEN turnStage' = "top" /\ UNCHANGED <<search, wakeAt>>
     ELSE /\ turnStage' = "sleep"
          /\ wakeAt' = RetryAt
          /\ search' = IF (firstReady # {} \/ Known(cand) = {}) /\ ~search.on /\ policy = {}
                       THEN NewSearch ELSE search
          /\ search'.news <= MaxNews
  /\ UNCHANGED <<tick, cand, cohort, ups, dials, poolVars, rivals>>

Wakes ==
  /\ turnStage = "sleep" /\ wakeAt' = 0
  /\ turnStage' = "top"
  /\ \/ tick >= wakeAt /\ UNCHANGED <<cand, search>>
     \/ Reports(cand)
  /\ UNCHANGED <<tick, firstReady, cohort, tried, ups, dials, poolVars, rivals>>

-----------------------------------------------------------------------------
(* The running pool.                                                       *)

\* The pool has room, or its only window so far still waits for another one.
Admits(act) == Cardinality(act) < PoolSize \/ startup' = "waiting"

\* Variant: the transport that is being activated is forgotten.
BusyActive(act) == act

\* Endpoints that spawn_candidate_connects skips besides the reserved ones.
Busy(act) == act \cup heldPeers'

\* maybe_refill and spawn_candidate_connects over the state an event leaves:
\* only the least explored cohort, and room for the gossip and the held one.
Refill(C, act, res, tasks, exceptional) ==
  LET next == Cohort(C, Busy(act), res)
      room == MaxParallel - Cardinality(gossip') - Cardinality(heldPeers')
      fits == {a \in Ready(C) \ (Busy(act) \cup res) : C[a].turns = Min(next)}
  IN IF ~exceptional /\ ~Admits(act)
     THEN reserved' = res /\ dials' = tasks /\ cand' = C /\ rivals' = RivalsOf(C, {}, {}, {})
     ELSE \E A \in Firsts(C, fits, room - Max({Cardinality(tasks), Cardinality(res)})) :
            /\ reserved' = res \cup A
            /\ dials' = tasks \cup A
            /\ cand' = [a \in Peer |-> IF a \in A THEN [C[a] EXCEPT !.retry = tick + ConnectTicks] ELSE C[a]]
            /\ rivals' = RivalsOf(C, A, Busy(act), res)

\* shutdown of a pool: every task and transport it owns goes with it.
PoolEnds(C) ==
  /\ cand' = C /\ turnStage' = "top"
  /\ active' = {} /\ reserved' = {} /\ receipts' = {} /\ heldPeers' = {} /\ gossip' = {}
  /\ replacing' = {} /\ leaked' = {} /\ seenRetry' = 0
  /\ dials' = {} /\ ups' = {} /\ rivals' = NoRivals
  /\ UNCHANGED <<tick, search, firstReady, cohort, tried, wakeAt, startup>>

\* follow_peer_pool_with_discovery activates the upstreams one by one.
Activates(a) ==
  /\ turnStage = "activate" /\ a \in ups
  /\ ups' = ups \ {a} /\ cand[a].turns < MaxTurns
  /\ \/ cand' = Admitted(cand, a) /\ active' = active \cup {a}
     \/ cand' = Failed(Explored(cand, a), a) /\ UNCHANGED active
  /\ UNCHANGED <<tick, search, turnStage, firstReady, cohort, tried, wakeAt, dials, reserved, receipts,
                 heldPeers, replacing, gossip, leaked, seenRetry, startup, rivals>>

PoolStarts ==
  /\ turnStage = "activate" /\ ups = {}
  /\ IF active = {} THEN PoolEnds(cand)
     ELSE /\ turnStage' = "pool" /\ seenRetry' = tick
          /\ UNCHANGED <<tick, search, roundVars, heldPeers, replacing, gossip, active, receipts,
                         leaked, startup>>
          /\ Refill(cand, active, {}, {}, FALSE)

PoolStage == turnStage = "pool" /\ UNCHANGED <<tick, turnStage, roundVars>>

\* A connect task of the pool ends: its transport is queued, the channel is
\* full, or the connect failed.  A released reservation is refilled.
PoolDialEnds(a) ==
  /\ PoolStage /\ a \in dials
  /\ UNCHANGED <<search, active, heldPeers, replacing, gossip, leaked, seenRetry, startup>>
  /\ \/ /\ Cardinality(receipts) < PoolSize
        /\ receipts' = receipts \cup {a} /\ dials' = dials \ {a}
        /\ rivals' = [rivals EXCEPT ![a] = {}]
        /\ UNCHANGED <<cand, reserved>>
     \/ /\ Cardinality(receipts) >= PoolSize /\ UNCHANGED receipts
        /\ Refill(cand, active, reserved \ {a}, dials \ {a}, FALSE)
     \/ /\ cand[a].turns < MaxTurns /\ UNCHANGED receipts
        /\ Refill(Failed(Explored(cand, a), a), active, reserved \ {a}, dials \ {a}, FALSE)

\* It panics: the JoinError names no endpoint, and its reservation stays.
PoolDialPanics(a) ==
  /\ PoolStage /\ a \in dials /\ Cardinality(leaked) < MaxPanics
  /\ dials' = dials \ {a} /\ leaked' = leaked \cup {a}
  /\ rivals' = [rivals EXCEPT ![a] = {}]
  /\ UNCHANGED <<cand, search, active, reserved, receipts, heldPeers, replacing, gossip, seenRetry, startup>>

\* The window has waited long enough.
StartupExpires ==
  /\ PoolStage /\ startup = "waiting" /\ startup' = "done"
  /\ UNCHANGED <<cand, search, dials, transportVars, seenRetry, rivals>>

\* A less explored candidate is ready or on its way.
Outranked(C, a, act, res) == \E n \in Cohort(C, act, res) : n < C[a].turns

\* on_refill of a transport whose window fits, in its turn: a full pool that
\* waits takes an equal window as its corroboration, drops an older one, and
\* begins to replace its least advanced peer by a newer one.
Corroborated(a) ==
  \/ startup' = "done" /\ UNCHANGED <<heldPeers, replacing>>
  \/ UNCHANGED <<startup, heldPeers, replacing>>
  \/ \E b \in active : heldPeers' = {a} /\ replacing' = {b} /\ UNCHANGED startup

\* on_refill: a queued transport is stale and read for gossip, gives way to a
\* less explored peer, or begins its activation.
ReceivesUpstream(a) ==
  /\ PoolStage /\ a \in receipts
  /\ heldPeers = {} /\ gossip = {} /\ (Cardinality(active) < PoolSize \/ startup = "waiting")
  /\ receipts' = receipts \ {a}
  /\ UNCHANGED <<search, active, leaked, seenRetry>>
  /\ LET C == Learn(cand, a, "discovered")
         res == reserved \ {a}
     IN \/ /\ C[a].turns < MaxTurns /\ gossip' = {a} /\ UNCHANGED <<heldPeers, replacing, startup>>
           /\ Refill(Failed(Explored(C, a), a), active, res, dials, FALSE)
        \/ /\ Outranked(C, a, active, res) /\ UNCHANGED <<heldPeers, replacing, gossip, startup>>
           /\ Refill(C, active, res, dials, FALSE)
        \/ /\ ~Outranked(C, a, active, res) /\ UNCHANGED gossip
           /\ IF Cardinality(active) < PoolSize
              THEN heldPeers' = {a} /\ UNCHANGED <<replacing, startup>>
              ELSE Corroborated(a)
           /\ Refill(C, active, res, dials, FALSE)

\* Variant: the peer that is replaced is kept.
ReplacesKept(b) == {}

\* drop_peer_runtime in commit_upstream_peer: what the new peer replaces.
Replaces(b) == {b}

\* finish_activation: what held when the write began is looked at again.  The
\* write failed; the window no longer fits or is outranked; the peer to be
\* replaced has caught up, which corroborates it; or the transport is admitted,
\* instead of that peer, which cools down, or into a pool with room.
ActivationEnds(a) ==
  /\ PoolStage /\ heldPeers = {a} /\ heldPeers' = {} /\ replacing' = {}
  /\ UNCHANGED <<search, receipts, gossip, leaked, seenRetry>>
  /\ \/ /\ cand[a].turns < MaxTurns /\ UNCHANGED <<active, startup>>
        /\ Refill(Failed(Explored(cand, a), a), active, reserved, dials, FALSE)
     \/ /\ UNCHANGED <<active, startup>>
        /\ Refill(cand, active, reserved, dials, FALSE)
     \/ /\ ~Outranked(cand, a, active, reserved) /\ a \notin active
        /\ Cardinality(active) = PoolSize /\ startup = "waiting" /\ startup' = "done"
        /\ \E b \in replacing \cap active :
             \/ UNCHANGED active /\ Refill(cand, active, reserved, dials, FALSE)
             \/ /\ cand[a].turns < MaxTurns
                /\ active' = (active \ Replaces(b)) \cup {a}
                /\ Refill(Admitted(Failed(cand, b), a), active', reserved, dials, FALSE)
     \/ /\ ~Outranked(cand, a, active, reserved) /\ a \notin active
        /\ replacing = {} /\ Cardinality(active) < PoolSize /\ cand[a].turns < MaxTurns
        /\ active' = active \cup {a}
        /\ UNCHANGED startup \/ (startup = "waiting" /\ startup' = "done")
        /\ Refill(Admitted(cand, a), active', reserved, dials, FALSE)

\* Gossip of a stale transport, if it has any, of an active peer, or a discovery
\* report.
GossipEnds(S, k) ==
  /\ PoolStage /\ gossip # {} /\ gossip' = {}
  /\ search' = (IF S = {} THEN search ELSE Heard) /\ search'.news <= MaxNews
  /\ UNCHANGED <<active, receipts, heldPeers, replacing, leaked, seenRetry, startup>>
  /\ Refill(LearnAll(cand, S, k), active, reserved, dials, TRUE)

Gossiped(a, k) ==
  /\ PoolStage /\ active # {}
  /\ search' = Heard /\ search'.news <= MaxNews
  /\ UNCHANGED <<active, receipts, heldPeers, replacing, gossip, leaked, seenRetry, startup>>
  /\ Refill(Learn(cand, a, k), active, reserved, dials, FALSE)

PoolLearns ==
  /\ PoolStage /\ search.on
  /\ UNCHANGED <<active, receipts, heldPeers, replacing, gossip, leaked, seenRetry, startup>>
  /\ \/ \E a \in search.left : /\ search' = SearchDrained({a})
                               /\ Refill(Learn(cand, a, "discovered"), active, reserved, dials, FALSE)
     \/ search.left = {} /\ search' = [search EXCEPT !.on = FALSE] /\ Refill(cand, active, reserved, dials, FALSE)

\* retry_deadline_after: a cooldown has ended since the last look.
RetryDue ==
  \E a \in Ready(cand) \ (active \cup heldPeers \cup reserved) : cand[a].retry > seenRetry

CandidateRetry ==
  /\ PoolStage /\ (Cardinality(active) < PoolSize \/ startup = "waiting")
  /\ Cardinality(reserved) + Cardinality(gossip) + Cardinality(heldPeers) < MaxParallel
  /\ Cardinality(dials) < MaxParallel
  /\ RetryDue
  /\ seenRetry' = tick
  /\ UNCHANGED <<search, active, receipts, heldPeers, replacing, gossip, leaked, startup>>
  /\ Refill(cand, active, reserved, dials, TRUE)

\* Output reached the consumer: its producer, connected or not, is credited.
Produces(a) ==
  /\ PoolStage /\ a \in Known(cand)
  /\ cand' = Produced(cand, a)
  /\ rivals' = NoRivals
  /\ UNCHANGED <<search, dials, poolVars>>

\* handle_pool_peer_loss: the peer cools down; after the last producer stale
\* sources are dropped too and may be tried at once.
PeerIsLost(a) ==
  /\ turnStage = "pool" /\ a \in active
  /\ \E S \in SUBSET {b \in active \ {a} : cand[b].kind = "source"} :
       LET C == Refreshed(Failed(cand, a), S)
       IN \/ active \ ({a} \cup S) = {} /\ PoolEnds(C)
          \/ /\ PoolStage /\ active' = active \ ({a} \cup S)
             /\ UNCHANGED <<search, receipts, heldPeers, replacing, gossip, leaked, seenRetry, startup>>
             /\ Refill(C, active', reserved, dials, FALSE)

\* The output budget is used up.
PoolIsStale == turnStage = "pool" /\ PoolEnds(FailedAll(cand, active))

Ticks ==
  /\ turnStage # "ended" /\ tick < LastTick /\ tick' = tick + 1
  /\ UNCHANGED <<cand, search, turnStage, roundVars, dials, poolVars, rivals>>

\* The consumer has gone, and the session sees that where it looks next or waits:
\* a handler that does not look is one that ran before.  What is under way is
\* aborted and joined, and the session returns.
ConsumerLeaves ==
  /\ turnStage # "ended" /\ turnStage' = "ended"
  /\ dials' = {} /\ ups' = {} /\ rivals' = NoRivals
  /\ active' = {} /\ reserved' = {} /\ receipts' = {} /\ heldPeers' = {} /\ gossip' = {}
  /\ replacing' = {} /\ leaked' = {} /\ seenRetry' = 0
  /\ UNCHANGED <<tick, cand, search, firstReady, cohort, tried, wakeAt, startup>>

AdmissionStep ==
  \/ RoundStarts \/ CohortStarts \/ Fills \/ RoundLearns \/ GraceEnds \/ Chooses
  \/ RoundFails \/ Wakes \/ PoolStarts \/ PoolLearns \/ CandidateRetry
  \/ StartupExpires \/ GossipEnds({}, "pex") \/ PoolIsStale \/ Ticks \/ ConsumerLeaves
  \/ \E a \in Peer : \/ DialEnds(a) \/ Activates(a) \/ PoolDialEnds(a) \/ PoolDialPanics(a)
                     \/ ReceivesUpstream(a) \/ ActivationEnds(a) \/ Produces(a) \/ PeerIsLost(a)
  \/ \E r \in Rumours : Gossiped(r[1], r[2]) \/ GossipEnds({r[1]}, r[2])

AdmissionNext == AdmissionStep /\ UNCHANGED policy

AdmissionSpec == AdmissionInit /\ [][AdmissionNext]_admissionVars

-----------------------------------------------------------------------------
\* No endpoint has two transports: dialled, queued, being activated or active.
\* What is reserved is dialled or queued, unless its connect task panicked.
OneTransportEach ==
  LET places == <<dials, receipts, heldPeers, active, ups, leaked>>
  IN /\ \A i, j \in 1 .. 6 : i # j => places[i] \cap places[j] = {}
     /\ receipts \cup dials \cup leaked = IF turnStage = "pool" THEN reserved ELSE dials

\* The transports beside the pool's own peers stay within the connect limit.
TransportsAreBounded ==
  /\ Cardinality(active) <= PoolSize
  /\ Cardinality(reserved) + Cardinality(heldPeers) + Cardinality(gossip) <= MaxParallel
  /\ Cardinality(dials \cup ups) <= MaxParallel

\* The transports of a session (connect_pool, maybe_refill, on_refill, finish_activation):
\* one per endpoint and within the limits, whatever ends or is refilled first.
TransportsAreOwned == OneTransportEach /\ TransportsAreBounded

\* An endpoint outside the private set is never learned, and nothing looks
\* for peers on behalf of a private session.
PrivateStaysPrivate == policy # {} => Known(cand) \subseteq policy /\ ~search.on

\* A candidate that was ready or under way when another was dialled is not less
\* explored: a fast peer cannot cancel, again and again, one not yet tried.
TurnsAreFair ==
  \A a \in dials : \A b \in rivals[a] :
    (a \in Known(cand) /\ b \in Known(cand)) => cand[a].turns <= cand[b].turns

\* The candidates of a session (SessionCandidates, follow_live, connect_pool,
\* maybe_refill): a private session stays private, and turns are taken in the order
\* of exploration.
AdmissionIsSound == PrivateStaysPrivate /\ TurnsAreFair
=============================================================================
