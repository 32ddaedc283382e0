------------------------------ MODULE LivePool ------------------------------
(***************************************************************************)
(* One live session of ace-swarm: the pool actor, its request scheduler,   *)
(* the reassembler, whole-piece publication, ordered output, and the       *)
(* rebuild of the pool after a loss.                                       *)
(*                                                                         *)
(* The actor is one task.  `pc' says where in its loop it stands: it polls *)
(* its operations ("poll"), sweeps its timers ("sweep", "release"), sends  *)
(* requests ("advance", then on to `ret'), settles, and waits for one      *)
(* event ("wait").  Between two pools the session drains what it retained  *)
(* ("drain") and connects again ("connect").  Peer workers and the         *)
(* consumer run beside it.                                                 *)
(*                                                                         *)
(* Durations are abstracted: whether a request, the cursor, the startup    *)
(* window or the output budget has run out of time is a free choice made   *)
(* where the code reads the clock.  Addresses, candidate ranking, stats    *)
(* and the bytes of a piece are left out.                                  *)
(***************************************************************************)
EXTENDS Integers, FiniteSets

CONSTANTS
  MaxPiece,     \* bound: last piece the source produces
  Chunks,       \* chunks of a piece
  Kinds,        \* how chunks may arrive: "good", "odd" or "bad"
  MaxId,        \* bound: peer generations admitted to one pool
  MaxPools,     \* bound: pools built in one session
  MaxSegments,  \* bound: outputs that one piece is cut into
  Windows,      \* windows that connecting peers advertise
  MaxActive,    \* max_active_upstreams
  MaxInFlight,  \* max_piece_advance
  QueueCap,     \* commands that fit a worker's queue
  MaxAhead,     \* max_reasm_pieces_ahead
  Prefetch,     \* prefetch_pieces
  Publishable   \* completed pieces are verified, or need no signature

Pieces == 0 .. MaxPiece
Ids == 1 .. MaxId
None == -1
NoWindow == [min |-> 0, max |-> 0]

ASSUME LivePoolAssumption ==
  /\ MaxPiece \in Nat /\ MaxPools \in Nat /\ Prefetch \in Nat
  /\ MaxId \in Nat \ {0} /\ MaxActive \in 1 .. MaxId
  /\ MaxSegments \in Nat \ {0} /\ QueueCap \in Nat \ {0}
  /\ MaxInFlight \in Nat \ {0}
  /\ MaxAhead \in Nat /\ MaxAhead >= MaxInFlight
  /\ Chunks # {} /\ IsFiniteSet(Chunks)
  /\ Kinds \subseteq {"good", "odd", "bad"}
  /\ Windows \subseteq {w \in [min : Pieces, max : Pieces] : w.min <= w.max}
  /\ Publishable \in BOOLEAN

VARIABLES
  pc, ret, late,                  \* the actor's position in its turn
  next, filled, complete, plain,  \* the reassembler
  needed, op,                     \* publication
  ceiling, reserved, pending, disc, \* ordered output
  head, floor, startup,           \* what is known of the live edge
  win, unchoked, inflight,        \* ActivePeers
  requested, at,                  \* Scheduler and request timers
  wk, cmds,                       \* peer workers and their queues
  nextId, pools,
  taken, gap, sent, bare          \* what the consumer saw (history)

turnVars == <<pc, ret, late>>
reasmVars == <<next, filled, complete, plain>>
pubVars == <<needed, op>>
outVars == <<ceiling, reserved, pending>>
edgeVars == <<head, floor, startup>>
peerVars == <<win, unchoked>>
reqVars == <<inflight, requested, at>>
workVars == <<wk, cmds>>
genVars == <<nextId, pools>>
seenVars == <<taken, gap, sent, bare>>
vars == <<turnVars, reasmVars, pubVars, outVars, disc, edgeVars, peerVars,
          reqVars, workVars, genVars, seenVars>>

-----------------------------------------------------------------------------
(* Shared reads of the continuity.                                         *)

Least(S) == CHOOSE x \in S : \A y \in S : x <= y
Larger(a, b) == IF a >= b THEN a ELSE b
Smaller(a, b) == IF a <= b THEN a ELSE b

Peers == {i \in Ids : wk[i] # "none"}
Serving == Peers \cap unchoked
Covers(i, p) == win[i].min <= p /\ p <= win[i].max

\* playback_hold: output in progress, or a completed piece not yet published.
Hold == ceiling # None \/ needed # {}

\* has_delivery_work
Work == ceiling # None \/ pending > 0 \/ next \in complete

\* output_demand
Demand == pending > 0 \/ (~startup /\ needed = {} /\ next \in complete)

\* ResumeCursor::window_can_resume
CanResume(w) == w.max >= next \/ (next > head /\ w.max >= head)

\* Variant: the skip looks at publication only, not at output.
FarTargetOverOutput(h) ==
  IF needed = {} /\ h - next > Prefetch THEN h - Prefetch ELSE next

\* Variant: the skip looks at output only, not at publication.
FarTargetUnpublished(h) ==
  IF ceiling = None /\ h - next > Prefetch THEN h - Prefetch ELSE next

\* Where skip_far_behind_live puts the cursor.
FarTarget(h) ==
  IF ~Hold /\ h - next > Prefetch THEN h - Prefetch ELSE next

\* PieceReassembler::skip_to, for a cursor that does not move back.
SkipTo(n) ==
  /\ next' = n
  /\ filled' = [p \in Pieces |-> IF p < n THEN {} ELSE filled[p]]
  /\ complete' = {p \in complete : p >= n}
  /\ plain' = {p \in plain : p >= n}

\* ActivePeers::prune_below, called only when the cursor jumps.
Pruned(n) ==
  IF n = next THEN inflight
  ELSE [i \in Ids |-> {p \in inflight[i] : p >= n}]

Timers(n) == IF n = next THEN at ELSE {p \in at : p >= n}

\* Variant: the catch-up does not arm the output gate.
SkipFarSilent(h) ==
  /\ SkipTo(FarTarget(h))
  /\ floor' = IF Hold THEN floor ELSE Larger(floor, h - Prefetch)
  /\ disc' = disc

\* skip_far_behind_live: the request floor follows the live edge, the cursor
\* jumps, and a jump after output marks a discontinuity.
SkipFar(h) ==
  /\ SkipTo(FarTarget(h))
  /\ floor' = IF Hold THEN floor ELSE Larger(floor, h - Prefetch)
  /\ disc' = (disc \/ (FarTarget(h) # next /\ sent))

\* Variant: a dropped peer's requests are not requeued.
ReleasedNone(D) == requested

\* on_drop of every slot of the peers D.
Released(D) == requested \ UNION {inflight[i] : i \in D}

\* complete_everywhere
Everywhere(fl, S) == [i \in Ids |-> fl[i] \ S]

\* start_operation: the lowest piece that needs publication.
StartOp(o, need) == IF o = None /\ need # {} THEN Least(need) ELSE o

-----------------------------------------------------------------------------
(* Scheduler::assign_with_queue_slots, as the batch it selects.            *)

Spare(fl, i) == Larger(MaxInFlight - Cardinality(fl[i]), 0)
\* Variant: one command too many fits.
SlotsOneMore(i) == IF wk[i] = "closed" THEN 0 ELSE QueueCap - cmds[i] + 1

Slots(i) == IF wk[i] = "closed" THEN 0 ELSE QueueCap - cmds[i]

\* The pieces the scan visits and finds unrequested.  The scan starts with one
\* position per spare slot; a piece already requested does not use one up.
Scan(n, fl, req) ==
  LET spare == {x \in Serving \X (1 .. MaxInFlight) : x[2] <= Spare(fl, x[1])}
      last == Smaller(head, n + Cardinality(Serving) * MaxInFlight)
      first == Smaller(head, n + Cardinality(spare))
  IN {p \in n .. last :
        /\ p \notin req
        /\ p <= first + Cardinality({r \in req : n <= r /\ r < p})}

\* Lowest piece first, each to the covering peer with the most spare slots,
\* the newest such peer on a tie; 0 where no peer can take the piece.
Batches(n, fl, req) ==
  LET scan == Scan(n, fl, req)
      Used(b, p, i) == Cardinality({r \in scan : r < p /\ b[r] = i})
      Able(b, p) == {i \in Serving : /\ Covers(i, p)
                                     /\ Used(b, p, i) < Spare(fl, i)
                                     /\ Used(b, p, i) < Slots(i)}
      Left(b, p, i) == Spare(fl, i) - Used(b, p, i)
  IN {b \in [scan -> Ids \cup {0}] :
        \A p \in scan :
          IF Able(b, p) = {} THEN b[p] = 0
          ELSE /\ b[p] \in Able(b, p)
               /\ \A j \in Able(b, p) :
                    \/ Left(b, p, j) < Left(b, p, b[p])
                    \/ Left(b, p, j) = Left(b, p, b[p]) /\ j <= b[p]}

Chosen(b, i) == {p \in DOMAIN b : b[p] = i}

\* advance_pool_requests: nothing while playback holds; the cursor catches up
\* with the live edge; nothing more before corroboration; then the batch goes
\* to the workers.  A queue that closed under the snapshot refuses its share,
\* which is cancelled and left unrequested.
Assign(n) ==
  \E b \in Batches(n, Pruned(n), {p \in requested : p >= n}) :
    LET given(i) == IF wk[i] = "open" THEN Chosen(b, i) ELSE {}
        all == UNION {given(i) : i \in Ids}
    IN /\ inflight' = [i \in Ids |->
              (Pruned(n)[i] \ Chosen(b, i)) \cup given(i)]
       /\ requested' = {p \in requested : p >= n} \cup all
       /\ at' = Timers(n) \cup all
       /\ cmds' = [i \in Ids |-> cmds[i] + Cardinality(given(i))]
       /\ wk' = [i \in Ids |->
              IF wk[i] = "closing" /\ Chosen(b, i) # {} THEN "closed" ELSE wk[i]]

Advance ==
  /\ pc = "advance"
  /\ IF ret = "again" THEN pc' = "advance" /\ ret' = "settle"
     ELSE pc' = ret /\ ret' = "poll"
  /\ SkipFar(head)
  /\ IF Hold
     THEN UNCHANGED <<reqVars, wk, cmds>>
     ELSE IF startup
     THEN /\ inflight' = Pruned(next')
          /\ at' = Timers(next')
          /\ UNCHANGED <<requested, wk, cmds>>
     ELSE Assign(next')
  /\ UNCHANGED <<late, pubVars, outVars, head, startup, peerVars, genVars,
                 seenVars>>

ThenAdvance(r) == pc' = "advance" /\ ret' = r /\ late' = {}

-----------------------------------------------------------------------------
(* Start of a turn: publication and output.                                *)

\* start_publication and start_output.
Poll ==
  /\ pc = "poll"
  /\ pc' = "sweep"
  /\ op' = StartOp(op, needed)
  /\ reserved' = (reserved \/ Demand)
  /\ ceiling' = IF ~reserved /\ Demand /\ ceiling = None
                THEN next + MaxAhead ELSE ceiling
  /\ UNCHANGED <<ret, late, reasmVars, needed, pending, disc, edgeVars, peerVars,
                 reqVars, workVars, genVars, seenVars>>

\* poll_operation reaches Terminal, with or without an error, in a turn (which
\* starts an operation before it polls), on a wake or between pools; the next
\* operation starts.
PublicationDone ==
  LET o == IF pc = "poll" THEN StartOp(op, needed) ELSE op
  IN
  /\ pc \in {"poll", "wait", "drain"}
  /\ o # None
  /\ needed' = needed \ {o}
  /\ op' = StartOp(None, needed')
  /\ pc' = IF pc = "wait" THEN "poll" ELSE pc
  /\ UNCHANGED <<ret, late, reasmVars, outVars, disc, edgeVars, peerVars, reqVars,
                 workVars, genVars, seenVars>>

\* The cursor has skipped a piece since the last segment was sent (history).
Jumped == gap \/ (taken # None /\ next > taken + 1)

\* Variant: the ceiling stays.
AfterOutputKeeps == ceiling

\* Variant: segments that still wait do not keep the output open.
AfterOutputForgets == IF next' \notin complete' THEN None ELSE ceiling

\* Output is over when nothing is left to send.
AfterOutput == IF pending' = 0 /\ next' \notin complete' THEN None ELSE ceiling

\* finish_output_step with its permit: send what is pending, or take exactly
\* one ready piece, align it and send the first of its k segments.  Transport
\* damage cuts segments apart and marks what follows it, in this piece or later.
FinishOutput(k, damaged) ==
  /\ pc \in {"sweep", "wait", "drain"}
  /\ reserved
  /\ reserved' = FALSE
  /\ pc' = IF pc = "wait" THEN "poll" ELSE pc
  /\ \/ /\ pending > 0
        /\ k = 0 /\ ~damaged
        /\ pending' = pending - 1
        /\ sent' = TRUE /\ bare' = FALSE
        /\ UNCHANGED <<reasmVars, disc, taken, gap>>
        /\ ceiling' = AfterOutput
     \/ /\ ~Demand
        /\ k = 0 /\ ~damaged
        /\ ceiling' = None
        /\ UNCHANGED <<reasmVars, disc, pending, seenVars>>
     \/ /\ pending = 0 /\ Demand
        /\ SkipTo(next + 1)
        /\ taken' = next
        /\ k > 1 => damaged
        /\ disc' \in IF damaged /\ k > 0 THEN BOOLEAN
                    ELSE {damaged \/ (k = 0 /\ disc)}
        /\ pending' = Larger(k - 1, 0)
        /\ gap' = (k = 0 /\ Jumped)
        /\ sent' = (sent \/ k > 0)
        /\ bare' = (k > 0 /\ sent /\ Jumped /\ ~disc)
        /\ ceiling' = IF k = 0 THEN None ELSE AfterOutput
  /\ UNCHANGED <<ret, late, pubVars, edgeVars, peerVars, reqVars, workVars, genVars>>

-----------------------------------------------------------------------------
(* The rest of a turn: timers, retransmission, requests.                   *)

\* The pool ends: its operations, workers and queues go with it.
EndPool ==
  /\ pc' = "drain" /\ ret' = "poll" /\ late' = {}
  /\ op' = None /\ reserved' = FALSE
  /\ wk' = [i \in Ids |-> "none"]
  /\ cmds' = [i \in Ids |-> 0]

\* The corroboration deadline passes; playback starts from the best window.
Deadline ==
  /\ pc = "sweep" /\ startup
  /\ startup' = FALSE
  /\ ThenAdvance("sweep")
  /\ UNCHANGED <<reasmVars, pubVars, outVars, disc, head, floor, peerVars, reqVars,
                 workVars, genVars, seenVars>>

\* The output budget runs out: it is suspended before corroboration and while
\* output waits for the consumer.
Stale ==
  /\ pc = "sweep" /\ ~startup /\ ceiling = None
  /\ EndPool
  /\ UNCHANGED <<reasmVars, needed, ceiling, pending, disc, edgeVars, peerVars,
                 reqVars, genVars, seenVars>>

\* skip_evicted_gap: a cursor that stood still, with no window that covers it,
\* goes to the lowest piece some serving peer has.
Evicted ==
  /\ ~Hold /\ FarTarget(head) = next
  /\ Serving # {}
  /\ \A i \in Serving : win[i].min > next

\* retransmit_stalled_requests: catch up, skip an evicted gap if the cursor is
\* stuck, requeue the requests T that timed out (their slots stay taken).
Retransmit(T, stuck) ==
  LET n == IF stuck THEN Least({win[i].min : i \in Serving}) ELSE FarTarget(head)
      timers == IF Hold THEN at ELSE {p \in at : p >= n}
  IN /\ pc = "sweep"
     /\ stuck => Evicted
     /\ T \subseteq timers /\ (Hold => T = {})
     /\ SkipTo(n)
     /\ floor' = IF Hold THEN floor ELSE Larger(floor, head - Prefetch)
     /\ disc' = (disc \/ (n # next /\ (stuck \/ sent)))
     /\ inflight' = Pruned(n)
     /\ requested' = requested \ T
     /\ at' = timers \ T
     /\ late' = T
     /\ pc' = "advance"
     /\ ret' = IF T # {} \/ n # next THEN "release" ELSE "settle"
     /\ UNCHANGED <<pubVars, outVars, head, startup, peerVars, workVars, genVars,
                    seenVars>>

\* Its second half: a timed-out piece that no peer took gives up its old slots.
Release ==
  LET lost == late \ at
  IN /\ pc = "release"
     /\ inflight' = Everywhere(inflight, lost)
     /\ ThenAdvance(IF lost = {} THEN "settle" ELSE "again")
     /\ UNCHANGED <<reasmVars, pubVars, outVars, disc, edgeVars, peerVars,
                    requested, at, workVars, genVars, seenVars>>

\* An empty pool with nothing to deliver is over; otherwise a pool just built
\* takes its first turn, and a turn that is done waits for an event.
Settle ==
  /\ pc \in {"settle", "built"}
  /\ IF Peers = {} /\ ~Work
     THEN EndPool
     ELSE /\ pc' = IF pc = "built" THEN "poll" ELSE "wait"
          /\ UNCHANGED <<ret, late, op, reserved, workVars>>
  /\ UNCHANGED <<reasmVars, needed, ceiling, pending, disc, edgeVars, peerVars,
                 reqVars, genVars, seenVars>>

\* The wait times out.
Tick ==
  /\ pc = "wait" /\ pc' = "poll"
  /\ UNCHANGED <<ret, late, reasmVars, pubVars, outVars, disc, edgeVars, peerVars,
                 reqVars, workVars, genVars, seenVars>>

-----------------------------------------------------------------------------
(* Events of current peers.                                                *)

Unchoke(i) ==
  /\ pc = "wait" /\ i \in Peers
  /\ unchoked' = unchoked \cup {i}
  /\ ThenAdvance("poll")
  /\ UNCHANGED <<reasmVars, pubVars, outVars, disc, edgeVars, win, reqVars,
                 workVars, genVars, seenVars>>

Choke(i) ==
  /\ pc = "wait" /\ i \in Peers
  /\ unchoked' = unchoked \ {i}
  /\ pc' = "poll"
  /\ UNCHANGED <<ret, late, reasmVars, pubVars, outVars, disc, edgeVars, win, reqVars,
                 workVars, genVars, seenVars>>

\* send_peer_command: an answer to a leecher takes a slot of the peer's queue; if
\* there is none its worker is aborted.
Reply(i) ==
  /\ pc = "wait" /\ i \in Peers
  /\ pc' = "poll"
  /\ IF wk[i] = "open" /\ cmds[i] < QueueCap
     THEN cmds' = [cmds EXCEPT ![i] = @ + 1] /\ UNCHANGED wk
     ELSE wk' = [wk EXCEPT ![i] = "closed"] /\ UNCHANGED cmds
  /\ UNCHANGED <<ret, late, reasmVars, pubVars, outVars, disc, edgeVars, peerVars,
                 reqVars, genVars, seenVars>>

\* Have, an extended handshake or gossip that moves a window or the head.
Have(i, h) ==
  /\ pc = "wait" /\ i \in Peers
  /\ h > win[i].max
  /\ head' = Larger(head, h)
  /\ win' = [win EXCEPT ![i].max = h]
  /\ ThenAdvance("poll")
  /\ UNCHANGED <<reasmVars, pubVars, outVars, disc, floor, startup, unchoked,
                 reqVars, workVars, genVars, seenVars>>

\* Variant: chunks are taken before corroboration.
WantedEarly(p, n) == (ceiling = None \/ p < ceiling) /\ p >= n

\* A chunk the actor looks at: not before corroboration, not beyond the output
\* ceiling, not behind the cursor n.
Wanted(p, n) == ~startup /\ (ceiling = None \/ p < ceiling) /\ p >= n

\* add_live_chunk refuses it: malformed, forged when complete, or too far.
Refused(p, n, kind) ==
  p \notin complete /\ (kind = "bad" \/ p >= n + MaxAhead)

\* The request for a piece is over: its slots, its timer, its reservation.
Finish(S) ==
  /\ inflight' = Everywhere(Pruned(FarTarget(head)), S)
  /\ requested' = requested \ S
  /\ at' = Timers(FarTarget(head)) \ S

\* A current peer may deliver any chunk at any time: in answer to a request, late,
\* twice, or unasked.

\* on_piece for a chunk that is dropped: only the catch-up has an effect.
ChunkSkipped(i, p, c) ==
  /\ pc = "wait" /\ i \in Peers
  /\ ~Wanted(p, FarTarget(head))
  /\ SkipFar(head)
  /\ Finish({})
  /\ pc' = "poll"
  /\ UNCHANGED <<ret, late, pubVars, outVars, head, startup, peerVars, wk, cmds,
                 genVars, seenVars>>

\* on_piece for a chunk the reassembler refuses: release_rejected_piece.
ChunkRefused(i, p, c, kind) ==
  LET n == FarTarget(head)
  IN /\ pc = "wait" /\ i \in Peers
     /\ Wanted(p, n) /\ Refused(p, n, kind)
     /\ next' = n
     /\ filled' = [r \in Pieces |-> IF r < n \/ r = p THEN {} ELSE filled[r]]
     /\ complete' = {r \in complete : r >= n}
     /\ plain' = {r \in plain : r >= n /\ r # p}
     /\ floor' = IF Hold THEN floor ELSE Larger(floor, head - Prefetch)
     /\ disc' = (disc \/ (n # next /\ sent))
     /\ Finish({p})
     /\ ThenAdvance("poll")
     /\ UNCHANGED <<pubVars, outVars, head, startup, peerVars, wk, cmds, genVars,
                    seenVars>>

\* on_piece for a chunk the reassembler takes.  An odd chunk (another header than the
\* first) makes the piece unfit for publication; a complete piece that is fit ends its
\* request, and needs publication if its acceptance allows it.  A block shorter than a
\* chunk is left out: it takes its slot with fewer bytes, so that its piece is never
\* complete, and the request ends when every slot was taken (note_chunk).
ChunkTaken(i, p, c, kind) ==
  LET n == FarTarget(head)
      got == IF p \in complete THEN {} ELSE filled[p] \cup {c}
      done == p \notin complete /\ got = Chunks
      odd == p \notin complete /\ kind = "odd"
      fit == (done \/ p \in complete) /\ p \notin plain /\ ~odd
  IN /\ pc = "wait" /\ i \in Peers
     /\ Wanted(p, n) /\ ~Refused(p, n, kind)
     /\ next' = n
     /\ filled' = [r \in Pieces |-> IF r < n THEN {}
                                    ELSE IF r = p THEN (IF done THEN {} ELSE got)
                                    ELSE filled[r]]
     /\ complete' = {r \in complete : r >= n} \cup (IF done THEN {p} ELSE {})
     /\ plain' = {r \in plain : r >= n} \cup (IF odd THEN {p} ELSE {})
     /\ needed' = needed \cup (IF done /\ fit /\ Publishable THEN {p} ELSE {})
     /\ op' = StartOp(op, needed')
     /\ floor' = IF Hold THEN floor ELSE Larger(floor, head - Prefetch)
     /\ disc' = (disc \/ (n # next /\ sent))
     /\ Finish(IF fit THEN {p} ELSE {})
     /\ ThenAdvance("poll")
     /\ UNCHANGED <<outVars, head, startup, peerVars, wk, cmds, genVars, seenVars>>

\* drop_peer_runtime: the slots of the peers D return to the scheduler.
Drop(D) ==
  /\ win' = [i \in Ids |-> IF i \in D THEN NoWindow ELSE win[i]]
  /\ unchoked' = unchoked \ D
  /\ inflight' = [i \in Ids |-> IF i \in D THEN {} ELSE inflight[i]]
  /\ requested' = Released(D)
  /\ wk' = [i \in Ids |-> IF i \in D THEN "none" ELSE wk[i]]
  /\ cmds' = [i \in Ids |-> IF i \in D THEN 0 ELSE cmds[i]]
  /\ UNCHANGED at

\* handle_pool_peer_loss.
Lost(i) ==
  /\ pc = "wait" /\ i \in Peers
  /\ Drop({i})
  /\ ThenAdvance("lost")
  /\ UNCHANGED <<reasmVars, pubVars, outVars, disc, edgeVars, genVars, seenVars>>

\* Its end: if the last productive peer went, sources whose window ends behind
\* the cursor go too; an empty pool with nothing to deliver is over.
LostRest(D) ==
  /\ pc = "lost"
  /\ D \subseteq {i \in Peers : win[i].max < next}
  /\ IF Peers = D /\ ~Work
     THEN EndPool /\ UNCHANGED <<peerVars, reqVars>>
     ELSE pc' = "poll" /\ Drop(D) /\ UNCHANGED <<ret, late, op, reserved>>
  /\ UNCHANGED <<reasmVars, needed, ceiling, pending, disc, edgeVars, genVars,
                 seenVars>>

-----------------------------------------------------------------------------
(* Connected candidates.                                                   *)

Full == Cardinality(Peers) >= MaxActive

\* on_refill and finish_activation, when a full provisional pool sees an
\* independent window that ends at the same head.
Corroborate(w) ==
  /\ pc = "wait" /\ startup /\ Full
  /\ CanResume(w) /\ w.max = head
  /\ startup' = FALSE
  /\ \/ ThenAdvance("poll")
     \/ /\ \E i \in Peers : win[i].max = w.max
        /\ pc' = "poll" /\ UNCHANGED <<ret, late>>
  /\ UNCHANGED <<reasmVars, pubVars, outVars, disc, head, floor, peerVars, reqVars,
                 workVars, genVars, seenVars>>

\* on_refill: a usable window is evidence of the head before its transport is
\* activated, and even if the activation fails.
Receive(w) ==
  /\ pc = "wait" /\ nextId <= MaxId
  /\ CanResume(w)
  /\ Full => startup /\ w.max > head
  /\ head' = Larger(head, w.max)
  /\ SkipFar(head')
  /\ inflight' = Pruned(next') /\ at' = Timers(next')
  /\ pc' = "poll"
  /\ UNCHANGED <<ret, late, pubVars, outVars, startup, peerVars, requested, workVars,
                 genVars, seenVars>>

\* commit_upstream_peer for generation nextId, which replaces the peers gone.
Register(w, u, gone) ==
  /\ win' = [i \in Ids |-> IF i = nextId THEN w ELSE IF i \in gone THEN NoWindow ELSE win[i]]
  /\ unchoked' = (unchoked \ gone) \cup (IF u THEN {nextId} ELSE {})
  /\ inflight' = [i \in Ids |-> IF i \in gone THEN {} ELSE inflight[i]]
  /\ requested' = Released(gone)
  /\ wk' = [i \in Ids |-> IF i = nextId THEN "open"
                          ELSE IF i \in gone THEN "none" ELSE wk[i]]
  /\ cmds' = [i \in Ids |-> IF i \in gone THEN 0 ELSE cmds[i]]
  /\ nextId' = nextId + 1

\* finish_activation: the candidate joins a pool that has room, or replaces in a
\* full one the provisional peer that was chosen before its writes, if that peer
\* is still there, still behind, and corroboration is still due.
Admit(w, u, gone) ==
  LET evidence == startup /\ w.max >= head
  IN /\ pc = "wait" /\ nextId <= MaxId
     /\ CanResume(w) /\ w.max <= head
     /\ IF Full
        THEN evidence /\ \E i \in Peers : gone = {i} /\ win[i].max < w.max
        ELSE gone = {}
     /\ Register(w, u, gone)
     /\ startup' = (startup /\ ~evidence)
     /\ ThenAdvance("poll")
     /\ UNCHANGED <<reasmVars, pubVars, outVars, disc, head, floor, at, pools, seenVars>>

-----------------------------------------------------------------------------
(* Peer workers and the consumer.                                          *)

\* Workers are given their steps while the actor waits: within a turn it sees
\* of them only the slots of a queue, and a queue that closes between the
\* snapshot and the send ("closing").

\* A worker stops; the actor's next snapshot of its queue may still miss it.
WorkerEnds(i, s) ==
  /\ pc = "wait" /\ wk[i] = "open"
  /\ wk' = [wk EXCEPT ![i] = s]
  /\ UNCHANGED <<turnVars, reasmVars, pubVars, outVars, disc, edgeVars, peerVars,
                 reqVars, cmds, genVars, seenVars>>

\* peer_worker takes a request off its queue; it writes it to the peer unless
\* the piece fell behind the floor.
WorkerSends(i) ==
  /\ pc = "wait" /\ wk[i] = "open" /\ cmds[i] > 0
  /\ cmds' = [cmds EXCEPT ![i] = @ - 1]
  /\ UNCHANGED <<turnVars, reasmVars, pubVars, outVars, disc, edgeVars, peerVars,
                 reqVars, wk, genVars, seenVars>>

\* The consumer drops its receiver; the session returns.
ConsumerGone ==
  /\ pc \in {"wait", "drain", "connect"}
  /\ pc' = "gone"
  /\ op' = None /\ reserved' = FALSE /\ ret' = "poll" /\ late' = {}
  /\ wk' = [i \in Ids |-> "none"]
  /\ cmds' = [i \in Ids |-> 0]
  /\ UNCHANGED <<reasmVars, needed, ceiling, pending, disc, edgeVars, peerVars,
                 reqVars, genVars, seenVars>>

-----------------------------------------------------------------------------
(* Between two pools.                                                      *)

\* drain_retained: deliver what was accepted, before any resume.  (Its check of
\* the corroboration deadline has nothing to do: see CorroborationFirst.)
DrainTurn ==
  /\ pc = "drain" /\ Work
  /\ op' = StartOp(op, needed)
  /\ reserved' = (reserved \/ Demand)
  /\ ceiling' = IF ~reserved /\ Demand /\ ceiling = None
                THEN next + MaxAhead ELSE ceiling
  /\ UNCHANGED <<turnVars, reasmVars, needed, pending, disc, edgeVars, peerVars,
                 reqVars, workVars, genVars, seenVars>>

Drained ==
  /\ pc = "drain" /\ ~Work
  /\ pc' = "connect"
  /\ op' = None /\ reserved' = FALSE
  /\ UNCHANGED <<ret, late, reasmVars, needed, ceiling, pending, disc, edgeVars,
                 peerVars, reqVars, workVars, genVars, seenVars>>

\* The connected peers of a new pool: ws[1] has the best window.  The peers A
\* are activated, of them U are unchoked already.
Pool(ws, A, U) ==
  /\ A \subseteq DOMAIN ws /\ U \subseteq A
  /\ win' = [i \in Ids |-> IF i \in A THEN ws[i] ELSE NoWindow]
  /\ unchoked' = U
  /\ wk' = [i \in Ids |-> IF i \in A THEN "open" ELSE "none"]
  /\ nextId' = Cardinality(DOMAIN ws) + 1
  /\ IF A = {} THEN pc' = "built" /\ UNCHANGED <<ret, late>>
     ELSE ThenAdvance("built")

Cohorts ==
  {ws \in UNION {[1 .. n -> Windows] : n \in 1 .. MaxActive} :
     \A i \in DOMAIN ws : ws[i].max <= ws[1].max}

\* Variant: a resume starts where the new peer's window does.
ResumeAtWindow(w) == IF Hold THEN next ELSE w.min

\* resume_with_policy: where the session goes on with a best window w.
Resume(w) == IF Hold THEN next ELSE Larger(next, w.min)

\* follow_peer_pool_with_discovery on a session that has history: resume, which
\* keeps the cursor while playback holds and else skips what ws[1] evicted.
Reconnect(ws, A, U) ==
  LET n == Resume(ws[1])
  IN /\ pc = "connect" /\ pools < MaxPools
     /\ \A i \in DOMAIN ws : CanResume(ws[i])
     /\ head' = Larger(head, ws[1].max)
     /\ SkipTo(n)
     /\ disc' = (disc \/ n # next)
     /\ requested' = {} /\ at' = {}
     /\ inflight' = [i \in Ids |-> {}]
     /\ Pool(ws, A, U)
     /\ pools' = pools + 1
     /\ UNCHANGED <<pubVars, outVars, floor, startup, cmds, seenVars>>

\* Continuity::fresh: the first pool starts Prefetch pieces behind its best
\* window's end; a lone peer's window must be corroborated.
Init ==
  \E ws \in Cohorts : \E A \in SUBSET (DOMAIN ws) : \E U \in SUBSET A :
    LET start == Larger(ws[1].max - Prefetch, ws[1].min)
    IN /\ pc = (IF A = {} THEN "built" ELSE "advance")
       /\ ret = (IF A = {} THEN "poll" ELSE "built") /\ late = {}
       /\ next = start /\ head = ws[1].max /\ floor = start
       /\ filled = [p \in Pieces |-> {}] /\ complete = {} /\ plain = {}
       /\ needed = {} /\ op = None
       /\ ceiling = None /\ reserved = FALSE /\ pending = 0 /\ disc = FALSE
       /\ startup = (Cardinality(DOMAIN ws) = 1)
       /\ win = [i \in Ids |-> IF i \in A THEN ws[i] ELSE NoWindow]
       /\ unchoked = U
       /\ inflight = [i \in Ids |-> {}] /\ requested = {} /\ at = {}
       /\ wk = [i \in Ids |-> IF i \in A THEN "open" ELSE "none"]
       /\ cmds = [i \in Ids |-> 0]
       /\ nextId = Cardinality(DOMAIN ws) + 1 /\ pools = 1
       /\ taken = None /\ gap = FALSE /\ sent = FALSE /\ bare = FALSE

Turn ==
  \/ Advance \/ Poll \/ Deadline \/ Stale \/ Release \/ Settle \/ Tick
  \/ \E stuck \in BOOLEAN : \E T \in SUBSET at : Retransmit(T, stuck)

Event ==
  \/ \E i \in Ids : Unchoke(i) \/ Choke(i) \/ Lost(i) \/ Reply(i)
  \/ \E i \in Ids, h \in Pieces : Have(i, h)
  \/ \E D \in SUBSET Ids : LostRest(D)
  \/ \E i \in Ids : \E p \in Pieces, c \in Chunks :
       \/ ChunkSkipped(i, p, c)
       \/ \E kind \in Kinds :
            ChunkRefused(i, p, c, kind) \/ ChunkTaken(i, p, c, kind)
  \/ \E w \in Windows : Corroborate(w) \/ Receive(w)
  \/ \E w \in Windows, u \in BOOLEAN, gone \in SUBSET Ids : Admit(w, u, gone)

Output ==
  \/ PublicationDone
  \/ \E k \in 0 .. MaxSegments, damaged \in BOOLEAN : FinishOutput(k, damaged)

Between ==
  \/ DrainTurn \/ Drained
  \/ \E ws \in Cohorts : \E A \in SUBSET (DOMAIN ws) : \E U \in SUBSET A :
       Reconnect(ws, A, U)

World ==
  \/ ConsumerGone
  \/ \E i \in Ids : \E s \in {"closing", "closed"} : WorkerEnds(i, s)
  \/ \E i \in Ids : WorkerSends(i)

Next == Turn \/ Event \/ Output \/ Between \/ World

Spec == Init /\ [][Next]_vars

\* The actor keeps taking turns; a store that finished its work, and a consumer
\* that reads, are noticed at one of the polls every turn makes.
FairSpec ==
  /\ Spec
  /\ WF_vars(Turn)
  /\ WF_vars(\E D \in SUBSET Ids : LostRest(D))
  /\ WF_vars(DrainTurn) /\ WF_vars(Drained)
  /\ SF_vars(PublicationDone)
  /\ SF_vars(\E k \in 0 .. MaxSegments, damaged \in BOOLEAN : FinishOutput(k, damaged))

-----------------------------------------------------------------------------
(* Properties.                                                             *)

InPool == pc \notin {"drain", "connect", "gone"}

TypeOK ==
  /\ pc \in {"built", "poll", "sweep", "advance", "release", "settle", "wait",
             "lost", "drain", "connect", "gone"}
  /\ ret \in {"built", "poll", "sweep", "release", "again", "settle", "lost"}
  /\ late \subseteq Pieces
  /\ next \in 0 .. MaxPiece + 1 /\ head \in Pieces /\ floor \in Pieces
  /\ filled \in [Pieces -> SUBSET Chunks]
  /\ complete \subseteq Pieces /\ plain \subseteq Pieces /\ needed \subseteq Pieces
  /\ op \in Pieces \cup {None}
  /\ ceiling \in Nat \cup {None}
  /\ reserved \in BOOLEAN /\ disc \in BOOLEAN /\ startup \in BOOLEAN
  /\ pending \in 0 .. MaxSegments - 1
  /\ win \in [Ids -> [min : Pieces, max : Pieces]]
  /\ unchoked \subseteq Ids
  /\ inflight \in [Ids -> SUBSET Pieces]
  /\ requested \subseteq Pieces /\ at \subseteq Pieces
  /\ wk \in [Ids -> {"none", "open", "closing", "closed"}]
  /\ cmds \in [Ids -> 0 .. QueueCap]
  /\ nextId \in 1 .. MaxId + 1 /\ pools \in Nat
  /\ taken \in Pieces \cup {None}
  /\ gap \in BOOLEAN /\ sent \in BOOLEAN /\ bare \in BOOLEAN

\* The publication operation always finds the piece it works on: still owed,
\* still complete and fit, still ahead of the cursor (the three expect() of
\* publication.rs), whatever skips, rejections, outputs and rebuilt pools come
\* between its steps.
PublicationIsHeld ==
  /\ op # None => op \in needed
  /\ needed \subseteq {p \in complete \ plain : p >= next}

\* No request is orphaned: while a pool runs, a piece the scheduler counts as
\* requested is in flight at a current peer and has a timer that will requeue
\* it; nothing else would ever ask for it again.
RequestsAreOwned ==
  InPool => \A p \in requested : p >= next =>
              p \in at /\ \E i \in Peers : p \in inflight[i]

\* Workers drop queued requests below the floor: the floor never passes the
\* cursor, so what they drop is never still needed.
FloorIsBehind == floor <= next

\* No peer is ever asked for more than max_piece_advance pieces at a time.
SlotsAreBounded == \A i \in Ids : Cardinality(inflight[i]) <= MaxInFlight

\* The bookkeeping of requests as a whole: nobody holds a piece that nobody asks
\* for, no peer is asked for too much, and no worker is told to drop what is
\* still needed.
RequestsAreTracked == RequestsAreOwned /\ SlotsAreBounded /\ FloorIsBehind

\* After something was played, a segment that follows skipped pieces tells the
\* consumer so: all three skips mark the discontinuity and none is lost on the
\* way to the output.
GapsAreMarked == ~bare

\* Media is withheld until the first window is corroborated or its deadline is
\* over: before that nothing is assembled, reserved or sent, even if the session
\* loses its pool and builds others meanwhile.
CorroborationFirst == startup => ~Work /\ complete = {} /\ ~reserved /\ ~sent

\* Pieces reach the consumer in order and none twice, across skips, duplicate
\* deliveries and rebuilt pools.
OutputInOrder ==
  [][taken' # taken => taken' > taken /\ taken' = next /\ taken' \in complete \ needed]_vars

\* Accepted media is never thrown away while playback holds: a complete piece
\* leaves the reassembler by being played, or by a skip that found no output
\* in progress and nothing to publish.
AcceptedIsKept ==
  [][\A p \in complete \ complete' : p = taken' \/ ~Hold]_vars

\* What was accepted is played, in order and once.
OutputIsKept == OutputInOrder /\ AcceptedIsKept

\* Requests stop while playback holds, so in a pool a hold must end: whatever is
\* accepted is published and delivered, and the ceiling lets no later piece
\* prolong it.  (A session that has to connect anew takes the hold with it.)
HoldEnds == []<>(~Hold \/ pc \in {"connect", "gone"})

\* The consumer's view: what left the cursor since the last segment is what
\* OrderedFeed calls lost, and the pending segments are those it owes.
Feed == INSTANCE OrderedFeed
        WITH cursor <- next, last <- taken, owed <- pending, lost <- Jumped, mark <- disc

\* A session with its peers, pools, publication and skips is a feed in order:
\* follow_live and the three places that move the cursor keep what the
\* consumer was promised.
SessionIsFeed == Feed!FeedSpec

\* scheduler.rs: the scheduler "never double-requests a piece"; a completed
\* request is over because "the reassembler now owns the bytes".
NeverDoubleRequests == requested \cap (complete \ plain) = {}

=============================================================================
