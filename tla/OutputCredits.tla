---------------------------- MODULE OutputCredits ----------------------------
(* Who is credited for output (live_session/continuity.rs and              *)
(* finish_output_step).  Pieces pass through TsResync, which keeps a tail  *)
(* and drops what it cannot align, and through KeyframeGate, which withholds*)
(* a prefix after every loss.  The producers of the bytes that come out are*)
(* worked out by arithmetic on ranges; a peer that is credited is kept as  *)
(* productive and remembered in the warm cache.                            *)
EXTENDS Integers, Sequences, FiniteSets

CONSTANTS
  PacketLen,   \* TS_PACKET_LEN
  TailMax,     \* MAX_UNSYNCED_TAIL
  PieceLens,   \* payload lengths of a piece
  MaxPieces    \* bound: pieces taken

ASSUME CreditsAssumption ==
  /\ PacketLen \in Nat \ {0} /\ TailMax \in Nat /\ MaxPieces \in Nat
  /\ PieceLens \subseteq Nat

VARIABLES
  pieces,    \* pieces taken so far: the last one is the newest
  origin,    \* history: the piece each byte in TsResync's buffer came from, 0 when mixed
  booked,    \* resync_credit: ranges of that buffer and the piece they belong to
  acquired,  \* TsResync::acquired_sync
  locked,    \* KeyframeGate::locked
  marked,    \* discontinuity_pending
  queue,     \* pending_output: [disc, from (history: where its bytes came from)]
  credits,   \* pending_credit
  credited,  \* OutputCredit::credited, of each piece
  heard      \* history: pieces with bytes that were sent

creditVars == <<pieces, origin, booked, acquired, locked, marked, queue, credits, credited, heard>>

Lesser(a, b) == IF a <= b THEN a ELSE b
Greater(a, b) == IF a >= b THEN a ELSE b

Overlaps(a, b) == a.from < b.to /\ b.from < a.to

\* The part of a credit inside a range, moved to where the range begins.
Clip(c, r, base) ==
  [from |-> base + Greater(c.from, r.from) - r.from,
   to |-> base + Lesser(c.to, r.to) - r.from, piece |-> c.piece]

Slice(spans, r) == {Clip(c, r, 0) : c \in {d \in spans : Overlaps(d, r)}}

\* Variant: what stays in the buffer is not moved to its new place.
KeptInPlace(book, consumed) == {c \in book : c.to > consumed}

\* resync_credit after the buffer lost its first bytes.
Kept(book, consumed) ==
  {[from |-> Greater(c.from - consumed, 0), to |-> c.to - consumed, piece |-> c.piece] :
     c \in {d \in book : d.to > consumed}}

-----------------------------------------------------------------------------
(* TsResync::push_report, by what it may select of n buffered bytes.       *)

Selections(n) ==
  {S \in SUBSET (0 .. n - 2 * PacketLen) : \A s, t \in S : s < t => s + PacketLen <= t}

EndOf(S) == IF S = {} THEN 0 ELSE (CHOOSE s \in S : \A t \in S : t <= s) + PacketLen
OffsetOf(S, s) == PacketLen * Cardinality({t \in S : t < s})
PacketAt(S, k) == CHOOSE s \in S : OffsetOf(S, s) = k * PacketLen

\* Offsets in the output at which bytes were lost once sync had been acquired.
Boundaries(S, consumed) ==
  {OffsetOf(S, s) : s \in {t \in S :
      /\ acquired \/ (\E u \in S : u < t)
      /\ ~(t = 0 \/ (\E u \in S : u + PacketLen = t))}}
  \cup (IF consumed > EndOf(S) /\ (acquired \/ S # {}) THEN {OffsetOf(S, consumed)} ELSE {})

\* The credits of the selected bytes, in the output's coordinates.
Spans(book, S) ==
  UNION {{Clip(c, [from |-> s, to |-> s + PacketLen], OffsetOf(S, s)) :
            c \in {d \in book : Overlaps(d, [from |-> s, to |-> s + PacketLen])}} : s \in S}

\* The segments the boundaries cut n bytes of output into.
Cuts(B, n) == B \cup {0, n}
Segments(B, n) ==
  {r \in [from : Cuts(B, n), to : Cuts(B, n)] :
     r.from < r.to /\ \A x \in Cuts(B, n) : ~(r.from < x /\ x < r.to)}

\* filter_output_after_discontinuity: the gate forwards a segment from some
\* packet on, all of it when it is locked; nothing forwarded is no output.
Forwards(seg, opens, B) ==
  /\ opens \in seg.from .. seg.to /\ opens % PacketLen = 0
  /\ locked /\ seg.from = 0 /\ 0 \notin B => opens = 0

Filtered(spans, seg, opens) ==
  {c.piece : c \in {d \in Slice(spans, seg) : Overlaps(d, [from |-> opens - seg.from, to |-> seg.to - seg.from])}}

\* History: where the bytes of an output came from.
Sources(bytes, S, opens, seg) ==
  UNION {{bytes[PacketAt(S, k) + j] : j \in 1 .. PacketLen} :
           k \in {i \in 0 .. Cardinality(S) - 1 : opens <= i * PacketLen /\ i * PacketLen < seg.to}} \ {0}

\* Segments in order, as sequences.
InOrder(R) == CHOOSE q \in [1 .. Cardinality(R) -> R] : \A i, j \in DOMAIN q : i < j => q[i].from < q[j].from

-----------------------------------------------------------------------------
CreditsInit ==
  /\ pieces = 0 /\ origin = << >> /\ booked = {} /\ acquired = FALSE
  /\ locked = TRUE /\ marked = FALSE
  /\ queue = << >> /\ credits = << >> /\ credited = {} /\ heard = {}

\* finish_output_step takes a piece, of one producer or of several, and
\* resync_output_credited turns it into segments with their credits.
TakePiece(len, single) ==
  LET n == pieces + 1
      total == Len(origin) + len
      bytes == origin \o [i \in 1 .. len |-> IF single THEN n ELSE 0]
      book == booked \cup
              (IF single /\ len > 0 THEN {[from |-> Len(origin), to |-> total, piece |-> n]} ELSE {})
  IN
  /\ queue = << >> /\ pieces < MaxPieces
  /\ pieces' = n
  /\ \E S \in Selections(total) : \E consumed \in EndOf(S) .. total :
       LET B == Boundaries(S, consumed)
           size == PacketLen * Cardinality(S)
           segs == Segments(B, size)
           spans == Spans(book, S)
       IN
       /\ total - consumed <= TailMax
       /\ origin' = SubSeq(bytes, consumed + 1, total)
       /\ booked' = Kept(book, consumed)
       /\ acquired' = (acquired \/ S # {})
       /\ \E opens \in [segs -> 0 .. size] :
            LET out == InOrder({g \in segs : opens[g] < g.to})
            IN
            /\ \A g \in segs : Forwards(g, opens[g], B)
            /\ queue' = [i \in DOMAIN out |->
                           [disc |-> out[i].from \in B \/ marked,
                            from |-> Sources(bytes, S, opens[out[i]], out[i])]]
            /\ credits' = [i \in DOMAIN out |-> Filtered(spans, out[i], opens[out[i]])]
            /\ locked' = IF S = {} \/ size \in B THEN locked /\ B = {}
                         ELSE \E g \in segs : g.to = size /\ opens[g] < size
            /\ marked' = (size \in B \/ (~locked' /\ (marked \/ B # {})))
  /\ UNCHANGED <<credited, heard>>

\* The first waiting segment is sent, and its producers are credited once each.
SendSegment ==
  /\ queue # << >>
  /\ queue' = Tail(queue)
  /\ credits' = IF credits = << >> THEN credits ELSE Tail(credits)
  /\ credited' = credited \cup (IF credits = << >> THEN {} ELSE Head(credits))
  /\ heard' = heard \cup Head(queue).from
  /\ UNCHANGED <<pieces, origin, booked, acquired, locked, marked>>

\* arm_output_gate, when the cursor skips a piece.
ArmOutputGate ==
  /\ origin' = << >> /\ booked' = {} /\ acquired' = FALSE
  /\ locked' = FALSE /\ marked' = TRUE
  /\ UNCHANGED <<pieces, queue, credits, credited, heard>>

CreditsNext ==
  \/ \E len \in PieceLens, single \in BOOLEAN : TakePiece(len, single)
  \/ SendSegment \/ ArmOutputGate

CreditsSpec == CreditsInit /\ [][CreditsNext]_creditVars

-----------------------------------------------------------------------------
(* Properties.                                                             *)

\* Range arithmetic and the bytes agree: of the pieces with one producer,
\* exactly those with a byte in a segment that was sent are credited, whatever
\* was cut off, kept back or withheld between the piece and the segment.
CreditsAreExact ==
  /\ credited = heard
  /\ Len(credits) = Len(queue)
  /\ \A i \in DOMAIN queue : credits[i] = queue[i].from
=============================================================================
