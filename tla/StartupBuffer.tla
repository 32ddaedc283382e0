----------------------------- MODULE StartupBuffer -----------------------------
(***************************************************************************)
(* StartupBufferedSource (startup_buffer.rs): the decorator that holds back*)
(* the beginning of a stream until enough of it is queued, drops what lies *)
(* before a reset of the stream's clock, and then gets out of the way.     *)
(*                                                                         *)
(* The inner stream is a run of units, UnitsPerPacket to a transport packet, *)
(* delivered in chunks that need not end at a packet's end.  A queued chunk*)
(* is the interval of positions it covers.                                 *)
(***************************************************************************)
EXTENDS Integers, Sequences, SequencesExt

CONSTANTS UnitsPerPacket,   \* TS_PACKET_LEN
          BufferTarget,     \* target_ms in clock steps
          BufferMax,        \* max_bytes in units
          BufferTimeout,    \* timeout in ticks
          StreamLength      \* bound: units of the inner stream

ASSUME BufferAssumption ==
    /\ UnitsPerPacket \in Nat \ {0} /\ BufferTarget \in Nat /\ BufferMax \in Nat \ {0}
    /\ BufferTimeout \in Nat \ {0} /\ StreamLength \in Nat

VARIABLES
    inner,     \* the inner source: position, where it last broke and whether it said so, its end
    res,       \* StartupReservoir with pending_discontinuity
    outcome    \* what the consumer got: intervals with their discontinuity flag

bufferVars == <<inner, res, outcome>>

BufferInit ==
    /\ inner = [pos |-> 0, epoch |-> 0, broke |-> FALSE, ended |-> FALSE]
    /\ res = [phase |-> IF BufferTarget = 0 THEN "draining" ELSE "collecting", queue |-> <<>>, queued |-> 0,
              partial |-> 0, clock |-> -1, age |-> -1, pending |-> FALSE]
    /\ outcome = <<>>

Span(c) == c[2] - c[1]

\* Variant: the chunk in which the prefix ends is kept whole.
DropHeadWhole(queue, n) == queue

DropHead(queue, n) == <<<<Head(queue)[1] + n, Head(queue)[2]>>>> \o Tail(queue)

\* discard_prefix: the queue from position p on.
DropBefore(queue, p) ==
    LET kept == SelectSeq(queue, LAMBDA c : c[2] > p) IN
    IF kept = <<>> THEN kept ELSE DropHead(kept, p - Head(kept)[1])

\* observe_bytes and observe_timing over the packets that a chunk completes,
\* each a step of the clock, a jump back, the discontinuity indicator or none
\* of them: the clock, and which of the packets last started a new epoch.
Completed(partial, n) == (partial + n) \div UnitsPerPacket
ObserveGap(o, mark) ==
    LET i == o.i + 1 IN
    CASE mark = "marker" -> [i |-> i, clock |-> -1, reset |-> i]
      [] mark = "jump" /\ o.clock >= 0 -> [i |-> i, clock |-> 0, reset |-> i]
      [] mark = "tick" \/ (mark = "jump" /\ o.clock < 0) -> [o EXCEPT !.i = i, !.clock = @ + 1]
      [] OTHER -> [o EXCEPT !.i = i]
ObserveAll(clock, marks) == FoldLeft(ObserveGap, [i |-> 0, clock |-> clock, reset |-> 0], marks)

Queued(queue) == IF queue = <<>> THEN 0 ELSE queue[Len(queue)][2] - Head(queue)[1]

\* Where the packet that starts the new epoch begins.
EpochStart(r, chunk, o) == chunk[1] - r.partial + UnitsPerPacket * (o.reset - 1)

\* push, with ready_reason and release.  Without a clock the declared bitrate
\* may say that enough is queued.
Pushed(r, chunk, o, enough) ==
    LET all == Append(r.queue, chunk)
        queue == IF o.reset = 0 THEN all ELSE DropBefore(all, EpochStart(r, chunk, o))
        age == IF r.age < 0 \/ o.reset > 0 THEN 0 ELSE r.age
        full == Queued(queue) > BufferMax \/ o.clock >= BufferTarget \/ age >= BufferTimeout
    IN  [r EXCEPT !.queue = queue, !.queued = Queued(queue), !.clock = o.clock, !.age = age,
                  !.partial = (r.partial + Span(chunk)) % UnitsPerPacket,
                  !.phase = IF full \/ (o.clock <= 0 /\ enough) THEN "draining" ELSE @]

\* collect_next with a chunk; a discontinuity of the inner source goes with it.
CollectChunk ==
    /\ res.phase = "collecting" /\ ~inner.ended
    /\ \E n \in 1 .. 3, break \in BOOLEAN :
        LET r == IF break THEN [res EXCEPT !.queue = <<>>, !.queued = 0, !.partial = 0, !.clock = -1,
                                           !.age = -1, !.pending = TRUE] ELSE res
            chunk == <<inner.pos, inner.pos + n>>
        IN  /\ inner.pos + n <= StreamLength
            /\ \E enough \in BOOLEAN,
                  marks \in [1 .. Completed(r.partial, n) -> {"plain", "tick", "jump", "marker"}] :
                LET o == ObserveAll(r.clock, marks) IN
                /\ res' = Pushed(r, chunk, o, enough)
                /\ inner' = [inner EXCEPT !.pos = @ + n, !.broke = @ \/ break,
                              !.epoch = IF o.reset > 0 THEN EpochStart(r, chunk, o)
                                        ELSE IF break THEN chunk[1] ELSE @]
    /\ UNCHANGED outcome

\* collect_next at the end of the inner stream.
CollectEnd ==
    /\ res.phase = "collecting"
    /\ inner' = [inner EXCEPT !.ended = TRUE]
    /\ res' = [res EXCEPT !.phase = "draining"]
    /\ UNCHANGED outcome

\* collect_next at the deadline: the pending read of the inner source is dropped.
CollectDeadline ==
    /\ res.phase = "collecting" /\ res.age >= BufferTimeout
    /\ res' = [res EXCEPT !.phase = "draining"]
    /\ UNCHANGED <<inner, outcome>>

\* next while draining; the consumer takes the flag with the chunk.
Drain ==
    /\ res.phase = "draining"
    /\ IF res.queue # <<>>
       THEN /\ outcome' = Append(outcome, [span |-> Head(res.queue), disc |-> res.pending])
            /\ res' = [res EXCEPT !.queue = Tail(@), !.queued = @ - Span(Head(res.queue)), !.pending = FALSE]
       ELSE UNCHANGED outcome /\ res' = [res EXCEPT !.phase = "released"]
    /\ UNCHANGED inner

\* next afterwards.
PassThrough ==
    /\ res.phase = "released" /\ ~inner.ended
    /\ \/ \E n \in 1 .. 3, break \in BOOLEAN :
            /\ inner.pos + n <= StreamLength
            /\ inner' = [inner EXCEPT !.pos = @ + n]
            /\ outcome' = Append(outcome, [span |-> <<inner.pos, inner.pos + n>>, disc |-> break])
       \/ inner' = [inner EXCEPT !.ended = TRUE] /\ UNCHANGED outcome
    /\ UNCHANGED res

BufferTick ==
    /\ res.phase = "collecting" /\ res.age \in 0 .. BufferTimeout - 1
    /\ res' = [res EXCEPT !.age = @ + 1]
    /\ UNCHANGED <<inner, outcome>>

BufferNext == CollectChunk \/ CollectEnd \/ CollectDeadline \/ Drain \/ PassThrough \/ BufferTick

BufferSpec == BufferInit /\ [][BufferNext]_bufferVars

-----------------------------------------------------------------------------
(* Properties.                                                             *)

\* What the consumer gets, with what is still queued, is the inner stream from
\* one point on, every unit once and in order, however it was cut into chunks.
SuffixIsWhole ==
    LET spans == [i \in DOMAIN outcome |-> outcome[i].span] \o res.queue IN
    /\ \A i \in 1 .. Len(spans) - 1 : spans[i][2] = spans[i + 1][1]
    /\ spans # <<>> => spans[Len(spans)][2] = inner.pos

\* That point is where the stream last broke while it was held back, the start
\* of the packet whose clock was reset or the chunk the source flagged, and
\* only the second is passed on as a discontinuity, once, with the first chunk.
StartsAtLastBreak ==
    LET spans == [i \in DOMAIN outcome |-> outcome[i].span] \o res.queue IN
    /\ spans # <<>> => Head(spans)[1] = inner.epoch
    /\ res.pending = (inner.broke /\ outcome = <<>>)
    /\ inner.broke /\ outcome # <<>> => outcome[1].disc

\* The buffer holds no more than its limit and one chunk, and while it goes on
\* collecting no more than the limit.
BufferIsBounded == res.phase = "collecting" => res.queued <= BufferMax /\ res.clock < BufferTarget

\* The decorator is transparent but for a clean start.
StartIsClean == SuffixIsWhole /\ StartsAtLastBreak /\ BufferIsBounded
=============================================================================
