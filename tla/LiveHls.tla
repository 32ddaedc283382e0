------------------------------- MODULE LiveHls -------------------------------
(***************************************************************************)
(* Live HLS (hls.rs, hls_audio.rs, await_hls_playlist of http.rs): the     *)
(* packager that cuts a transport stream into segments and keeps a sliding *)
(* window of them, the worker that feeds it (directly, through a check of  *)
(* every packet, or through a child process that normalises the audio) and *)
(* starts a new generation when the source breaks, and a client waiting for*)
(* the playlist.                                                           *)
(*                                                                         *)
(* A packet is its effect: a table that changes the layout, a video access *)
(* point, a step of the clock forwards or backwards, and the discontinuity *)
(* indicator.  Whether a packet follows the one before it is recorded in   *)
(* "lost", which the code does not have.                                   *)
(***************************************************************************)
EXTENDS Integers, Sequences, FiniteSets, SequencesExt

CONSTANTS HlsModes,        \* of "native", "checked", "child"
          HlsWindow,       \* window
          HlsCeiling,      \* max_segment_bytes in packets
          HlsPrefix,       \* packets of table_prefix
          HlsTarget,       \* seg_duration in steps of the clock
          HlsStartup,      \* startup_segments
          RecoveryLimit,   \* invalidations within a minute
          HlsSegments,     \* bound: segments of one behaviour
          HlsGenerations   \* bound: generations

ASSUME HlsAssumption ==
    /\ HlsWindow \in Nat \ {0} /\ HlsStartup \in 1 .. HlsWindow /\ HlsPrefix \in Nat
    /\ HlsCeiling \in Nat /\ HlsCeiling > HlsPrefix /\ HlsTarget \in Nat
    /\ RecoveryLimit \in Nat /\ HlsSegments \in Nat /\ HlsGenerations \in Nat \ {0}

VARIABLES
    hlsPkg,       \* HlsState
    hworker,   \* the worker: mode, where it stands, generation, RecoveryWindow, classifier
    late,      \* the deadline of the present start or recovery has passed
    childOut,  \* generation of the child process that still runs, 0 for none
    waiter     \* one client in await_hls_playlist

hlsVars == <<hlsPkg, hworker, late, childOut, waiter>>

Packet(kind, mark) == [kind |-> kind, mark |-> mark]
SourcePackets ==
    {Packet(k, FALSE) : k \in {"pat", "pmt", "key", "video", "tick", "back", "sdt", "other"}}
        \cup {Packet(k, TRUE) : k \in {"key", "video", "sdt", "other"}}

NoRun == [len |-> 0, key |-> FALSE, joins |-> FALSE, gen |-> 0]

HlsInit ==
    /\ \E mode \in HlsModes, psi \in {"selected", "legacy"}, titled \in BOOLEAN :
        /\ mode # "native" => psi = "selected"
        /\ hlsPkg = [gen |-> 0, status |-> "Starting", strict |-> mode # "native",
                  opening |-> mode # "native", genSegs |-> 0, psi |-> psi, titled |-> titled,
                  audio |-> "none", access |-> "none", mseq |-> 0, dseq |-> 0, segs |-> <<>>,
                  cur |-> NoRun, clock |-> -1, boundary |-> FALSE, pending |-> FALSE,
                  dedup |-> FALSE, awaiting |-> TRUE, lost |-> FALSE, notify |-> FALSE]
        /\ hworker = [mode |-> mode, at |-> IF mode = "native" THEN "run" ELSE "begin",
                      gen |-> 1, paired |-> FALSE, recent |-> 0, tables |-> "none"]
    /\ late = FALSE /\ childOut = 0 /\ waiter = [at |-> "idle", woken |-> FALSE]

Terminal(s) == s.status \in {"Stopped", "Failed", "Poisoned"}
Waiting(s) == s.status \in {"Starting", "Recovering"}

-----------------------------------------------------------------------------
(* Cutting segments.  These operators take and return the packager's state.*)

\* discard_incomplete_run.
DiscardRun(s) ==
    [s EXCEPT !.cur = NoRun, !.clock = -1, !.boundary = FALSE, !.pending = TRUE,
              !.dedup = FALSE, !.awaiting = TRUE, !.lost = @ \/ s.cur.len > 0]

\* reset_partial.
ResetPartial(s, dedup) ==
    [s EXCEPT !.opening = FALSE, !.cur = NoRun, !.clock = -1, !.boundary = FALSE,
              !.pending = TRUE, !.dedup = dedup, !.access = "none", !.audio = "none",
              !.awaiting = TRUE, !.lost = TRUE]

\* observe_clock with SelectedPcrClock::observe: "back" resets a running clock.
ClockResets(s, p) == p.kind = "back" /\ s.clock >= 0
Clocked(s, p) ==
    IF p.kind \notin {"tick", "back"} THEN s
    ELSE [s EXCEPT !.boundary = TRUE,
                   !.clock = IF @ < 0 THEN 0 ELSE IF @ < HlsTarget THEN @ + 1 ELSE @]
Rebased(s) == [s EXCEPT !.clock = IF s.boundary THEN 0 ELSE -1]
TargetReached(s) == s.clock >= HlsTarget

\* VideoAccessPointState::observe: a new PAT forgets the PMT.
Observed(s, p) ==
    [s EXCEPT !.access = CASE p.kind = "pat" -> "pat"
                           [] p.kind = "pmt" /\ @ # "none" -> "both"
                           [] OTHER -> @]
IsAccessPoint(s, p) == p.kind = "key" /\ s.access = "both"

\* A run that starts with this packet.
Opens(s, key) ==
    [s EXCEPT !.cur = [len |-> 1, key |-> key, joins |-> ~s.lost, gen |-> s.gen],
              !.lost = FALSE, !.awaiting = FALSE]

\* Variant: a discontinuity that leaves the window is not counted.
EvictUncounted(s) ==
    LET n == Len(s.segs) + 1 - HlsWindow IN
    IF n <= 0 THEN s
    ELSE [s EXCEPT !.segs = SubSeq(@, n + 1, Len(@)), !.mseq = @ + n]

\* Room is made before the segment is pushed.
Evict(s) ==
    LET n == Len(s.segs) + 1 - HlsWindow
        gone == SubSeq(s.segs, 1, n)
    IN  IF n <= 0 THEN s
        ELSE [s EXCEPT !.segs = SubSeq(@, n + 1, Len(@)), !.mseq = @ + n,
                       !.dseq = @ + Len(SelectSeq(gone, LAMBDA g : g.disc))]

Discs(segs) == Len(SelectSeq(segs, LAMBDA g : g.disc))

\* emit; num and dnum are what a client knows the segment by from now on.
Emit(s) ==
    LET e == Evict(s)
        seg == [key |-> s.cur.key, joins |-> s.cur.joins, gen |-> s.cur.gen, disc |-> s.pending,
                num |-> s.mseq + Len(s.segs),
                dnum |-> s.dseq + Discs(s.segs) + IF s.pending THEN 1 ELSE 0]
        segs == Append(e.segs, seg)
        count == IF s.strict THEN s.genSegs + 1 ELSE Len(segs)
        ready == s.status # "Ready" /\ count >= HlsStartup
    IN  [e EXCEPT !.segs = segs, !.pending = FALSE, !.cur = NoRun,
                  !.genSegs = IF @ < HlsStartup THEN @ + 1 ELSE @,
                  !.status = IF ready THEN "Ready" ELSE @, !.notify = @ \/ ready]

\* A packet into a run below the ceiling.
Scan(s0, p) ==
    LET s == Observed(s0, p)
        key == IsAccessPoint(s, p)
        dup == p.mark /\ s.dedup
        seen == [s EXCEPT !.dedup = @ /\ ~dup]
        skipped == [seen EXCEPT !.cur = NoRun, !.lost = TRUE]
        c == Clocked(s, p)
    IN  CASE p.mark /\ ~dup ->
                [DiscardRun(s) EXCEPT !.access = "none", !.lost = TRUE]
          [] s.titled /\ p.kind = "sdt" -> seen
          [] s.awaiting /\ ~key -> skipped
          [] s.awaiting /\ key ->
                Clocked([Opens(s, TRUE) EXCEPT !.opening = FALSE, !.dedup = FALSE], p)
          [] ~s.awaiting /\ ClockResets(s, p) ->
                [DiscardRun(s) EXCEPT !.access = "none", !.audio = "none", !.lost = TRUE]
          [] ~s.awaiting /\ ~ClockResets(s, p) /\ TargetReached(c) /\ key ->
                Rebased(Opens(Emit([c EXCEPT !.dedup = @ /\ ~dup]), TRUE))
          [] OTHER -> [c EXCEPT !.cur.len = @ + 1, !.dedup = @ /\ ~dup]

\* The packet after a run at the ceiling.  The run is emitted once it is long
\* enough, and its successor begins with the cached tables.
ScanLookahead(s0, p) ==
    LET s == [Observed(s0, p) EXCEPT !.dedup = @ /\ ~p.mark]
        key == IsAccessPoint(s, p)
        c == Clocked(s, p)
        d == DiscardRun(c)
    IN  CASE p.mark /\ ~s0.dedup ->
                [DiscardRun(s) EXCEPT !.access = "none", !.lost = TRUE]
          [] ClockResets(s, p) ->
                [DiscardRun(s) EXCEPT !.access = "none", !.audio = "none", !.lost = TRUE]
          [] s.titled /\ p.kind = "sdt" -> c
          [] TargetReached(c) /\ s.access = "both" -> Rebased(Opens(Emit(c), key))
          [] TargetReached(c) /\ s.access # "both" ->
                [Emit(c) EXCEPT !.status = "Poisoned"]          \* expect
          [] ~TargetReached(c) /\ key -> Clocked(Opens(d, TRUE), p)
          [] OTHER -> [d EXCEPT !.lost = TRUE]

FeedPacket(s, p) ==
    IF ~s.awaiting /\ HlsPrefix + s.cur.len = HlsCeiling THEN ScanLookahead(s, p) ELSE Scan(s, p)

\* LiveAudioSelection::observe: what it knows of the tables, and whether a
\* selection it had made is void.
AudioKnows(s, p) ==
    CASE s.psi = "legacy" -> s.audio
      [] p.kind = "pat" -> "pat"
      [] p.kind = "pmt" /\ s.audio # "none" -> "both"
      [] OTHER -> s.audio
AudioChanges(s, p) ==
    s.psi = "selected" /\ ((p.kind = "pat" /\ s.audio = "both") \/ (p.kind = "pmt" /\ s.audio # "none"))

\* A selection that changed discards the run; the tables it knows are observed again.
Reselected(s, p) ==
    LET knows == [s EXCEPT !.audio = AudioKnows(s, p)] IN
    IF ~AudioChanges(s, p) THEN knows
    ELSE [DiscardRun(knows) EXCEPT !.access = knows.audio, !.pending = s.pending \/ ~s.awaiting]

\* expire.
Expire(s) ==
    IF s.strict /\ Waiting(s) /\ late THEN [s EXCEPT !.status = "Failed", !.notify = TRUE] ELSE s

\* feed_locked.
Feed(s0, p0) ==
    LET s == Expire(s0)
        p == [p0 EXCEPT !.mark = @ /\ ~(s.strict /\ s.opening)]
        r == Reselected(s, p)
    IN  CASE Terminal(s) -> s
          [] ~Terminal(s) /\ p.mark /\ ~s.dedup ->
                [DiscardRun(s) EXCEPT !.audio = "none", !.access = "none", !.lost = TRUE]
          [] ~Terminal(s) /\ ~(p.mark /\ ~s.dedup) /\ p.kind = "other" /\ r.audio = "both" ->
                [r EXCEPT !.dedup = @ /\ ~p.mark]                \* a removed audio PID
          [] OTHER -> FeedPacket(r, p)

FeedGeneration(s, g, p) == IF g # s.gen THEN s ELSE Feed(s, p)

\* begin_generation.
BeginGeneration(s, g, recovering) ==
    IF Terminal(s) \/ g <= s.gen THEN s
    ELSE [ResetPartial(s, FALSE) EXCEPT
            !.gen = g, !.strict = TRUE, !.genSegs = 0, !.opening = TRUE, !.pending = recovering,
            !.status = IF recovering THEN "Recovering" ELSE "Starting", !.notify = TRUE]

FailGeneration(s, g) ==
    IF g # s.gen \/ Terminal(s) THEN s
    ELSE [ResetPartial(s, FALSE) EXCEPT !.status = "Failed", !.notify = TRUE]

StopPackager(s) ==
    IF s.status = "Poisoned" THEN s
    ELSE [ResetPartial(s, FALSE) EXCEPT !.status = "Stopped", !.notify = TRUE]

-----------------------------------------------------------------------------
(* Steps.  notify_waiters wakes the clients that are registered.           *)

Packages(s) ==
    /\ hlsPkg' = [s EXCEPT !.notify = FALSE]
    /\ waiter' = [waiter EXCEPT !.woken = @ \/ (s.notify /\ waiter.at \in {"armed", "waiting"})]

MoreSegments == hlsPkg.mseq + Len(hlsPkg.segs) < HlsSegments

\* run_native.
NativeEvent ==
    /\ hworker.mode = "native" /\ hworker.at = "run" /\ hlsPkg.status # "Poisoned"
    /\ \/ MoreSegments /\ \E p \in SourcePackets : Packages(Feed(hlsPkg, p))
       \/ Packages(ResetPartial(hlsPkg, TRUE))         \* StreamEvent::Discontinuity
       \/ Packages(ResetPartial(hlsPkg, FALSE))        \* Lagged
    /\ UNCHANGED <<hworker, late, childOut>>

\* Cancelled, the source closed, or the worker's own end: stop.
WorkerStops ==
    /\ hworker.at \in {"run", "classify"} /\ hlsPkg.status # "Poisoned"
    /\ hworker' = [hworker EXCEPT !.at = "done"]
    /\ Packages(StopPackager(hlsPkg))
    /\ childOut' = 0 /\ UNCHANGED late

\* spawn_worker and the head of EnabledWorker::run.
WorkerBegins ==
    /\ hworker.at = "begin"
    /\ hworker' = [hworker EXCEPT !.at = "classify"]
    /\ Packages(BeginGeneration(hlsPkg, hworker.gen, FALSE))
    /\ UNCHANGED <<late, childOut>>

\* RecoveryWindow::invalidate, where it does something.
RecoveryAllowed == hworker.recent < RecoveryLimit
Recovering(reason) ==
    [hworker EXCEPT !.gen = @ + 1, !.recent = @ + 1, !.tables = "none", !.paired = reason = "source",
                    !.at = IF childOut = 0 THEN "classify" ELSE "reap"]

\* EnabledWorker::invalidate.  The child, if any, is told to stop only after
\* the fence, and goes on writing until it is reaped.
Invalidate(reason) ==
    \/ /\ ~RecoveryAllowed
       /\ hworker' = [hworker EXCEPT !.at = "done"]
       /\ Packages(FailGeneration(hlsPkg, hworker.gen))
       /\ UNCHANGED <<childOut, late>>
    \/ /\ RecoveryAllowed /\ hworker.gen < HlsGenerations
       /\ hworker' = Recovering(reason)
       /\ LET s == Expire(hlsPkg) IN
            /\ late' = (late /\ s.status # "Ready")
            /\ Packages(BeginGeneration(s, hworker.gen + 1, TRUE))
       /\ UNCHANGED childOut

SourceBreaks ==
    /\ hworker.at \in {"classify", "run"} /\ hworker.mode # "native"
    /\ \E reason \in {"source", "lag"} : Invalidate(reason)

\* A marker in band, unless it is the one the source announced.
MarkerBreaks ==
    /\ hworker.at \in {"classify", "run"} /\ hworker.mode # "native" /\ ~hworker.paired
    /\ Invalidate("transport")

\* Other tables while a layout is running.
LayoutBreaks ==
    /\ hworker.at = "run" /\ hworker.mode # "native"
    /\ Invalidate("layout")

\* Classifier::observe: fresh tables, then a video access point.
Classify ==
    /\ hworker.at = "classify"
    /\ \/ /\ hworker.tables = "none"
          /\ hworker' = [hworker EXCEPT !.tables = "both"]
          /\ UNCHANGED <<hlsPkg, childOut, waiter>>
       \/ /\ hworker.tables = "both"
          /\ hworker' = [hworker EXCEPT !.at = "run", !.paired = FALSE]
          /\ IF hworker.mode = "child"
             THEN childOut' = hworker.gen /\ UNCHANGED <<hlsPkg, waiter>>
             ELSE /\ UNCHANGED childOut
                  /\ LET f(s, k) == FeedGeneration(s, hworker.gen, Packet(k, FALSE))
                     IN  Packages(f(f(f(hlsPkg, "pat"), "pmt"), "key"))
    /\ UNCHANGED late

\* produce without a child.
Produce ==
    /\ hworker.at = "run" /\ hworker.mode = "checked" /\ MoreSegments
    /\ \E k \in {"key", "video", "tick", "back", "sdt", "other"} :
        Packages(FeedGeneration(hlsPkg, hworker.gen, Packet(k, FALSE)))
    /\ UNCHANGED <<hworker, late, childOut>>

\* The pump of a child's output, which may be of a generation that is over.
ChildWrites ==
    /\ childOut # 0 /\ MoreSegments
    /\ \E p \in {Packet(k, FALSE) : k \in {"pat", "pmt", "key", "video", "tick"}} \cup {Packet("key", TRUE)} :
        Packages(FeedGeneration(hlsPkg, childOut, p))
    /\ UNCHANGED <<hworker, late, childOut>>

\* The child is reaped and the next generation starts.
ChildReaped ==
    /\ hworker.at = "reap" \/ (hworker.at = "done" /\ childOut # 0)
    /\ childOut' = 0
    /\ \/ /\ hworker' = [hworker EXCEPT !.at = IF @ = "reap" THEN "classify" ELSE "done"]
          /\ UNCHANGED <<hlsPkg, waiter>>
       \/ /\ hworker.at = "reap" /\ hworker' = [hworker EXCEPT !.at = "done"]
          /\ Packages(FailGeneration(hlsPkg, hworker.gen))
    /\ UNCHANGED late

\* Unsupported input, an exhausted budget, the child's own end or the deadline.
WorkerFails ==
    /\ hworker.at \in {"classify", "run"} /\ hworker.mode # "native"
    /\ hworker' = [hworker EXCEPT !.at = "done"]
    /\ Packages(FailGeneration(hlsPkg, hworker.gen))
    /\ childOut' \in {0, childOut} /\ UNCHANGED late

MinutePasses ==
    /\ hworker.recent > 0
    /\ hworker' = [hworker EXCEPT !.recent = @ - 1]
    /\ UNCHANGED <<hlsPkg, late, childOut, waiter>>

DeadlinePasses ==
    /\ ~late /\ late' = TRUE /\ hworker.mode # "native"
    /\ UNCHANGED <<hlsPkg, hworker, childOut, waiter>>

-----------------------------------------------------------------------------
(* What clients get.                                                       *)

\* render_playlist: the number a segment is listed under is its position.
Rendered(s) == [i \in DOMAIN s.segs |-> [num |-> s.mseq + i - 1, disc |-> s.segs[i].disc]]

\* retained_segment.
SegmentAt(s, n) ==
    {s.segs[i] : i \in {j \in DOMAIN s.segs : n >= s.mseq /\ j = n - s.mseq + 1}}

(* await_hls_playlist and wait_available.                                  *)

Asks(s, at) ==
    /\ hlsPkg' = [s EXCEPT !.notify = FALSE]
    /\ waiter' = [at |-> at, woken |-> FALSE]
    /\ UNCHANGED <<hworker, late, childOut>>

\* playlist_snapshot.
PlaylistSnapshot ==
    /\ waiter.at \in {"idle", "again"} /\ hlsPkg.status # "Poisoned"
    /\ LET s == Expire(hlsPkg) IN Asks(s, IF Waiting(s) THEN "armed" ELSE "idle")

\* Registered first, then the status is read.
WaitChecks ==
    /\ waiter.at = "armed" /\ hlsPkg.status # "Poisoned"
    /\ LET s == Expire(hlsPkg) IN
        IF Waiting(s)
        THEN /\ hlsPkg' = [s EXCEPT !.notify = FALSE]
             /\ waiter' = [waiter EXCEPT !.at = "waiting"]
             /\ UNCHANGED <<hworker, late, childOut>>
        ELSE Asks(s, IF s.status = "Ready" THEN "again" ELSE "idle")

WaitWoken == waiter.at = "waiting" /\ waiter.woken /\ Asks(hlsPkg, "armed")

WaitTimesOut ==
    /\ waiter.at = "waiting" /\ hlsPkg.status # "Poisoned"
    /\ LET s == Expire(hlsPkg) IN Asks(s, IF s.status = "Ready" THEN "again" ELSE "idle")

HlsNext ==
    \/ NativeEvent \/ WorkerStops \/ WorkerBegins
    \/ SourceBreaks \/ MarkerBreaks \/ LayoutBreaks
    \/ Classify \/ Produce \/ ChildWrites \/ ChildReaped \/ WorkerFails
    \/ MinutePasses \/ DeadlinePasses
    \/ PlaylistSnapshot \/ WaitChecks \/ WaitWoken \/ WaitTimesOut

HlsSpec == HlsInit /\ [][HlsNext]_hlsVars

-----------------------------------------------------------------------------
(* Properties.                                                             *)

\* A segment keeps the number and the discontinuity number it was published
\* with for as long as it is in the playlist.
NumbersAreStable ==
    \A i \in DOMAIN hlsPkg.segs :
        LET seg == hlsPkg.segs[i] IN
        /\ Rendered(hlsPkg)[i].num = seg.num /\ SegmentAt(hlsPkg, seg.num) = {seg}
        /\ seg.dnum = hlsPkg.dseq + Cardinality({j \in 1 .. i : Rendered(hlsPkg)[j].disc})

\* What a client plays back to back belongs together: a segment that does not
\* continue its predecessor, packet for packet and in the same generation, is
\* tagged and starts at an access point.
GapsAreTagged ==
    \A i \in 2 .. Len(hlsPkg.segs) :
        LET prev == hlsPkg.segs[i - 1]
            seg == hlsPkg.segs[i]
        IN  /\ (~seg.joins \/ seg.gen # prev.gen) => seg.disc
            /\ seg.disc => seg.key

\* Nothing of a retired generation gets into the run, and readiness after a
\* recovery rests on segments of the present generation.
GenerationsAreFenced ==
    /\ hlsPkg.cur.len > 0 => hlsPkg.cur.gen = hlsPkg.gen
    /\ hlsPkg.strict /\ hlsPkg.status = "Ready" =>
        Cardinality({i \in DOMAIN hlsPkg.segs : hlsPkg.segs[i].gen = hlsPkg.gen}) >= HlsStartup

\* The window and the run stay within their configured sizes.
MemoryIsBounded ==
    /\ Len(hlsPkg.segs) <= HlsWindow
    /\ ~hlsPkg.awaiting => HlsPrefix + hlsPkg.cur.len <= HlsCeiling

\* No client sleeps through the change it waits for.
WaitersAreWoken ==
    waiter.at = "waiting" /\ ~waiter.woken => Waiting(hlsPkg) \/ hlsPkg.status = "Poisoned"

\* The playlist a client follows is coherent through gaps, evictions,
\* recoveries and a late child process.
PlaylistIsCoherent ==
    NumbersAreStable /\ GapsAreTagged /\ GenerationsAreFenced /\ MemoryIsBounded /\ WaitersAreWoken

\* "an accumulated run past the ceiling has cached PAT/PMT state", and "an
\* observed video access point has PAT/PMT state" (hls.rs): the packager never
\* panics on a packet, which would poison its lock for every later request.
RunHasTables == hlsPkg.status # "Poisoned"
=============================================================================
