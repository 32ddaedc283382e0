------------------------------ MODULE LiveStats ------------------------------
(* The rates a live source reports (live_stats.rs): a meter of timestamped *)
(* byte totals, a task that samples once a second, a final sample when the *)
(* source is shut down or dropped, and readers that never take a lock of   *)
(* the source.  A sampler and a reader both read the clock before they take*)
(* the meter's lock, so a sample may be older than the one that overtook it.*)
EXTENDS Integers, Sequences, SequencesExt

CONSTANTS
  StatsWindow,  \* WINDOW, in beats of the clock
  StatsSamples, \* the samples a meter keeps: six for a window of five
  StatsEnd,     \* bound: the last beat
  StatsBytes    \* bound: bytes received

ASSUME StatsAssumption ==
  /\ StatsWindow \in Nat \ {0} /\ StatsSamples = StatsWindow + 1
  /\ StatsEnd \in Nat /\ StatsBytes \in Nat

VARIABLES
  beat,      \* Instant::now
  received,  \* LiveMetrics::received
  meter,     \* RateMeter::samples
  ticker,    \* MetricsSampler: "on", "aborted" or "over"
  sampling,  \* clock readings of samples not yet in the meter
  reading,   \* the clock reading of a snapshot, or Unread
  shown,     \* the rate of the last snapshot
  quiet      \* history: samples taken since the last byte, by clock reading

statsVars == <<beat, received, meter, ticker, sampling, reading, shown, quiet>>

Unread == -1

\* RateMeter::new
NewMeter(now, total) == <<[at |-> now, total |-> total]>>

\* RateMeter::observe
Observe(q, now, total) ==
  LET s == [at |-> now, total |-> total]
      kept == IF total < Last(q).total THEN << >>
              ELSE IF now = Last(q).at THEN SubSeq(q, 1, Len(q) - 1)
              ELSE q
      all == Append(kept, s)
  IN IF now < Last(q).at THEN q
     ELSE SubSeq(all, IF Len(all) > StatsSamples THEN Len(all) - StatsSamples + 1 ELSE 1, Len(all))

\* Variant: the search starts at the oldest sample.
OldestBaseline(q, cutoff) == q[1]

\* The newest sample at or before the cutoff, else the oldest there is.
Baseline(q, cutoff) ==
  LET old == {i \in DOMAIN q : q[i].at <= cutoff}
  IN IF old = {} THEN q[1] ELSE q[CHOOSE i \in old : \A j \in old : j <= i]

\* RateMeter::rate
Rate(q, now, total) ==
  LET cutoff == now - StatsWindow
      base == Baseline(q, cutoff)
  IN IF \/ total < Last(q).total \/ now < Last(q).at
        \/ Last(q).at <= cutoff /\ total = Last(q).total
        \/ now <= base.at
     THEN 0 ELSE (total - base.total) \div (now - base.at)

-----------------------------------------------------------------------------
StatsInit ==
  /\ beat = 0 /\ received = 0 /\ meter = NewMeter(0, 0)
  /\ ticker = "on" /\ sampling = {} /\ reading = Unread
  /\ shown = 0 /\ quiet = {}

\* received_bytes
Receives ==
  /\ received < StatsBytes
  /\ received' = received + 1 /\ quiet' = {}
  /\ UNCHANGED <<beat, meter, ticker, sampling, reading, shown>>

\* The interval of spawn_sampler fires: sample reads the clock.  A tick that is
\* missed is skipped.
SamplerTicks ==
  /\ ticker = "on" /\ sampling = {}
  /\ sampling' = {beat}
  /\ UNCHANGED <<beat, received, meter, ticker, reading, shown, quiet>>

\* LiveMetrics::sample under the lock, with the clock reading t.
SampleTaken(t) ==
  /\ t \in sampling
  /\ sampling' = sampling \ {t}
  /\ meter' = Observe(meter, t, received)
  /\ quiet' = quiet \cup (IF t >= Last(meter).at THEN {t} ELSE {})
  /\ ticker' = IF ticker = "aborted" /\ sampling' = {} THEN "over" ELSE ticker
  /\ UNCHANGED <<beat, received, reading, shown>>

\* MetricsSampler::shutdown joins the task first; drop only aborts it, after a
\* sample of its own, while the task may be inside sample.
SamplerEnds ==
  /\ ticker = "on"
  /\ \/ sampling = {} \/ beat \notin sampling
  /\ ticker' = "aborted" /\ sampling' = sampling \cup {beat}
  /\ UNCHANGED <<beat, received, meter, reading, shown, quiet>>

\* snapshot reads the clock, and then the meter under its lock.
SnapshotBegins ==
  /\ reading = Unread
  /\ reading' = beat
  /\ UNCHANGED <<beat, received, meter, ticker, sampling, shown, quiet>>

SnapshotTaken ==
  /\ reading # Unread
  /\ shown' = Rate(meter, reading, received)
  /\ reading' = Unread
  /\ UNCHANGED <<beat, received, meter, ticker, sampling, quiet>>

Beat ==
  /\ beat < StatsEnd
  /\ beat' = beat + 1
  /\ UNCHANGED <<received, meter, ticker, sampling, reading, shown, quiet>>

StatsNext ==
  \/ Receives \/ SamplerTicks \/ SamplerEnds
  \/ SnapshotBegins \/ SnapshotTaken \/ Beat
  \/ \E t \in sampling : SampleTaken(t)

StatsSpec == StatsInit /\ [][StatsNext]_statsVars

-----------------------------------------------------------------------------
(* Properties.                                                             *)

\* The meter is a short, strictly ordered history although samples overtake
\* each other.
MeterIsOrdered ==
  /\ Len(meter) \in 1 .. StatsSamples
  /\ \A i, j \in DOMAIN meter : i < j => meter[i].at < meter[j].at /\ meter[i].total <= meter[j].total
  /\ Last(meter).total <= received

\* A source that went quiet stops reporting a rate: once a sample taken after
\* the last byte is a window old, every snapshot says zero.
IdleIsZero ==
  SnapshotTaken /\ (\E t \in quiet : t <= reading - StatsWindow) => shown' = 0

\* Rates of a live source (RateMeter, MetricsSampler): samples stay ordered
\* whoever overtakes whom, and an idle source shows zero.
StatsAreHonest == []MeterIsOrdered /\ [][IdleIsZero]_statsVars
=============================================================================
