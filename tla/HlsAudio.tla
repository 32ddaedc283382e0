------------------------------ MODULE HlsAudio ------------------------------
(***************************************************************************)
(* The audio of an HLS stream (hls_audio), in two parts that share no state:*)
(* the child process that normalises it, and the probe that decides whether*)
(* the audio may be given to one.                                          *)
(***************************************************************************)
EXTENDS Integers, Sequences, FiniteSets, SequencesExt

(***************************************************************************)
(* The child process that normalises a stream's audio (hls_audio/process.rs):*)
(* admission to one of a few process slots, the supervisor with its three  *)
(* pumps, the stall clock, the validator of the child's output, the fence  *)
(* that ends publication, and the reaping of the process.  Also the        *)
(* preflight that probes the executable before any stream uses it.         *)
(*                                                                         *)
(* A packet of output is its kind.  The packager behind the output is      *)
(* whether it is ready and whether it has failed.                          *)
(***************************************************************************)

CONSTANTS Kids,          \* supervisors of run_output_command
          ChildSlots,    \* permits of ChildAdmission
          Stall,         \* STALL in ticks
          StartupTicks,  \* ticks until the start's deadline
          InputBudget,   \* INPUT_BYTES in packets
          InputQueue,    \* capacity of the mpsc channel
          ProbeSteps,    \* probes of a preflight
          ProbeTicks,    \* ticks a probe may take
          PreflightTicks \* ticks of all of them

ASSUME ChildAssumption ==
    /\ ChildSlots \in Nat /\ Stall \in Nat \ {0} /\ StartupTicks \in Nat
    /\ InputBudget \in Nat /\ InputQueue \in Nat \ {0}
    /\ ProbeSteps \in Nat \ {0} /\ ProbeTicks \in Nat \ {0} /\ PreflightTicks \in Nat \ {0}

VARIABLES
    kid,     \* a supervisor with its process and pumps
    feedIn,  \* per supervisor the producer's side: chunk, packet being sent, channel, charge
    probe    \* the preflight

childVars == <<kid, feedIn, probe>>

Pumps == {"in", "out", "err"}
NoClock == [pending |-> FALSE, accepted |-> FALSE, age |-> -1]
NoValidator == [pat |-> FALSE, pmt |-> FALSE, opened |-> FALSE]

\* Either one stream whose source delivers, or several silent ones.
ChildInit ==
    /\ \E fed \in BOOLEAN :
       kid = [k \in Kids |-> [at |-> IF fed /\ k # (CHOOSE one \in Kids : TRUE) THEN "done" ELSE "off",
                              fed |-> fed, proc |-> "none", slot |-> FALSE, pumps |-> {},
                              cancel |-> FALSE, result |-> "none", publishing |-> FALSE,
                              ready |-> FALSE, failed |-> FALSE, startup |-> StartupTicks,
                              armed |-> -1, notified |-> FALSE, clock |-> NoClock, item |-> "none",
                              val |-> NoValidator, batch |-> <<>>, out |-> <<>>, stray |-> FALSE,
                              unanswered |-> FALSE, quiet |-> 0, unjust |-> FALSE]]
    /\ feedIn = [k \in Kids |-> [chunk |-> 0, left |-> 0, held |-> 0, queue |-> 0, charged |-> 0]]
    /\ probe = [at |-> "idle", n |-> 0, proc |-> "none", pumps |-> {}, caller |-> TRUE,
                age |-> 0, total |-> 0, result |-> "none"]

SetKid(k, r) == kid' = [kid EXCEPT ![k] = r]
OnlyKid == UNCHANGED <<feedIn, probe>>
SlotsTaken == Cardinality({k \in Kids : kid[k].slot})

-----------------------------------------------------------------------------
(* StallClock.                                                             *)

ClockPending(c) == [c EXCEPT !.pending = TRUE, !.age = IF @ < 0 THEN 0 ELSE @]
ClockAccepted(c) == [c EXCEPT !.accepted = TRUE]
ClockDrained(c) == [c EXCEPT !.pending = FALSE, !.age = IF c.accepted THEN @ ELSE -1]

\* Variant: output does not retire what was accepted before it.
ClockOutputKeeps(c) == [c EXCEPT !.age = IF c.pending THEN 0 ELSE -1]

ClockOutput(c) == [c EXCEPT !.accepted = FALSE, !.age = IF c.pending THEN 0 ELSE -1]

-----------------------------------------------------------------------------
(* The supervisor.                                                         *)

\* run_output_command up to the loop.
ChildStarts(k) ==
    /\ kid[k].at = "off" /\ ~kid[k].cancel /\ probe.at = "done" /\ probe.result = "ok" /\ probe.caller
    /\ \/ /\ SlotsTaken < ChildSlots
          /\ SetKid(k, [kid[k] EXCEPT !.at = "run", !.slot = TRUE, !.proc = "alive", !.pumps = Pumps,
                                      !.publishing = TRUE, !.armed = kid[k].startup])
       \/ SetKid(k, [kid[k] EXCEPT !.at = "done", !.result = "err", !.failed = TRUE])  \* no slot, or spawn failed
    /\ OnlyKid

\* An iteration of the loop: registered for changes, then the deadline is read.
NextDeadline(r) ==
    IF ~r.ready THEN r.startup ELSE IF r.clock.age < 0 THEN -1 ELSE Stall - r.clock.age
SupervisorLoops(k) ==
    LET r == [kid[k] EXCEPT !.notified = FALSE]
        due == NextDeadline(r)
    IN  /\ r.at = "run" /\ (kid[k].notified \/ r.armed = 0)
        /\ IF r.failed \/ due = 0
           THEN SetKid(k, [r EXCEPT !.at = "ended", !.result = "err",
                                    !.unjust = r.ready /\ ~r.failed /\ "in" \in r.pumps /\ r.quiet < Stall])
           ELSE SetKid(k, [r EXCEPT !.armed = due])
        /\ OnlyKid

\* The other branches of the select.
SupervisorEnds(k) ==
    /\ kid[k].at = "run"
    /\ \/ kid[k].cancel /\ SetKid(k, [kid[k] EXCEPT !.at = "ended", !.result = "ok"])
       \/ /\ kid[k].proc = "exited"
          /\ SetKid(k, [kid[k] EXCEPT !.at = "ended", !.result = "err", !.proc = "reaped"])
       \/ kid[k].pumps # Pumps /\ SetKid(k, [kid[k] EXCEPT !.at = "ended", !.result = "err"])
    /\ OnlyKid

\* Publication ends under the lock that every publication holds; then the
\* packager fails, and the pumps are told to stop and aborted.
FenceOff(k) ==
    /\ kid[k].at = "ended"
    /\ SetKid(k, [kid[k] EXCEPT !.at = "reap", !.publishing = FALSE,
                                !.failed = @ \/ kid[k].result # "ok",
                                !.clock = NoClock, !.armed = -1, !.notified = FALSE, !.startup = 0,
                                !.unanswered = FALSE, !.quiet = 0, !.val = NoValidator, !.out = <<>>,
                                !.ready = FALSE])
    /\ OnlyKid

\* child.wait, with the kill after a second of grace.
ChildReaps(k) ==
    /\ kid[k].at = "reap"
    /\ \/ /\ kid[k].proc \in {"exited", "reaped"}
          /\ SetKid(k, [kid[k] EXCEPT !.proc = "reaped", !.at = "join"])
       \/ kid[k].proc = "alive" /\ SetKid(k, [kid[k] EXCEPT !.proc = "exited"])
    /\ OnlyKid

\* The pumps are joined, and only then the slot is free again.
Joins(k) ==
    /\ kid[k].at = "join" /\ kid[k].pumps = {}
    /\ SetKid(k, [kid[k] EXCEPT !.at = "done", !.slot = FALSE])
    /\ OnlyKid

Cancels(k) ==
    kid[k].at \in {"off", "run"} /\ ~kid[k].cancel /\ SetKid(k, [kid[k] EXCEPT !.cancel = TRUE]) /\ OnlyKid

\* The process ends by itself; external.
ChildExits(k) == kid[k].proc = "alive" /\ SetKid(k, [kid[k] EXCEPT !.proc = "exited"]) /\ OnlyKid

\* A pump returns an error, panics or, aborted, just ends.  What it held is dropped.
PumpLeaves(k, pump) ==
    /\ pump \in kid[k].pumps
    /\ SetKid(k, [kid[k] EXCEPT !.pumps = @ \ {pump},
                                !.item = IF pump = "in" THEN "none" ELSE @,
                                !.batch = IF pump = "out" THEN <<>> ELSE @])
    /\ feedIn' = IF pump # "in" THEN feedIn
                 ELSE [feedIn EXCEPT ![k].queue = 0,          \* the channel goes with its receiver
                        ![k].charged = @ - feedIn[k].queue - IF kid[k].item # "none" THEN 1 ELSE 0]
    /\ UNCHANGED probe

-----------------------------------------------------------------------------
(* Input: InputBudget, the producer and stdin_pump.                        *)

\* try_copy: a charge that does not fit fails the producer, it never waits.
Charge(k, n, r) ==
    \/ /\ feedIn[k].charged + n <= InputBudget
       /\ feedIn' = [feedIn EXCEPT ![k] = [r EXCEPT !.charged = @ + n]] /\ UNCHANGED kid
    \/ /\ feedIn[k].charged + n > InputBudget
       /\ SetKid(k, [kid[k] EXCEPT !.cancel = TRUE, !.failed = TRUE]) /\ UNCHANGED feedIn

SourceChunk(k) ==
    /\ kid[k].at = "run" /\ kid[k].fed /\ feedIn[k].chunk = 0 /\ feedIn[k].held = 0 /\ ~kid[k].cancel
    /\ \E n \in 1 .. 2 : Charge(k, n, [feedIn[k] EXCEPT !.chunk = n, !.left = n])
    /\ UNCHANGED probe

\* A packet is copied out of the chunk, whose charge goes with its last packet.
SourcePacket(k) ==
    /\ kid[k].at = "run" /\ feedIn[k].left > 0 /\ feedIn[k].held = 0 /\ ~kid[k].cancel
    /\ LET last == feedIn[k].left = 1
           f == [feedIn[k] EXCEPT !.left = @ - 1, !.held = 1, !.chunk = IF last THEN 0 ELSE @,
                                  !.charged = @ - IF last THEN feedIn[k].chunk ELSE 0]
       IN  IF f.charged < InputBudget
           THEN feedIn' = [feedIn EXCEPT ![k] = [f EXCEPT !.charged = @ + 1]] /\ UNCHANGED kid
           ELSE SetKid(k, [kid[k] EXCEPT !.cancel = TRUE, !.failed = TRUE]) /\ UNCHANGED feedIn
    /\ UNCHANGED probe

SourceSends(k) ==
    /\ feedIn[k].held = 1 /\ kid[k].at = "run" /\ "in" \in kid[k].pumps /\ feedIn[k].queue < InputQueue
    /\ feedIn' = [feedIn EXCEPT ![k].held = 0, ![k].queue = @ + 1]
    /\ UNCHANGED <<kid, probe>>

StdinTakes(k) ==
    /\ "in" \in kid[k].pumps /\ kid[k].at = "run" /\ kid[k].item = "none" /\ feedIn[k].queue > 0
    /\ feedIn' = [feedIn EXCEPT ![k].queue = @ - 1]
    /\ SetKid(k, [kid[k] EXCEPT !.item = "pending", !.clock = ClockPending(@), !.notified = TRUE,
                                !.quiet = IF kid[k].unanswered THEN @ ELSE 0])
    /\ UNCHANGED probe

\* A write and its record are one step under the clock's lock.
StdinWrites(k) ==
    /\ kid[k].item \in {"pending", "partly"} /\ kid[k].at = "run" /\ kid[k].proc = "alive"
    /\ \E item \in {"partly", "written"} :
        SetKid(k, [kid[k] EXCEPT !.item = item, !.clock = ClockAccepted(@), !.unanswered = TRUE])
    /\ OnlyKid

StdinDrained(k) ==
    /\ kid[k].item = "written"
    /\ SetKid(k, [kid[k] EXCEPT !.item = "none", !.clock = ClockDrained(@), !.notified = TRUE])
    /\ feedIn' = [feedIn EXCEPT ![k].charged = @ - 1]
    /\ UNCHANGED probe

-----------------------------------------------------------------------------
(* Output: OutputValidator and stdout_pump.                                *)

Validated(v, p) ==
    [v EXCEPT !.pat = @ \/ p = "pat", !.pmt = @ \/ p = "pmt",
              !.opened = @ \/ (p = "key" /\ v.pat /\ v.pmt)]
Rejected(v, p) == p = "bad" \/ (p = "pmt" /\ ~v.pat)
Accepted(v, p) ==
    IF ~Validated(v, p).opened THEN <<>>
    ELSE (IF v.opened THEN <<>> ELSE <<"pat", "pmt">>) \o (IF p = "sdt" THEN <<>> ELSE <<p>>)

\* A whole packet arrived: the fence is looked at and the packet is validated.
StdoutReads(k) ==
    /\ "out" \in kid[k].pumps /\ kid[k].fed /\ kid[k].batch = <<>> /\ kid[k].proc = "alive"
    /\ \E p \in {"pat", "pmt", "key", "sdt", "bad"} :
        LET v == kid[k].val IN
        IF ~kid[k].publishing \/ Rejected(v, p)
        THEN SetKid(k, [kid[k] EXCEPT !.pumps = @ \ {"out"}])
        ELSE SetKid(k, [kid[k] EXCEPT !.val = Validated(v, p), !.batch = <<Accepted(v, p)>>])
    /\ OnlyKid

\* The fence again, then the publication, under the lock.  The packager may
\* become ready by it.
StdoutPublishes(k) ==
    /\ "out" \in kid[k].pumps /\ kid[k].batch # <<>>
    /\ IF ~kid[k].publishing
       THEN SetKid(k, [kid[k] EXCEPT !.pumps = @ \ {"out"}, !.batch = <<>>])
       ELSE \E ready \in {kid[k].ready, kid[k].val.opened} :
            SetKid(k, [kid[k] EXCEPT
                !.batch = <<>>, !.ready = ready, !.notified = TRUE,
                !.out = IF Len(@) < 3 THEN @ \o Head(kid[k].batch) ELSE @,
                !.stray = @ \/ (kid[k].at \notin {"run", "ended"} /\ Head(kid[k].batch) # <<>>),
                !.clock = ClockOutput(@), !.unanswered = FALSE, !.quiet = 0])
    /\ OnlyKid

-----------------------------------------------------------------------------
(* preflight: one probe after the other, each with its own process.        *)

ProbeStarts ==
    /\ probe.at = "idle"
    /\ LET go == probe.caller /\ probe.total < PreflightTicks
           next == [probe EXCEPT !.at = "run", !.n = @ + 1, !.proc = "alive", !.pumps = Pumps, !.age = 0]
           end(why) == [probe EXCEPT !.at = "done", !.result = why]
       IN  \/ go /\ probe' \in {next, end("err")}                    \* spawn may fail
           \/ ~go /\ probe' = end(IF probe.caller THEN "timeout" ELSE "cancelled")
    /\ UNCHANGED <<kid, feedIn>>

\* The select of probe: cancelled, the deadline, an exit, a pump.
ProbeEnds ==
    /\ probe.at = "run"
    /\ \/ ~probe.caller /\ probe' = [probe EXCEPT !.at = "reap", !.result = "cancelled"]
       \/ /\ probe.age >= ProbeTicks \/ probe.total >= PreflightTicks
          /\ probe' = [probe EXCEPT !.at = "reap", !.result = "timeout"]
       \/ probe.proc = "exited" /\ probe' = [probe EXCEPT !.at = "reap", !.proc = "reaped", !.result = "err"]
       \/ probe.proc = "exited" /\ probe' = [probe EXCEPT !.proc = "reaped"]
       \/ \E p \in probe.pumps : probe' = [probe EXCEPT !.pumps = @ \ {p}]
       \/ \E p \in probe.pumps : probe' = [probe EXCEPT !.pumps = @ \ {p}, !.at = "reap", !.result = "err"]
       \/ probe.proc = "reaped" /\ probe.pumps = {} /\ probe' = [probe EXCEPT !.at = "reap", !.result = "ok"]
    /\ UNCHANGED <<kid, feedIn>>

\* preflight_prepared: the listings, each with the capabilities it must show, then the smoke test.
MoreProbes == probe.n < ProbeSteps

\* As for a stream's child; then the next probe or the verdict.
ProbeReaps ==
    /\ probe.at = "reap"
    /\ \/ probe.proc = "alive" /\ probe' = [probe EXCEPT !.proc = "exited"]
       \/ probe.proc = "exited" /\ probe' = [probe EXCEPT !.proc = "reaped"]
       \/ \E p \in probe.pumps : probe' = [probe EXCEPT !.pumps = @ \ {p}]
       \/ /\ probe.proc = "reaped" /\ probe.pumps = {}
          /\ probe' = IF probe.result = "ok" /\ MoreProbes THEN [probe EXCEPT !.at = "idle"]
                      ELSE [probe EXCEPT !.at = "done", !.age = 0, !.total = 0]
    /\ UNCHANGED <<kid, feedIn>>

\* The caller of preflight is dropped; the process may end by itself.
CallerDropped ==
    /\ probe.caller /\ probe.at # "done" /\ probe' = [probe EXCEPT !.caller = FALSE]
    /\ UNCHANGED <<kid, feedIn>>
ProbeExits == probe.proc = "alive" /\ probe' = [probe EXCEPT !.proc = "exited"] /\ UNCHANGED <<kid, feedIn>>

-----------------------------------------------------------------------------
Owed(r) == r.item # "none" \/ r.unanswered

ChildTick ==
    /\ kid' = [k \in Kids |->
                LET r == kid[k] IN
                IF r.at # "run" THEN r
                ELSE [r EXCEPT !.startup = IF @ > 0 THEN @ - 1 ELSE @, !.armed = IF @ > 0 THEN @ - 1 ELSE @,
                               !.clock.age = IF @ >= 0 /\ @ < Stall THEN @ + 1 ELSE @,
                               !.quiet = IF Owed(r) /\ @ < Stall THEN @ + 1 ELSE @]]
    /\ probe' = IF probe.at # "run" THEN probe
                ELSE [probe EXCEPT !.age = IF @ < ProbeTicks THEN @ + 1 ELSE @,
                                   !.total = IF @ < PreflightTicks THEN @ + 1 ELSE @]
    /\ UNCHANGED feedIn

KidStep(k) ==
    \/ ChildStarts(k) \/ SupervisorLoops(k) \/ SupervisorEnds(k) \/ FenceOff(k) \/ ChildReaps(k) \/ Joins(k)
    \/ Cancels(k) \/ ChildExits(k) \/ (\E pump \in Pumps : PumpLeaves(k, pump))
    \/ SourceChunk(k) \/ SourcePacket(k) \/ SourceSends(k)
    \/ StdinTakes(k) \/ StdinWrites(k) \/ StdinDrained(k) \/ StdoutReads(k) \/ StdoutPublishes(k)
ProbeStep == ProbeStarts \/ ProbeEnds \/ ProbeReaps \/ CallerDropped \/ ProbeExits

ChildNext == (\E k \in Kids : KidStep(k)) \/ ProbeStep \/ ChildTick

ChildSpec == ChildInit /\ [][ChildNext]_childVars

-----------------------------------------------------------------------------
(* Properties.                                                             *)

\* No process without a slot, never more of them than slots, and a slot is
\* free again only when its process is reaped and its pumps are gone.
ProcessesAreAdmitted ==
    /\ Cardinality({k \in Kids : kid[k].proc \in {"alive", "exited"}}) <= ChildSlots
    /\ \A k \in Kids : (kid[k].proc \in {"alive", "exited"} \/ kid[k].pumps # {}) => kid[k].slot
    /\ probe.at \in {"idle", "done"} => probe.proc \in {"none", "reaped"} /\ probe.pumps = {}

\* Nothing is published once a failure is being cleaned up, and by then the
\* packager knows of it; what is published opens with both tables.
OutputIsFenced ==
    \A k \in Kids :
        /\ ~kid[k].stray
        /\ kid[k].at \in {"reap", "join"} /\ kid[k].result # "ok" => kid[k].failed
        /\ kid[k].out # <<>> => SubSeq(kid[k].out, 1, 3) = <<"pat", "pmt", "key">>

\* The stall clock is exact: it runs from the moment the child owes output
\* for input it was given, an idle source never stalls, and the supervisor
\* never sleeps past the deadline.
StallIsExact ==
    \A k \in Kids :
        LET r == kid[k] IN
        /\ r.at = "run" /\ "in" \in r.pumps => r.clock.age = IF Owed(r) THEN r.quiet ELSE -1
        /\ r.at = "run" /\ "in" \in r.pumps /\ r.ready /\ Owed(r) /\ ~r.notified => r.armed \in 0 .. Stall - r.quiet
        /\ ~r.unjust

\* What is charged to the budget is what is retained.
ChargeIsExact ==
    \A k \in Kids :
        LET f == feedIn[k] IN
        /\ f.charged = f.chunk + f.held + f.queue + (IF kid[k].item # "none" THEN 1 ELSE 0)
        /\ f.charged <= InputBudget

\* A child process is contained for its whole life.
ChildIsContained ==
    ProcessesAreAdmitted /\ OutputIsFenced /\ StallIsExact /\ ChargeIsExact

-----------------------------------------------------------------------------
(***************************************************************************)
(* MpegAudioProbe of hls_audio.rs: the constant-space validator that must  *)
(* see two consecutive MPEG audio frame headers of one kind before a child *)
(* is admitted, and that checks every later frame.  The source muxes audio *)
(* frames into PES packets and those into transport packets; the probe     *)
(* parses PES header, optional fields, payload and frame headers byte by   *)
(* byte, keeping its place across both kinds of packet boundary.           *)
(*                                                                         *)
(* A byte is a token.  Only the last byte of a PES header and of a frame   *)
(* header carries what the probe decodes once the header is complete; the  *)
(* lengths 9 and 4 are PesHeader and FrameHeader.                          *)
(***************************************************************************)

CONSTANTS
  PesHeader,     \* 9: bytes of a fixed PES header
  FrameHeader,   \* 4: bytes of a frame header
  FrameSizes,    \* sizes of the frames the source may send
  FrameCount,    \* frames of the source
  PesSizes,      \* elementary bytes the source may put in one PES packet
  Optionals,     \* lengths of the optional PES fields
  MaxCut,        \* payload bytes of one transport packet
  MaxFaults      \* packets damaged, lost or malformed

ASSUME ProbeAssumption ==
  /\ {PesHeader, FrameHeader, FrameCount, MaxCut} \subseteq Nat \ {0}
  /\ \A s \in FrameSizes : s \in Nat /\ s >= FrameHeader
  /\ PesSizes \subseteq Nat \ {0} /\ Optionals \subseteq Nat /\ MaxFaults \in Nat

VARIABLES
  frames,   \* the source: sizes and kinds of its frames
  muxed,    \* the source: elementary bytes put into PES packets
  pes,      \* the source: the PES packet being sent
  mp,       \* the MpegAudioProbe
  verdict,  \* what its last observe returned
  refused,  \* history: bytes the probe must refuse were delivered
  intact,   \* history: no elementary byte was lost unnoticed
  faults    \* faults so far

probeVars == <<frames, muxed, pes, mp, verdict, refused, intact, faults>>

-----------------------------------------------------------------------------
(* The source.  A byte is plain data or stuffing; the byte that completes  *)
(* a header stands for all of it.                                          *)

Plain == [is |-> "data"]
Stuffing == [is |-> "ff"]
Malformed(b) == b.is = "pes" /\ b.len # 0 /\ b.len < 3 + b.opt

FrameBytes(f) ==
  [i \in 1 .. f.size |-> IF i = FrameHeader
                         THEN [is |-> "frame", size |-> f.size, kind |-> f.kind] ELSE Plain]
Elementary == FlattenSeq([i \in DOMAIN frames |-> FrameBytes(frames[i])])

PesStart(opt, len) ==
  [i \in 1 .. PesHeader |-> IF i = PesHeader THEN [is |-> "pes", opt |-> opt, len |-> len] ELSE Plain]
    \o [i \in 1 .. opt |-> Plain]

Idle == [rest |-> <<>>, fresh |-> FALSE, declared |-> FALSE, body |-> 0]

\* Elementary bytes the probe has been given, when none was lost
Delivered ==
  LET body == IF pes.body < Len(pes.rest) THEN pes.body ELSE Len(pes.rest)
      tail == SubSeq(pes.rest, Len(pes.rest) - body + 1, Len(pes.rest))
  IN muxed - Len(SelectSeq(tail, LAMBDA b : b # Stuffing))

\* What is left of the packet would be missed
Unfinished ==
  \/ Len(pes.rest) > pes.body
  \/ pes.declared /\ \E i \in DOMAIN pes.rest : pes.rest[i] # Stuffing

\* The next PES packet; an unfinished one before it was cut short.  A declared
\* length counts the last three header bytes, an open one is zero.
OpenPes(size, opt, declared, stuffed) ==
  LET payload == SubSeq(Elementary, muxed + 1, muxed + size)
      stuffing == IF stuffed THEN <<Stuffing>> ELSE <<>>
      cut == pes.rest # <<>>
  IN /\ muxed + size <= Len(Elementary) /\ (stuffed => declared)
     /\ ~(pes.fresh /\ cut) /\ (cut => faults < MaxFaults)
     /\ muxed' = muxed + size
     /\ pes' = [rest |-> PesStart(opt, IF declared THEN 3 + opt + size ELSE 0) \o payload \o stuffing,
                fresh |-> TRUE, declared |-> declared, body |-> size + Len(stuffing)]
     /\ refused' = (refused \/ Unfinished)
     /\ intact' = (intact /\ (Unfinished \/ Delivered = muxed))
     /\ faults' = IF cut THEN faults + 1 ELSE faults
     /\ UNCHANGED <<frames, mp, verdict>>

\* A PES packet whose length does not cover its own header
OpenMalformed(opt) ==
  /\ pes.rest = <<>> /\ faults < MaxFaults
  /\ pes' = [rest |-> PesStart(opt, 2 + opt), fresh |-> TRUE, declared |-> TRUE, body |-> 0]
  /\ faults' = faults + 1
  /\ UNCHANGED <<frames, muxed, mp, verdict, refused, intact>>

-----------------------------------------------------------------------------
(* The probe.                                                              *)

\* MpegAudioProbe::new
NewProbe == [used |-> 0, optional |-> 0, inPes |-> FALSE, left |-> -1, header |-> 0,
             frameLeft |-> 0, headers |-> 0, signature |-> "none", failed |-> FALSE]

\* A payload unit starts: everything the last one announced must have come.
Starts(q) ==
  IF q.inPes /\ (q.used < PesHeader \/ q.optional # 0 \/ q.left > 0)
  THEN [q EXCEPT !.failed = TRUE]
  ELSE [q EXCEPT !.inPes = TRUE, !.used = 0, !.optional = 0, !.left = -1]

\* A byte of the fixed PES header
TakesPes(q, b) ==
  CASE q.used + 1 < PesHeader -> [q EXCEPT !.used = @ + 1]
    [] b.is # "pes" \/ Malformed(b) -> [q EXCEPT !.used = @ + 1, !.failed = TRUE]
    [] OTHER -> [q EXCEPT !.used = @ + 1, !.optional = b.opt,
                          !.left = IF b.len = 0 THEN -1 ELSE b.len - (3 + b.opt)]

\* Variant: the frame's own header is not counted into its size.
FrameRest(b) == b.size

\* What is left of a frame whose header is complete
FrameLeft(b) == b.size - FrameHeader

\* A byte of a frame, or of the header where the last frame's size put it
TakesFrame(q, b) ==
  CASE q.frameLeft # 0 -> [q EXCEPT !.frameLeft = @ - 1]
    [] q.header + 1 < FrameHeader -> [q EXCEPT !.header = @ + 1]
    [] b.is # "frame" \/ q.signature \notin {"none", b.kind} -> [q EXCEPT !.header = @ + 1, !.failed = TRUE]
    [] OTHER -> [q EXCEPT !.signature = b.kind, !.headers = IF @ < 2 THEN @ + 1 ELSE 2,
                          !.header = 0, !.frameLeft = FrameLeft(b)]

TakesByte(q, b) ==
  CASE q.failed -> q
    [] q.used < PesHeader -> TakesPes(q, b)
    [] q.optional # 0 -> [q EXCEPT !.optional = @ - 1]
    [] q.left = 0 -> [q EXCEPT !.failed = (b # Stuffing)]
    [] OTHER -> TakesFrame([q EXCEPT !.left = IF @ > 0 THEN @ - 1 ELSE @], b)

\* observe of a packet of the selected PID with a payload; failed is latched.
ObservedBy(q, start, bytes) ==
  LET s == IF start THEN Starts(q) ELSE q
  IN IF q.failed \/ ~s.inPes THEN q ELSE FoldLeft(TakesByte, s, bytes)

Verdict(q) == ~q.failed /\ q.inPes /\ q.headers >= 2

Send(n) ==
  LET bytes == SubSeq(pes.rest, 1, n)
  IN /\ n <= Len(pes.rest)
     /\ mp' = ObservedBy(mp, pes.fresh, bytes)
     /\ verdict' = Verdict(mp')
     /\ pes' = [pes EXCEPT !.rest = SubSeq(pes.rest, n + 1, Len(pes.rest)), !.fresh = FALSE]
     /\ refused' = (refused \/ \E i \in 1 .. n : Malformed(bytes[i]))
     /\ UNCHANGED <<frames, muxed, intact, faults>>

\* validate_packet: a packet marked as damaged is skipped, its bytes are lost.
SendDamaged(n) ==
  /\ n <= Len(pes.rest) /\ faults < MaxFaults
  /\ pes' = [pes EXCEPT !.rest = SubSeq(pes.rest, n + 1, Len(pes.rest)), !.fresh = FALSE]
  /\ verdict' = (~mp.failed /\ mp.headers >= 2)
  /\ intact' = FALSE /\ faults' = faults + 1
  /\ UNCHANGED <<frames, muxed, mp, refused>>

\* validate_packet: no sync byte, a scrambled packet or an impossible adaptation field
SendInvalid ==
  /\ faults < MaxFaults
  /\ mp' = [mp EXCEPT !.failed = TRUE] /\ verdict' = FALSE
  /\ refused' = TRUE /\ faults' = faults + 1
  /\ UNCHANGED <<frames, muxed, pes, intact>>

ProbeInit ==
  /\ frames \in [1 .. FrameCount -> [size : FrameSizes, kind : {"l2", "l3"}]]
  /\ muxed = 0 /\ pes = Idle
  /\ mp = NewProbe /\ verdict = FALSE
  /\ refused = FALSE /\ intact = TRUE /\ faults = 0

ProbeNext ==
  \/ \E size \in PesSizes, opt \in Optionals, declared, stuffed \in BOOLEAN :
       OpenPes(size, opt, declared, stuffed)
  \/ \E opt \in Optionals : OpenMalformed(opt)
  \/ \E n \in 1 .. MaxCut : Send(n) \/ SendDamaged(n)
  \/ SendInvalid

ProbeSpec == ProbeInit /\ [][ProbeNext]_probeVars

-----------------------------------------------------------------------------
(* mpeg_frame_size on the real tables.                                     *)

MpegVersions == {0, 2, 3}
Layers == {1, 2}
BitrateTable(version, layer) ==
  CASE version # 3 -> <<8, 16, 24, 32, 40, 48, 56, 64, 80, 96, 112, 128, 144, 160>>
    [] layer = 2 -> <<32, 48, 56, 64, 80, 96, 112, 128, 160, 192, 224, 256, 320, 384>>
    [] OTHER -> <<32, 40, 48, 56, 64, 80, 96, 112, 128, 160, 192, 224, 256, 320>>
SampleRate(version, rate) ==
  <<44100, 48000, 32000>>[rate + 1] \div (CASE version = 3 -> 1 [] version = 2 -> 2 [] OTHER -> 4)
FrameSize(version, layer, bitrate, rate, padding) ==
  (((IF layer = 1 /\ version # 3 THEN 72000 ELSE 144000) * BitrateTable(version, layer)[bitrate])
    \div SampleRate(version, rate)) + padding

\* Every header the probe accepts announces a frame longer than the header
\* (frame_left never underflows) that plays for its samples: 1152, or 576 in
\* layer III of the low sampling rates, to within one byte.
SizesAreExact ==
  \A v \in MpegVersions, l \in Layers, b \in 1 .. 14, r \in 0 .. 2, p \in 0 .. 1 :
    LET size == FrameSize(v, l, b, r, p)
        samples == IF l = 1 /\ v # 3 THEN 576 ELSE 1152
        bits == samples * BitrateTable(v, l)[b] * 1000
    IN /\ size > 4
       /\ 8 * (size - p) * SampleRate(v, r) <= bits
       /\ bits < 8 * (size - p + 1) * SampleRate(v, r)

-----------------------------------------------------------------------------
(* Properties.                                                             *)

\* Frames whose header is complete among the delivered bytes
StartOf(i) == Len(FlattenSeq([j \in 1 .. i - 1 |-> FrameBytes(frames[j])]))
HeadersSeen == {i \in DOMAIN frames : StartOf(i) + FrameHeader <= Delivered}

\* However the frames are cut into PES and transport packets, the probe counts
\* their headers exactly, fails as soon as a frame of another kind or refused
\* bytes arrive and never otherwise, and lets a child start only after two
\* headers; frame sizes follow the standard's tables.
ProbeIsExact ==
  /\ SizesAreExact
  /\ intact /\ ~pes.fresh =>
       /\ mp.failed <=> (refused \/ \E i \in HeadersSeen : frames[i].kind # frames[1].kind)
       /\ ~mp.failed => mp.headers = (IF {1, 2} \subseteq HeadersSeen THEN 2
                                      ELSE IF 1 \in HeadersSeen THEN 1 ELSE 0)
       /\ verdict => {1, 2} \subseteq HeadersSeen
=============================================================================
