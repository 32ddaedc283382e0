-------------------------------- MODULE TsMedia --------------------------------
(***************************************************************************)
(* The transport stream stages of ace-media: TsResync, which finds packets *)
(* in bytes, KeyframeGate, which lets a client start at a video access     *)
(* point, and LiveAudioSelection, which keeps one audio track and rewrites *)
(* the program map accordingly.  A behaviour exercises one of them.        *)
(*                                                                         *)
(* To TsResync a byte is the sync byte or another one; to the others a     *)
(* packet is its kind.                                                     *)
(***************************************************************************)
EXTENDS Integers, Sequences, FiniteSets, SequencesExt

CONSTANTS PacketBytes,   \* TS_PACKET_LEN
          StreamBytes,   \* bound: bytes given to TsResync
          ScanBudget,    \* max_scan_packets
          Versions,      \* 32, the versions of a table
          MaxPackets     \* bound: packets given to the other stages

ASSUME MediaAssumption ==
    /\ PacketBytes \in Nat \ {0} /\ StreamBytes \in Nat /\ ScanBudget \in Nat \ {0}
    /\ Versions \in Nat \ {0} /\ MaxPackets \in Nat

VARIABLES
    stage,   \* the stage of this behaviour
    sync,    \* TsResync with what it was given
    gate,    \* KeyframeGate with what it forwarded since the client last (re)started
    sel      \* LiveAudioSelection with what a receiver of its output knows

mediaVars == <<stage, sync, gate, sel>>

FreshSync == [buf |-> <<>>, base |-> 0, locked |-> FALSE, acquired |-> FALSE, out |-> <<>>, lost |-> 0]
NoTables == [pat |-> FALSE, pmt |-> FALSE]
NoPmt == "none"

MediaInit ==
    /\ stage \in {"resync", "gate", "select"}
    /\ sync = [r |-> FreshSync, seen |-> <<>>]
    /\ \E titled \in BOOLEAN, through \in BOOLEAN :
        gate = [locked |-> through, titled |-> titled, access |-> NoTables, scanned |-> 0, mark |-> FALSE,
                log |-> <<>>, owed |-> FALSE, given |-> 0]
    /\ sel = [mapping |-> 0, pmt |-> NoPmt, source |-> NoPmt, version |-> 0,
              known |-> NoPmt, knownVersion |-> -1, told |-> FALSE, leak |-> FALSE, silent |-> FALSE, given |-> 0]

-----------------------------------------------------------------------------
(* TsResync.  out holds the positions of the packets found.                *)

At(buf, i) == buf[i + 1] = "sync"

\* Where after i two packets in a row could start.
Confirmable(buf, i) == {j \in i + 1 .. Len(buf) - PacketBytes - 1 : At(buf, j) /\ At(buf, j + PacketBytes)}

\* A jump over bytes that cannot start a packet.
Skip(r, i, next) ==
    [r EXCEPT !.i = next, !.locked = FALSE, !.lost = @ + IF r.acquired THEN next - i ELSE 0]

\* One turn of the loop of push_report.
ResyncStep(r, k) ==
    LET i == r.i IN
    IF r.stop \/ i + 2 * PacketBytes > Len(r.buf) THEN r
    ELSE IF At(r.buf, i) /\ (r.locked \/ At(r.buf, i + PacketBytes))
    THEN [r EXCEPT !.i = i + PacketBytes, !.out = Append(@, r.base + i), !.locked = TRUE, !.acquired = TRUE]
    ELSE IF Confirmable(r.buf, i) = {} THEN [r EXCEPT !.locked = FALSE, !.stop = TRUE]
    ELSE Skip(r, i, CHOOSE j \in Confirmable(r.buf, i) : \A m \in Confirmable(r.buf, i) : j <= m)

SyncDrained(r, n) == [r EXCEPT !.buf = SubSeq(@, n + 1, Len(@)), !.base = @ + n]

\* Variant: one packet of tail is thought to be enough.
OnePacketTail == PacketBytes

MaxUnsyncedTail == 2 * PacketBytes - 1

\* push_report; the tail that is kept is bounded.
PushReport(r0, data) ==
    LET start == [r0 EXCEPT !.buf = @ \o data] @@ [i |-> 0, stop |-> FALSE]
        r1 == FoldLeft(ResyncStep, start, [k \in 1 .. Len(start.buf) |-> k])
        r2 == SyncDrained([f \in DOMAIN FreshSync |-> r1[f]], r1.i)
        excess == Len(r2.buf) - MaxUnsyncedTail
    IN  IF excess <= 0 THEN r2
        ELSE [SyncDrained(r2, excess) EXCEPT !.locked = FALSE, !.lost = @ + IF r2.acquired THEN excess ELSE 0]

Resync ==
    /\ stage = "resync"
    /\ \E n \in 1 .. 3 : \E data \in [1 .. n -> {"sync", "other"}] :
        /\ Len(sync.seen) + n <= StreamBytes
        /\ sync' = [r |-> PushReport(sync.r, data), seen |-> sync.seen \o data]
    /\ UNCHANGED <<stage, gate, sel>>

-----------------------------------------------------------------------------
(* KeyframeGate.                                                           *)

\* VideoAccessPointState::observe and table_prefix.
Tables(t, p) == [pat |-> t.pat \/ p = "pat", pmt |-> t.pmt \/ (p = "pmt" /\ t.pat)]
Opening(t, p) == p = "key" /\ t.pmt

Out(kind, mark) == [kind |-> kind, mark |-> mark]

\* append_gate_tables: the cached tables, and with a name an SDT of its own.
GateTables(g) ==
    IF ~g.access.pmt THEN <<>>
    ELSE <<Out("cached pat", FALSE), Out("cached pmt", FALSE)>>
            \o IF g.titled THEN <<Out("own sdt", FALSE)>> ELSE <<>>

\* append_resumed_packet: the marker is on the packet, or on one of its own
\* before it when the packet has no room or is not of the video's PID.
Resumed(g, p, alone) ==
    IF ~g.mark THEN <<Out(p, FALSE)>>
    ELSE IF alone \/ (g.access.pmt /\ p \notin {"key", "video"})
    THEN <<Out("marker", TRUE), Out(p, FALSE)>>
    ELSE <<Out(p, TRUE)>>

Forward(g, packets) == [g EXCEPT !.log = IF Len(@) >= 5 THEN @ ELSE @ \o packets]

\* push_report for one packet.
GatePush(g0, p, alone) ==
    LET g == [g0 EXCEPT !.access = Tables(@, p)]
        out == <<Out(p, FALSE)>>
        key == Opening(g.access, p)
        next == [g EXCEPT !.scanned = @ + 1]
    IN  CASE g.titled /\ p = "sdt" -> IF g0.locked THEN g0 ELSE [g0 EXCEPT !.scanned = @ + 1]
          [] g.locked /\ ~(g.titled /\ p = "sdt") ->
                IF g.titled /\ key THEN Forward(g, GateTables(g) \o out)
                ELSE Forward(g, out)
          [] ~g.locked /\ ~(g.titled /\ p = "sdt") /\ key ->
                [Forward(next, GateTables(g) \o Resumed(g, p, alone)) EXCEPT
                    !.locked = TRUE, !.mark = FALSE]
          [] ~g.locked /\ ~(g.titled /\ p = "sdt") /\ ~key /\ next.scanned >= ScanBudget ->
                [Forward(next, Resumed(g, p, alone)) EXCEPT !.locked = TRUE, !.mark = FALSE]
          [] OTHER -> next

GatePacket ==
    /\ stage = "gate" /\ gate.given < MaxPackets
    /\ \E p \in {"pat", "pmt", "key", "video", "audio", "sdt"}, alone \in BOOLEAN :
        gate' = [GatePush(gate, p, alone) EXCEPT !.given = @ + 1]
    /\ UNCHANGED <<stage, sync, sel>>

\* reset_for_discontinuity forgets the tables, rearm_for_discontinuity keeps
\* them, and reset asks for no marker.
GateReset ==
    /\ stage = "gate" /\ gate.given < MaxPackets
    /\ \E how \in {"reset", "discontinuity", "rearm"} :
        gate' = [gate EXCEPT !.locked = FALSE, !.scanned = 0, !.mark = how # "reset",
                             !.access = IF how = "rearm" THEN @ ELSE NoTables,
                             !.log = <<>>, !.owed = how # "reset", !.given = @ + 1]
    /\ UNCHANGED <<stage, sync, sel>>

-----------------------------------------------------------------------------
(* LiveAudioSelection.  A program map is named by its tracks.              *)

Maps == {"mp2", "aac", "aac+mp2"}
Selects(map) == map \in {"aac", "aac+mp2"}               \* the first ADTS track
Removed(map) == IF map = "aac+mp2" THEN {"mp2"} ELSE {}
Effective(map) == IF map = "aac+mp2" THEN "aac" ELSE map
Lists(map) == CASE map = "aac+mp2" -> {"aac", "mp2"} [] map = NoPmt -> {} [] OTHER -> {map}

\* disable: nothing is selected until a map is accepted again.
Disabled(s) == [s EXCEPT !.pmt = NoPmt, !.source = NoPmt, !.told = @ \/ s.pmt # NoPmt]

\* observe of a PAT: another mapping, one with several programs, or a damaged one.
SelectPat(s, mapping) ==
    IF mapping = s.mapping /\ mapping # 0 THEN s
    ELSE [Disabled(s) EXCEPT !.mapping = mapping]

\* update_pmt.
NewVersion(s, map, upstream) ==
    IF ~Selects(map) THEN upstream
    ELSE IF s.pmt # NoPmt /\ Effective(s.source) = Effective(map) THEN s.version
    ELSE IF s.pmt # NoPmt THEN (s.version + 1) % Versions
    ELSE (upstream + Cardinality(Removed(map))) % Versions
SelectPmt(s, map, upstream) ==
    [s EXCEPT !.pmt = Effective(map), !.source = map, !.version = NewVersion(s, map, upstream),
              !.told = @ \/ s.source # map]

\* A receiver that goes by the version gets the map.
Received(s) ==
    [s EXCEPT !.known = s.pmt, !.knownVersion = s.version, !.told = FALSE,
              !.silent = @ \/ (s.known \notin {s.pmt, NoPmt} /\ s.knownVersion = s.version /\ ~s.told)]

Select ==
    /\ stage = "select" /\ sel.given < MaxPackets
    /\ LET s == [sel EXCEPT !.given = @ + 1] IN
       \/ \E mapping \in 0 .. 2 : sel' = SelectPat(s, mapping)
       \/ /\ s.mapping # 0
          /\ \/ \E map \in Maps, v \in 0 .. 1 : sel' = Received(SelectPmt(s, map, v))
             \/ sel' = Disabled(s)                                       \* a map it does not support
       \/ \E track \in {"aac", "mp2"} :
            sel' = IF s.pmt # NoPmt /\ track \in Removed(s.source) THEN s
                   ELSE [s EXCEPT !.leak = @ \/ (s.source # NoPmt /\ track \in Lists(s.source)
                                                    /\ track \notin Lists(s.known))]
    /\ UNCHANGED <<stage, sync, gate>>

MediaNext == Resync \/ GatePacket \/ GateReset \/ Select

MediaSpec == MediaInit /\ [][MediaNext]_mediaVars

-----------------------------------------------------------------------------
(* Properties.                                                             *)

\* The packets TsResync finds, and the bytes it reports lost, do not depend on
\* how the stream was cut into chunks, and its buffer stays below two packets.
SplitIsIrrelevant ==
    LET whole == PushReport(FreshSync, sync.seen) IN
    /\ sync.r.out = whole.out /\ sync.r.lost = whole.lost
    /\ Len(sync.r.buf) < 2 * PacketBytes

\* A client starts, and starts again after a discontinuity, with the tables
\* and an access point or only after the whole scan budget; the discontinuity
\* is marked once, before or on the first media packet; and a titled client
\* never sees the service table of the source.
ClientStartsClean ==
    LET log == gate.log
        first == SelectSeq(log, LAMBDA q : q.kind \notin {"cached pat", "cached pmt", "own sdt", "marker"})
        marks == {i \in DOMAIN log : log[i].mark}
    IN  /\ gate.owed /\ log # <<>> =>
            Cardinality(marks) = 1 /\ \A i \in marks : log[i] = first[1] \/ log[i + 1] = first[1]
        /\ gate.owed /\ log # <<>> =>
            \/ gate.scanned >= ScanBudget
            \/ first[1].kind = "key" /\ log[1].kind = "cached pat" /\ log[2].kind = "cached pmt"
        /\ gate.titled => \A i \in DOMAIN log : log[i].kind # "sdt"

\* A receiver is never left with a layout that has silently changed under the
\* version it knows, and never gets a track its map does not list.
MapsAreTold == ~sel.silent /\ ~sel.leak

\* Each stage gives its reader a stream that can be decoded from where it starts.
MediaIsClean == SplitIsIrrelevant /\ ClientStartsClean /\ MapsAreTold
=============================================================================
