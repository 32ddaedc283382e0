----------------------------- MODULE RtmpIngest -----------------------------
(***************************************************************************)
(* RTMP ingress of one broadcast name (rtmp.rs, rtmp_ts.rs): connections   *)
(* publish, send frames, unpublish and disconnect; each of their callbacks *)
(* runs to its end before the connection's next one, and interleaves with  *)
(* the callbacks of other connections and with the deletion of the         *)
(* broadcast.  What fences them are the producer claim, the operation      *)
(* barrier, the map of accepted streams and the tombstones of connections  *)
(* whose publication was cancelled.  Frames are remuxed to transport-stream*)
(* packets with a continuity counter per PID.                              *)
(*                                                                         *)
(* A stream is numbered by its producer claim.  The registry is reduced to *)
(* its current generation, the producer it admitted and the deletion that  *)
(* cancels it (Broadcast has them in full).                                *)
(***************************************************************************)
EXTENDS Naturals, Sequences, FiniteSets

CONSTANTS
    RtmpSessions,   \* RTMP connections
    MaxClaims,    \* bound: producer claims
    MaxDeletes,   \* bound: deletions of the broadcast
    MaxOut,       \* bound: packets of one stream
    CounterMod    \* values of a continuity counter, 16 in the code

ASSUME RtmpAssumption ==
    /\ MaxClaims \in Nat /\ MaxDeletes \in Nat /\ MaxOut \in Nat /\ CounterMod \in Nat \ {0}
    /\ RtmpSessions \cap {"free", "stop", "nobody"} = {}   \* tags of no connection

VARIABLES
    at,        \* connection -> where its current callback stands
    mine,      \* connection -> the stream its callbacks name, 0 for none
    streams,   \* the accepted stream of the name, 0 for none
    retired,   \* tombstones: connections that may not publish the name again
    owner,     \* stream -> its connection
    born,      \* stream -> generation of the broadcast it was admitted to
    data,      \* streams that still hold their producer
    cancel,    \* streams whose producer was cancelled or dropped
    barrier,   \* stream -> who holds its operation barrier: "free", "stop" or a connection
    generation, stopping, \* the registry's entry
    producer,  \* the claim the entry admitted last, 0 for none
    claims,    \* claims made
    muxer,     \* stream -> the muxer's state
    emitted,   \* stream -> packets ingested into its generation
    severed    \* history: connections whose accepted publication a deletion cancelled

registryVars == <<generation, stopping, producer, claims, owner, born>>
rtmpVars == <<at, mine, streams, retired, data, cancel, barrier, muxer, emitted, severed,
              registryVars>>

StreamNos == 1..MaxClaims
NewMuxer == [video |-> FALSE, audio |-> FALSE, tables |-> FALSE, vcc |-> 0, acc |-> 0]

RtmpInit ==
    /\ at = [c \in RtmpSessions |-> "idle"]
    /\ mine = [c \in RtmpSessions |-> 0]
    /\ streams = 0 /\ retired = {} /\ severed = {}
    /\ owner = [n \in StreamNos |-> "nobody"]
    /\ born = [n \in StreamNos |-> 0]
    /\ data = {} /\ cancel = {}
    /\ barrier = [n \in StreamNos |-> "free"]
    /\ generation = 1 /\ stopping = FALSE /\ producer = 0 /\ claims = 0
    /\ muxer = [n \in StreamNos |-> NewMuxer]
    /\ emitted = [n \in StreamNos |-> <<>>]

\* `generation_cancel`: the broadcast the stream was admitted to is deleted.
GenerationCancelled(n) == born[n] # generation \/ stopping

\* ProducerSession::check
SessionValid(n) == ~GenerationCancelled(n) /\ n \notin cancel

\* find: the accepted stream, if it is the one the callback names.
Found(c) == mine[c] # 0 /\ streams = mine[c]

\* Variant: whatever stream is accepted goes.
RemoveAny(n) == streams' = 0

\* remove_current: only the stream itself, never its successor.
RemoveCurrent(n) == streams' = IF streams = n THEN 0 ELSE streams

Goes(c, where) == at' = [at EXCEPT ![c] = where]

-----------------------------------------------------------------------------
(* on_publish.                                                             *)

\* A cancelled stream that is still in the map is a tombstone for its owner.
Buried == IF streams # 0 /\ streams \in cancel THEN {owner[streams]} ELSE {}

\* The checks before the claim; a connection may publish on another of its
\* streams while an earlier one stands.
OnPublish(c) ==
    /\ at[c] \in {"idle", "live"}
    /\ IF c \in retired
       THEN UNCHANGED <<at, retired>>
       ELSE /\ retired' = retired \cup Buried
            /\ IF c \in Buried THEN UNCHANGED at ELSE Goes(c, "claim")
    /\ UNCHANGED <<mine, streams, data, cancel, barrier, muxer, emitted, severed, registryVars>>

\* acquire_producer: the entry is open and nothing of its last producer is left.
Claimable ==
    /\ ~stopping
    /\ producer # 0 => producer \in cancel /\ producer \notin data /\ barrier[producer] = "free"

AcquireProducer(c) ==
    /\ at[c] = "claim"
    /\ IF Claimable /\ claims < MaxClaims
       THEN /\ claims' = claims + 1
            /\ producer' = claims + 1
            /\ owner' = [owner EXCEPT ![claims + 1] = c]
            /\ born' = [born EXCEPT ![claims + 1] = generation]
            /\ mine' = [mine EXCEPT ![c] = claims + 1]
            /\ data' = data \cup {claims + 1}
            /\ Goes(c, "insert")
            /\ UNCHANGED <<generation, stopping>>
       ELSE /\ Goes(c, IF mine[c] = 0 THEN "idle" ELSE "live")
            /\ UNCHANGED <<mine, data, registryVars>>
    /\ UNCHANGED <<streams, retired, cancel, barrier, muxer, emitted, severed>>

\* The producer is dropped with its session.
Drops(n) == data' = data \ {n} /\ cancel' = cancel \cup {n}

\* The end of on_publish, under the map's lock: the claim must not have been
\* cancelled meanwhile, and a cancelled predecessor is retired.
Insert(c) ==
    /\ at[c] = "insert"
    /\ LET n == mine[c] IN
       IF n \in cancel \/ (streams # 0 /\ (streams \notin cancel \/ c \in Buried))
       THEN /\ Drops(n)
            /\ mine' = [mine EXCEPT ![c] = 0]
            /\ retired' = IF n \in cancel THEN retired ELSE retired \cup Buried
            /\ Goes(c, "idle")
            /\ UNCHANGED streams
       ELSE /\ retired' = retired \cup Buried
            /\ streams' = n
            /\ Goes(c, "live")
            /\ UNCHANGED <<mine, data, cancel>>
    /\ UNCHANGED <<barrier, muxer, emitted, severed, registryVars>>

-----------------------------------------------------------------------------
(* Frames.                                                                 *)

\* push_video and push_audio: a sequence header is remembered; a frame before
\* its header is dropped; the tables precede the first frame (write_tables).
Frame(m, kind) == IF kind = "video" THEN m.video ELSE m.audio

Tables(m) == IF m.tables THEN <<>> ELSE <<[pid |-> "pat", cc |-> 0], [pid |-> "pmt", cc |-> 0]>>

Counter(m, kind) == IF kind = "video" THEN m.vcc ELSE m.acc

\* write_ts_payload: one packet per 184 bytes, the counter advancing modulo 16.
Packets(m, kind, count) ==
    [i \in 1..count |-> [pid |-> kind, cc |-> (Counter(m, kind) + i - 1) % CounterMod]]

Header(m, kind) ==
    IF kind = "video" THEN [m EXCEPT !.video = TRUE] ELSE [m EXCEPT !.audio = TRUE]

\* Variant: one counter for the packets of both PIDs.
AdvancedTogether(m, kind, count) ==
    [m EXCEPT !.tables = TRUE, !.vcc = (@ + count) % CounterMod, !.acc = (@ + count) % CounterMod]

Advanced(m, kind, count) ==
    IF kind = "video" THEN [m EXCEPT !.tables = TRUE, !.vcc = (@ + count) % CounterMod]
    ELSE [m EXCEPT !.tables = TRUE, !.acc = (@ + count) % CounterMod]

\* A frame callback finds its stream and waits for the barrier.
OnFrame(c) ==
    /\ at[c] = "live" /\ Found(c)
    /\ Goes(c, "frame")
    /\ UNCHANGED <<mine, streams, retired, data, cancel, barrier, muxer, emitted, severed,
                   registryVars>>

\* push_media with the barrier and the stream's data: a producer that is no
\* longer valid retires the connection; a frame that yields nothing is done.
PushMedia(c, kind, count) ==
    /\ at[c] = "frame" /\ barrier[mine[c]] = "free"
    /\ LET n == mine[c]
           m == muxer[n] IN
       CASE n \notin data ->
              /\ Goes(c, "live")
              /\ UNCHANGED <<streams, retired, data, cancel, barrier, muxer>>
         [] n \in data /\ ~SessionValid(n) ->
              /\ Goes(c, "live")
              /\ retired' = retired \cup {c}
              /\ Drops(n)
              /\ RemoveCurrent(n)
              /\ UNCHANGED <<barrier, muxer>>
         [] n \in data /\ SessionValid(n) /\ ~Frame(m, kind) ->
              /\ Goes(c, "live")
              /\ \/ muxer' = [muxer EXCEPT ![n] = Header(m, kind)]
                 \/ UNCHANGED muxer
              /\ UNCHANGED <<streams, retired, data, cancel, barrier>>
         [] OTHER ->
              /\ Len(emitted[n]) + count <= MaxOut
              /\ Goes(c, "push")
              /\ barrier' = [barrier EXCEPT ![n] = c]
              /\ muxer' = [muxer EXCEPT ![n] = Advanced(m, kind, count)]
              /\ UNCHANGED <<streams, retired, data, cancel>>
    /\ emitted' = IF at'[c] = "push"
                  THEN [emitted EXCEPT ![mine[c]] =
                           @ \o Tables(muxer[mine[c]]) \o Packets(muxer[mine[c]], kind, count)]
                  ELSE emitted
    /\ UNCHANGED <<mine, severed, registryVars>>

\* push_bytes returns; its failure, whatever the reason, ends the publication.
Pushed(c, ok) ==
    /\ at[c] = "push"
    /\ Goes(c, "live")
    /\ barrier' = [barrier EXCEPT ![mine[c]] = "free"]
    /\ IF ok
       THEN UNCHANGED <<streams, retired, data, cancel>>
       ELSE /\ retired' = retired \cup {c}
            /\ Drops(mine[c])
            /\ RemoveCurrent(mine[c])
    /\ UNCHANGED <<mine, muxer, emitted, severed, registryVars>>

-----------------------------------------------------------------------------
(* on_unpublish and on_disconnect.                                         *)

\* The connection unpublishes: a stream that is no longer the accepted one has
\* nothing to finish.
OnUnpublish(c) ==
    /\ at[c] = "live"
    /\ IF Found(c) THEN Goes(c, "unpublish") /\ UNCHANGED mine
       ELSE Goes(c, "idle") /\ mine' = [mine EXCEPT ![c] = 0]
    /\ UNCHANGED <<streams, retired, data, cancel, barrier, muxer, emitted, severed, registryVars>>

\* With the barrier the producer is taken out, finished if it is still valid,
\* and dropped; a cancelled one retires the connection.
Finish(c) ==
    /\ at[c] = "unpublish" /\ barrier[mine[c]] = "free"
    /\ LET n == mine[c] IN
       /\ barrier' = [barrier EXCEPT ![n] = c]
       /\ retired' = IF n \in data /\ ~SessionValid(n) THEN retired \cup {c} ELSE retired
       /\ Drops(n)
    /\ Goes(c, "remove")
    /\ UNCHANGED <<mine, streams, muxer, emitted, severed, registryVars>>

\* A deletion that raced the end is noticed, then the stream leaves the map.
RemoveStream(c) ==
    /\ at[c] = "remove"
    /\ LET n == mine[c] IN
       /\ retired' = IF GenerationCancelled(n) THEN retired \cup {c} ELSE retired
       /\ RemoveCurrent(n)
       /\ barrier' = [barrier EXCEPT ![n] = "free"]
    /\ mine' = [mine EXCEPT ![c] = 0]
    /\ Goes(c, "idle")
    /\ UNCHANGED <<data, cancel, muxer, emitted, severed, registryVars>>

\* on_disconnect: the connection's stream is collected from the map.
OnDisconnect(c) ==
    /\ at[c] \in {"idle", "live"}
    /\ IF Found(c) THEN Goes(c, "broken") /\ UNCHANGED <<mine, retired, severed>>
       ELSE /\ Goes(c, "idle")
            /\ mine' = [mine EXCEPT ![c] = 0]
            /\ retired' = retired \ {c} /\ severed' = severed \ {c}
    /\ UNCHANGED <<streams, data, cancel, barrier, muxer, emitted, registryVars>>

\* Its partial attempt is discarded under the barrier and its tombstones go
\* with it; the connection that comes next is a new one.
Discard(c) ==
    /\ at[c] = "broken" /\ barrier[mine[c]] = "free"
    /\ Drops(mine[c])
    /\ RemoveCurrent(mine[c])
    /\ retired' = retired \ {c} /\ severed' = severed \ {c}
    /\ mine' = [mine EXCEPT ![c] = 0]
    /\ Goes(c, "idle")
    /\ UNCHANGED <<barrier, muxer, emitted, registryVars>>

-----------------------------------------------------------------------------
(* The registry.                                                           *)

\* stop_admissions: the entry is stopping and its producer is cancelled.
DeleteBroadcast ==
    /\ ~stopping /\ generation <= MaxDeletes
    /\ stopping' = TRUE
    /\ cancel' = IF producer = 0 THEN cancel ELSE cancel \cup {producer}
    /\ severed' = severed \cup {c \in RtmpSessions : at[c] \in {"live", "frame", "push"}
                                    /\ streams = mine[c] /\ mine[c] = producer
                                    /\ producer \in data}
    /\ UNCHANGED <<at, mine, streams, retired, data, barrier, muxer, emitted, generation,
                   producer, claims, owner, born>>

\* The stop job waits for the barrier of the last producer.
StopHolds ==
    /\ stopping /\ producer # 0 /\ barrier[producer] = "free"
    /\ barrier' = [barrier EXCEPT ![producer] = "stop"]
    /\ UNCHANGED <<at, mine, streams, retired, data, cancel, muxer, emitted, severed, registryVars>>

\* The entry is gone; the next claim finds a fresh one.
StopEnds ==
    /\ stopping
    /\ producer # 0 => barrier[producer] = "stop"
    /\ generation' = generation + 1 /\ stopping' = FALSE /\ producer' = 0
    /\ barrier' = IF producer = 0 THEN barrier ELSE [barrier EXCEPT ![producer] = "free"]
    /\ UNCHANGED <<at, mine, streams, retired, data, cancel, muxer, emitted, severed,
                   claims, owner, born>>

RtmpNext ==
    \/ \E c \in RtmpSessions :
         \/ OnPublish(c) \/ AcquireProducer(c) \/ Insert(c)
         \/ OnFrame(c) \/ (\E ok \in BOOLEAN : Pushed(c, ok))
         \/ \E kind \in {"video", "audio"}, count \in 1..2 : PushMedia(c, kind, count)
         \/ OnUnpublish(c) \/ Finish(c) \/ RemoveStream(c)
         \/ OnDisconnect(c) \/ Discard(c)
    \/ DeleteBroadcast \/ StopHolds \/ StopEnds

RtmpSpec == RtmpInit /\ [][RtmpNext]_rtmpVars

-----------------------------------------------------------------------------
(* Properties.                                                             *)

Ids(n, pid) == SelectSeq(emitted[n], LAMBDA p : p.pid = pid)

\* What a stream emits opens with the tables, and the continuity counter of
\* every PID counts on without a jump.
StreamsAreContinuous ==
    \A n \in StreamNos : emitted[n] # <<>> =>
        /\ emitted[n][1].pid = "pat" /\ emitted[n][2].pid = "pmt"
        /\ \A pid \in {"video", "audio"} : \A i \in 1..Len(Ids(n, pid)) :
             Ids(n, pid)[i].cc = (i - 1) % CounterMod

\* A connection that publishes, with a stream that still has its state.
Publishes(c) == at[c] \in {"live", "frame", "push"} /\ mine[c] \in data

\* An accepted stream whose producer is valid is the one in the map.
AcceptedIsMapped == \A c \in RtmpSessions : Publishes(c) /\ SessionValid(mine[c]) => streams = mine[c]

\* A connection whose publication was cut by a deletion has no valid one again before
\* it disconnects.
SeveredIsOver == \A c \in RtmpSessions : Publishes(c) /\ c \in severed => ~SessionValid(mine[c])

\* Packets are ingested only into the current generation of the broadcast and
\* by its admitted producer, and never while its deletion holds the barrier.
IngestIsFenced ==
    \A n \in StreamNos : emitted'[n] # emitted[n] =>
        n = producer /\ born[n] = generation /\ ~stopping /\ n = streams

\* What the fences of the RTMP ingress (rtmp.rs) are for: a publisher that was replaced,
\* or whose broadcast was deleted, writes nothing into the stream of its successor.
PublishersAreFenced == [](AcceptedIsMapped /\ SeveredIsOver) /\ [][IngestIsFenced]_rtmpVars

\* The comment of `retired`: "Ordinary unpublish is reusable".  While the
\* connection ends a publication that no deletion touched, nothing buries it.
UnpublishIsReusable ==
    [][\A c \in retired' \ retired : at[c] = "remove" => GenerationCancelled(mine[c])]_rtmpVars
=============================================================================
