-------------------------- MODULE BroadcastProofs --------------------------
(***************************************************************************)
(* Theorems about one broadcast name, for every set of producers, every    *)
(* interval of the cursor and any number of crashes and failing writes.    *)
(*                                                                         *)
(* Nothing here is inductive alone.  Who may touch what follows from the   *)
(* locks (Coordinated); that a claim has one holder and a publication      *)
(* belongs to it follows from there (Owned); and that numbers are used     *)
(* once needs the chain from the pieces exposed, over the cursor and its   *)
(* reservation, to every record a crash may leave (Numbered).              *)
(***************************************************************************)
EXTENDS Broadcast, TLAPS

Records == [id : Nat, next : Nat, reserved : Nat \cup {-1}]
Phases == {"boot", "serving", "closing", "down"}
Stages == Owning \cup {"idle", "gate", "prepare", "waiting", "claim", "gone"}
Statuses == {"none", "connecting", "streaming", "backoff", "failed", "stopping"}
Entries == [there : BOOLEAN, stopping : BOOLEAN, closed : BOOLEAN, invalid : BOOLEAN,
            id : Nat, detach : BOOLEAN, source : {"none", "on", "stopping"}]
Cursors == [next : Nat, reserved : Nat, poisoned : BOOLEAN, closed : BOOLEAN]
Authorities == [kind : ProducerKinds \cup {"none"}, alive : BOOLEAN, cancel : BOOLEAN,
                busy : BOOLEAN]
Ingests == [no : Nat, piece : Nat, live : BOOLEAN]
Locks == [lifecycle : {Free, "init", "stop"}, gate : {Free, "pull", "detach"},
          operation : {Free, "rtmp", "stop"}, publication : {Free, "job", "stop"}]
Inits == [at : {"none", "load", "save"}, rec : [id : Nat, next : Nat, reserved : Nat]]
Jobs == [kind : ProducerKinds \cup {"none"},
         at : {"none", "check", "reserve", "store", "put", "checkpoint", "checkpointing",
               "settled", "failed"},
         piece : Nat, no : Nat, whole : BOOLEAN, last : BOOLEAN]
Ios == [by : {Free, "init", "job", "stop"}, at : {"none", "write", "sync", "done"},
        rec : Records, ok : BOOLEAN]
Stops == [at : {"none", "lifecycle", "join", "jobs", "io", "unlink", "done", "failed"},
          delete : BOOLEAN]
Detaches == [at : {"none", "gate", "join"}, worker : BOOLEAN]

\* Types of the registry entry, its locks, jobs, records and history.
BroadcastTypeOK ==
    /\ disk \in Records /\ after \in SUBSET Records /\ phase \in Phases
    /\ entry \in Entries /\ cursor \in Cursors /\ auth \in Authorities /\ status \in Statuses
    /\ stage \in [ProducerKinds -> Stages] /\ ingest \in [ProducerKinds -> Ingests]
    /\ lock \in Locks /\ init \in Inits /\ job \in Jobs /\ io \in Ios
    /\ stop \in Stops /\ detach \in Detaches
    /\ published \in SUBSET (Nat \X Nat \X Nat) /\ deleted \in SUBSET Nat
    /\ minted \in Nat /\ crashes \in Nat /\ faults \in Nat

\* Each lock says who is at work: a job holds publication, an initializer or a
\* stop holds lifecycle, and whoever writes to the disk holds the I/O gate.
Coordinated ==
    /\ job.kind = "none" <=> job.at = "none"
    /\ lock.publication = "job" <=> job.at # "none"
    /\ lock.lifecycle = "init" <=> init.at # "none"
    /\ lock.lifecycle = "stop" <=> stop.at \in {"join", "jobs", "io", "unlink"}
    /\ lock.publication = "stop" <=> stop.at \in {"io", "unlink"}
    /\ io.by = "init" <=> init.at = "save"
    /\ io.by = "job" <=> job.at \in {"reserve", "checkpointing"}
    /\ io.by = "stop" <=> stop.at = "unlink"
    /\ io.by = Free <=> io.at = "none"
    /\ stop.at # "none" => entry.stopping
    /\ entry.closed => entry.stopping /\ job.at = "none"
    /\ init.at # "none" => entry.id = 0
    /\ init.rec = IF init.at = "save" THEN io.rec ELSE NoRecord

\* An owner's authority is the one in force, unless its entry was closed; a
\* publication in flight is its owner's last act until it is answered.
Owned ==
    /\ \A k \in ProducerKinds :
        /\ stage[k] \in Owning => (auth.alive /\ auth.kind = k) \/ entry.closed
        /\ stage[k] \in Owning \cup {"claim"} => entry.id # 0 \/ entry.closed
        /\ job.at # "none" /\ stage[k] \in Owning => stage[k] \in {"push", "terminal"}
        /\ job.at # "none" /\ stage[k] = "push" =>
                ingest[k].no = job.no /\ ingest[k].piece = job.piece
        /\ ingest[k].live => stage[k] \in {"feed", "push", "sealed"}
    /\ OneProducer
    /\ DetachIsFinal
    /\ job.at # "none" => entry.id # 0

\* What the disk may show after a crash: nothing deleted, and never less than
\* the reservation of the cursor in use.
Recorded ==
    /\ disk \in after
    /\ io.at = "sync" => disk = io.rec
    /\ io.by = "stop" => io.rec = NoRecord \/ (io.at = "done" /\ ~stop.delete)
    /\ io.at = "done" /\ io.ok /\ (io.by = "stop" => stop.delete) => after = {io.rec}
    /\ entry.id # 0 => \A r \in after : r.id = entry.id => r.reserved >= cursor.reserved
    /\ io.by = "job" => io.rec.id = entry.id /\ io.rec.reserved >= cursor.reserved
    /\ job.at = "reserve" => io.rec.reserved > job.piece
    /\ io.by = "init" => io.rec.next <= io.rec.reserved
    /\ cursor.next <= cursor.reserved

\* Identities in use are minted and not deleted.
Identified ==
    /\ \A x \in published : x[1] \in 1 .. minted
    /\ deleted \subseteq 1 .. minted
    /\ entry.id <= minted /\ entry.id \notin deleted
    /\ io.rec.id <= minted /\ io.rec.id \notin deleted
    /\ \A r \in after : r.id <= minted /\ r.id \notin deleted

\* No piece was exposed at or above the number that the cursor, a record or an
\* initializer would use next, and an ingest finds only its own pieces ahead.
Numbered ==
    /\ \A x \in published : x[1] = entry.id => x[2] < cursor.next
    /\ \A x \in published : \A r \in after : x[1] = r.id => x[2] < StartOf(r)
    /\ io.by = "init" => \A x \in published : x[1] = io.rec.id => x[2] < io.rec.next
    /\ job.at \in {"store", "put"} => job.piece < cursor.next
    /\ job.at # "none" =>
        \A x \in published : x[1] = entry.id /\ x[2] >= job.piece => x[3] = job.no
    /\ \A k \in ProducerKinds : ingest[k].live =>
        \A x \in published : x[1] = entry.id /\ x[2] >= ingest[k].piece => x[3] = ingest[k].no
    /\ PieceNumbersAreUnique

BroadcastInv == BroadcastTypeOK /\ Coordinated /\ Owned /\ Recorded /\ Identified /\ Numbered

-----------------------------------------------------------------------------
(* Arithmetic of the cursor.                                               *)

\* The larger of two piece numbers, as consume computes it.
LEMMA MaxOfTwo ==
    ASSUME NEW a \in Int, NEW b \in Int
    PROVE  Max({a, b}) = IF a >= b THEN a ELSE b
  <1>1. /\ (IF a >= b THEN a ELSE b) \in {a, b}
        /\ \A y \in {a, b} : (IF a >= b THEN a ELSE b) >= y
    OBVIOUS
  <1>2. ASSUME NEW x \in {a, b}, \A y \in {a, b} : x >= y
        PROVE  x = IF a >= b THEN a ELSE b
    BY <1>2
  <1> QED BY <1>1, <1>2 DEF Max

\* The highest number of an ingest is a number.
LEMMA MaxOfKinds ==
    ASSUME NEW f \in [ProducerKinds -> [no : Nat, piece : Nat, live : BOOLEAN]],
           NEW k \in ProducerKinds
    PROVE  Max({f[j].no : j \in ProducerKinds}) \in Nat
  <1> DEFINE S == {f[j].no : j \in ProducerKinds}
  <1>1. \E i \in ProducerKinds : \A j \in ProducerKinds : f[i].no >= f[j].no
    <2>1. \A j \in ProducerKinds : f[j].no \in Nat /\ j \in {"put", "rtmp", "pull"}
      BY KindsAssumption DEF KindsAssumption
    <2> QED BY <2>1, SMTT(30)
  <1>2. \E x \in S : \A y \in S : x >= y
    BY <1>1
  <1>3. Max(S) \in S
    BY <1>2 DEF Max
  <1> QED BY <1>3

\* Where a reloaded cursor starts is a piece number, at or past the recorded one.
LEMMA StartIsNumber == ASSUME NEW r \in Records PROVE StartOf(r) \in Nat
  BY IntervalAssumption DEF StartOf, Records, IntervalAssumption

\* An extension of the reservation covers the piece it is asked for.
LEMMA ExtensionCovers ==
    ASSUME NEW piece \in Nat, cursor.reserved \in Nat, piece >= cursor.reserved
    PROVE  Extension(piece) \in Nat /\ Extension(piece) > piece
  <1> DEFINE d == piece - cursor.reserved
             q == d \div Interval
  <1>1. Interval \in Nat /\ Interval > 0 /\ d \in Nat
    BY IntervalAssumption DEF IntervalAssumption
  <1>2. q \in Int /\ q * Interval <= d /\ d < (q + 1) * Interval
    BY <1>1, SMTT(30)
  <1>3. Extension(piece) = cursor.reserved + (q + 1) * Interval
    BY DEF Extension
  <1>4. (q + 1) * Interval \in Int
    BY <1>1, <1>2
  <1> QED BY <1>2, <1>3, <1>4

-----------------------------------------------------------------------------
(* Types.                                                                  *)

\* Every step of producers, jobs, stops and crashes keeps the types.
LEMMA TypeStep ==
    ASSUME BroadcastTypeOK, [BroadcastNext]_broadcastVars PROVE BroadcastTypeOK'
  <1> USE DEF BroadcastTypeOK, diskVars, entryVars, jobVars, historyVars
  <1>1. ASSUME NEW k \in ProducerKinds, Producer(k) PROVE BroadcastTypeOK'
    <2>1. CASE Enter(k)
      <3>1. entry' \in Entries
        BY <2>1 DEF Enter, Entries
      <3>2. stage' \in [ProducerKinds -> Stages]
        BY <2>1 DEF Enter, Stages, Owning
      <3> QED BY <2>1, <3>1, <3>2 DEF Enter
    <2>2. CASE PrepareHit(k)
      <3>1. stage' \in [ProducerKinds -> Stages]
        BY <2>2 DEF PrepareHit, Stages, Owning
      <3> QED BY <2>2, <3>1 DEF PrepareHit
    <2>3. CASE PrepareStart(k)
      <3>1. stage' \in [ProducerKinds -> Stages]
        BY <2>3 DEF PrepareStart, Initialize, Stages, Owning
      <3>2. lock' \in Locks
        BY <2>3 DEF PrepareStart, Initialize, Locks, Free
      <3>3. init' \in Inits
        BY <2>3 DEF PrepareStart, Initialize, Inits
      <3> QED BY <2>3, <3>1, <3>2, <3>3 DEF PrepareStart
    <2>4. CASE PrepareAnswers(k)
      <3>1. stage' \in [ProducerKinds -> Stages]
        BY <2>4 DEF PrepareAnswers, Stages, Owning
      <3> QED BY <2>4, <3>1 DEF PrepareAnswers
    <2>5. CASE PrepareRefused(k)
      <3>1. stage' \in [ProducerKinds -> Stages]
        BY <2>5 DEF PrepareRefused, Leaves, Stages, Owning
      <3>2. lock' \in Locks
        BY <2>5 DEF PrepareRefused, Leaves, Locks, Free
      <3> QED BY <2>5, <3>1, <3>2 DEF PrepareRefused
    <2>6. CASE Claim(k)
      <3>1. auth' \in Authorities
        BY <2>6 DEF Claim, Authorities
      <3>2. stage' \in [ProducerKinds -> Stages]
        BY <2>6 DEF Claim, Stages, Owning
      <3> QED BY <2>6, <3>1, <3>2 DEF Claim
    <2>7. CASE ClaimConflicts(k)
      <3>1. stage' \in [ProducerKinds -> Stages]
        BY <2>7 DEF ClaimConflicts, Leaves, Stages, Owning
      <3>2. lock' \in Locks
        BY <2>7 DEF ClaimConflicts, Leaves, Locks, Free
      <3> QED BY <2>7, <3>1, <3>2 DEF ClaimConflicts
    <2>8. CASE RegisterEntry(k)
      <3>1. entry' \in Entries
        BY <2>8 DEF RegisterEntry, Entries
      <3>2. stage' \in [ProducerKinds -> Stages]
        BY <2>8 DEF RegisterEntry, Stages, Owning
      <3>3. lock' \in Locks
        BY <2>8 DEF RegisterEntry, Locks, Free
      <3>4. status' \in Statuses
        BY <2>8 DEF RegisterEntry, Statuses
      <3> QED BY <2>8, <3>1, <3>2, <3>3, <3>4 DEF RegisterEntry
    <2>9. CASE RegisterRefused(k)
      <3>1. auth' \in Authorities
        BY <2>9 DEF RegisterRefused, Leaves, Dropped, Authorities
      <3>2. stage' \in [ProducerKinds -> Stages]
        BY <2>9 DEF RegisterRefused, Leaves, Dropped, Stages, Owning
      <3>3. lock' \in Locks
        BY <2>9 DEF RegisterRefused, Leaves, Dropped, Locks, Free
      <3> QED BY <2>9, <3>1, <3>2, <3>3 DEF RegisterRefused
    <2>10. CASE OpenIngest(k)
      <3>1. auth' \in Authorities
        BY <2>10 DEF OpenIngest, Authorities
      <3>2. stage' \in [ProducerKinds -> Stages]
        BY <2>10 DEF OpenIngest, Stages, Owning
      <3>3. ingest' \in [ProducerKinds -> Ingests]
        BY <2>10, MaxOfKinds DEF OpenIngest, Ingests, Cursors
      <3> QED BY <2>10, <3>1, <3>2, <3>3 DEF OpenIngest
    <2>11. CASE ProducerEnds(k)
      <3>1. auth' \in Authorities
        BY <2>11 DEF ProducerEnds, Dropped, Authorities
      <3>2. stage' \in [ProducerKinds -> Stages]
        BY <2>11 DEF ProducerEnds, Dropped, Stages, Owning
      <3>3. ingest' \in [ProducerKinds -> Ingests]
        BY <2>11 DEF ProducerEnds, Dropped, Ingests
      <3> QED BY <2>11, <3>1, <3>2, <3>3 DEF ProducerEnds
    <2>12. ASSUME NEW whole \in BOOLEAN, NEW last \in BOOLEAN, Publish(k, whole, last)
           PROVE BroadcastTypeOK'
      <3>1. stage' \in [ProducerKinds -> Stages]
        BY <2>12 DEF Publish, Stages, Owning
      <3>2. lock' \in Locks
        BY <2>12 DEF Publish, Locks, Free
      <3>3. job' \in Jobs
        BY <2>12 DEF Publish, Jobs, Ingests
      <3> QED BY <2>12, <3>1, <3>2, <3>3 DEF Publish
    <2> QED
      BY <1>1, <2>1, <2>2, <2>3, <2>4, <2>5, <2>6, <2>7, <2>8, <2>9, <2>10, <2>11,
          <2>12 DEF Producer
  <1>2. CASE Source
    <2>1. CASE Attach
      <3>1. entry' \in Entries
        BY <2>1 DEF Attach, Entries
      <3>2. stage' \in [ProducerKinds -> Stages]
        BY <2>1 DEF Attach, Stages, Owning
      <3> QED BY <2>1, <3>1, <3>2 DEF Attach
    <2>2. CASE Gate
      <3>1. stage' \in [ProducerKinds -> Stages]
        BY <2>2 DEF Gate, Stages, Owning
      <3>2. lock' \in Locks
        BY <2>2 DEF Gate, Locks, Free
      <3> QED BY <2>2, <3>1, <3>2 DEF Gate
    <2>3. CASE SourceRetries
      <3>1. auth' \in Authorities
        BY <2>3 DEF SourceRetries, Authorities
      <3>2. stage' \in [ProducerKinds -> Stages]
        BY <2>3 DEF SourceRetries, Stages, Owning
      <3>3. ingest' \in [ProducerKinds -> Ingests]
        BY <2>3 DEF SourceRetries, Ingests
      <3>4. status' \in Statuses
        BY <2>3 DEF SourceRetries, Statuses, Reported
      <3> QED BY <2>3, <3>1, <3>2, <3>3, <3>4 DEF SourceRetries
    <2>4. CASE SourceWakes
      <3>1. stage' \in [ProducerKinds -> Stages]
        BY <2>4 DEF SourceWakes, Stages, Owning
      <3>2. status' \in Statuses
        BY <2>4 DEF SourceWakes, Statuses, Reported
      <3> QED BY <2>4, <3>1, <3>2 DEF SourceWakes
    <2>5. CASE SourceFails
      <3>1. auth' \in Authorities
        BY <2>5 DEF SourceFails, Authorities
      <3>2. stage' \in [ProducerKinds -> Stages]
        BY <2>5 DEF SourceFails, Stages, Owning
      <3>3. ingest' \in [ProducerKinds -> Ingests]
        BY <2>5 DEF SourceFails, Ingests
      <3>4. status' \in Statuses
        BY <2>5 DEF SourceFails, Statuses, Reported
      <3> QED BY <2>5, <3>1, <3>2, <3>3, <3>4 DEF SourceFails
    <2>6. CASE SourceExits
      <3>1. auth' \in Authorities
        BY <2>6 DEF SourceExits, Dropped, Authorities
      <3>2. stage' \in [ProducerKinds -> Stages]
        BY <2>6 DEF SourceExits, Dropped, Stages, Owning
      <3>3. ingest' \in [ProducerKinds -> Ingests]
        BY <2>6 DEF SourceExits, Dropped, Ingests
      <3>4. status' \in Statuses
        BY <2>6 DEF SourceExits, Dropped, Statuses, Reported, ExitStatus
      <3> QED BY <2>6, <3>1, <3>2, <3>3, <3>4 DEF SourceExits
    <2>7. CASE Detach
      <3>1. entry' \in Entries
        BY <2>7 DEF Detach, Entries
      <3>2. auth' \in Authorities
        BY <2>7 DEF Detach, Authorities, Entries
      <3>3. detach' \in Detaches
        BY <2>7 DEF Detach, Detaches
      <3>4. status' \in Statuses
        BY <2>7 DEF Detach, Statuses
      <3> QED BY <2>7, <3>1, <3>2, <3>3, <3>4 DEF Detach
    <2>8. CASE DetachGate
      <3>1. lock' \in Locks
        BY <2>8 DEF DetachGate, Locks, Free
      <3>2. detach' \in Detaches
        BY <2>8 DEF DetachGate, Detaches
      <3> QED BY <2>8, <3>1, <3>2 DEF DetachGate
    <2>9. CASE DetachDone
      <3>1. entry' \in Entries
        BY <2>9 DEF DetachDone, Entries, FreshEntry
      <3>2. auth' \in Authorities
        BY <2>9 DEF DetachDone, Authorities, NoAuth
      <3>3. stage' \in [ProducerKinds -> Stages]
        BY <2>9 DEF DetachDone, Stages, Owning
      <3>4. lock' \in Locks
        BY <2>9 DEF DetachDone, Locks, Free, FreshLocks
      <3>5. detach' \in Detaches
        BY <2>9 DEF DetachDone, Detaches
      <3>6. status' \in Statuses
        BY <2>9 DEF DetachDone, Statuses
      <3> QED BY <2>9, <3>1, <3>2, <3>3, <3>4, <3>5, <3>6 DEF DetachDone
    <2> QED
      BY <1>2, <2>1, <2>2, <2>3, <2>4, <2>5, <2>6, <2>7, <2>8, <2>9 DEF Source
  <1>3. CASE Job
    <2>1. CASE JobConsumes
      <3>1. cursor' \in Cursors
        <4>1. cursor.next \in Nat /\ job.piece + 1 \in Nat
          BY DEF Cursors, Jobs
        <4>2. Max({cursor.next, job.piece + 1}) \in Nat
          BY <4>1, MaxOfTwo
        <4> QED BY <2>1, <4>2 DEF JobConsumes, Cursors
      <3>2. job' \in Jobs
        BY <2>1 DEF JobConsumes, Jobs
      <3> QED BY <2>1, <3>1, <3>2 DEF JobConsumes
    <2>2. CASE JobReserves
      <3>1. job' \in Jobs
        BY <2>2 DEF JobReserves, Jobs
      <3>2. io' \in Ios
        BY <2>2, ExtensionCovers DEF JobReserves, Ios, Records, Free, Entries, Cursors, Jobs
      <3> QED BY <2>2, <3>1, <3>2 DEF JobReserves
    <2>3. CASE JobReserved
      <3>1. cursor' \in Cursors
        <4>1. /\ cursor.next \in Nat /\ job.piece + 1 \in Nat
              /\ cursor.reserved \in Nat /\ io.rec.reserved \in Int
          BY DEF Cursors, Jobs, Ios, Records
        <4>2. /\ Max({cursor.next, job.piece + 1}) \in Nat
              /\ Max({cursor.reserved, io.rec.reserved}) \in Nat
          BY <4>1, MaxOfTwo
        <4> QED BY <2>3, <4>2 DEF JobReserved, Cursors
      <3>2. job' \in Jobs
        BY <2>3 DEF JobReserved, Jobs, NoJob
      <3>3. io' \in Ios
        BY <2>3 DEF JobReserved, Ios, Records, Free, FreshIo, NoRecord
      <3> QED BY <2>3, <3>1, <3>2, <3>3 DEF JobReserved
    <2>4. CASE JobChecks
      <3>1. job' \in Jobs
        BY <2>4 DEF JobChecks, Jobs
      <3> QED BY <2>4, <3>1 DEF JobChecks
    <2>5. CASE JobPuts
      <3>1. job' \in Jobs
        BY <2>5 DEF JobPuts, Jobs
      <3>2. published' \in SUBSET (Nat \X Nat \X Nat)
        BY <2>5 DEF JobPuts, Entries, Jobs
      <3> QED BY <2>5, <3>1, <3>2 DEF JobPuts
    <2>6. CASE JobCheckpoints
      <3>1. job' \in Jobs
        BY <2>6 DEF JobCheckpoints, Jobs
      <3>2. io' \in Ios
        BY <2>6 DEF JobCheckpoints, Ios, Records, Free, Entries, Cursors
      <3> QED BY <2>6, <3>1, <3>2 DEF JobCheckpoints
    <2>7. CASE JobCheckpointed
      <3>1. job' \in Jobs
        BY <2>7 DEF JobCheckpointed, Jobs, NoJob
      <3>2. io' \in Ios
        BY <2>7 DEF JobCheckpointed, Ios, Records, Free, FreshIo, NoRecord
      <3> QED BY <2>7, <3>1, <3>2 DEF JobCheckpointed
    <2>8. CASE JobFails
      <3>1. job' \in Jobs
        BY <2>8 DEF JobFails, Jobs, NoJob
      <3>2. io' \in Ios
        <4>1. io' = io \/ io' = FreshIo
          BY <2>8 DEF JobFails
        <4>2. FreshIo \in Ios
          BY DEF FreshIo, NoRecord, Ios, Records
        <4> QED BY <4>1, <4>2
      <3> QED BY <2>8, <3>1, <3>2 DEF JobFails
    <2>9. CASE JobEnds
      <3>1. auth' \in Authorities
        BY <2>9 DEF JobEnds, Authorities, NoAuth
      <3>2. stage' \in [ProducerKinds -> Stages]
        BY <2>9 DEF JobEnds, Stages, Owning
      <3>3. ingest' \in [ProducerKinds -> Ingests]
        <4> DEFINE live == job.at = "settled"
                   next == IF job.whole THEN ingest[job.kind].piece + 1 ELSE ingest[job.kind].piece
        <4>1. \/ ingest' = ingest
              \/ ingest' = [ingest EXCEPT ![job.kind].live = live, ![job.kind].piece = next]
          BY <2>9 DEF JobEnds
        <4>2. live \in BOOLEAN
          OBVIOUS
        <4>3. job.kind \in ProducerKinds => next \in Nat
          BY DEF Ingests
        <4>4. CASE job.kind \in ProducerKinds
          <5> HIDE DEF live, next
          <5>1. [ingest EXCEPT ![job.kind].live = live, ![job.kind].piece = next]
                   \in [ProducerKinds -> Ingests]
            BY <4>2, <4>3, <4>4 DEF Ingests
          <5> QED BY <4>1, <5>1
        <4>5. CASE job.kind \notin ProducerKinds
          BY <4>1, <4>5
        <4> QED BY <4>4, <4>5
      <3>4. lock' \in Locks
        BY <2>9 DEF JobEnds, Locks, Free, FreshLocks
      <3>5. job' \in Jobs
        BY <2>9 DEF JobEnds, Jobs, NoJob
      <3>6. status' \in Statuses
        BY <2>9 DEF JobEnds, Statuses, Reported
      <3> QED BY <2>9, <3>1, <3>2, <3>3, <3>4, <3>5, <3>6 DEF JobEnds
    <2> QED
      BY <1>3, <2>1, <2>2, <2>3, <2>4, <2>5, <2>6, <2>7, <2>8, <2>9 DEF Job
  <1>4. CASE Persist
    <2>1. CASE PersistChanges
      <3>1. disk' \in Records
        BY <2>1 DEF PersistChanges, Records, Ios
      <3>2. after' \in SUBSET Records
        BY <2>1 DEF PersistChanges, Records, Ios
      <3>3. io' \in Ios
        BY <2>1 DEF PersistChanges, Ios, Records, Free
      <3> QED BY <2>1, <3>1, <3>2, <3>3 DEF PersistChanges
    <2>2. CASE PersistSyncs
      <3>1. after' \in SUBSET Records
        BY <2>2 DEF PersistSyncs, Records
      <3>2. io' \in Ios
        BY <2>2 DEF PersistSyncs, Ios, Records, Free
      <3> QED BY <2>2, <3>1, <3>2 DEF PersistSyncs
    <2>3. CASE PersistFails
      <3>1. cursor' \in Cursors
        BY <2>3 DEF PersistFails, Cursors, Ios
      <3>2. io' \in Ios
        BY <2>3 DEF PersistFails, Ios, Records, Free
      <3>3. faults' \in Nat
        BY <2>3 DEF PersistFails
      <3> QED BY <2>3, <3>1, <3>2, <3>3 DEF PersistFails
    <2> QED
      BY <1>4, <2>1, <2>2, <2>3 DEF Persist
  <1>5. CASE Stop
    <2>1. CASE StopLocks
      <3>1. lock' \in Locks
        BY <2>1 DEF StopLocks, Locks, Free
      <3>2. stop' \in Stops
        BY <2>1 DEF StopLocks, Stops
      <3> QED BY <2>1, <3>1, <3>2 DEF StopLocks
    <2>2. CASE StopJoins
      <3>1. lock' \in Locks
        BY <2>2 DEF StopJoins, Locks, Free
      <3>2. stop' \in Stops
        BY <2>2 DEF StopJoins, Stops
      <3> QED BY <2>2, <3>1, <3>2 DEF StopJoins
    <2>3. CASE StopDrains
      <3>1. lock' \in Locks
        BY <2>3 DEF StopDrains, Locks, Free
      <3>2. stop' \in Stops
        BY <2>3 DEF StopDrains, Stops
      <3> QED BY <2>3, <3>1, <3>2 DEF StopDrains
    <2>4. CASE StopCloses
      <3>1. cursor' \in Cursors
        BY <2>4 DEF StopCloses, Cursors, FreshCursor
      <3>2. io' \in Ios
        BY <2>4 DEF StopCloses, Ios, Records, Free, FreshIo, NoRecord
      <3>3. stop' \in Stops
        BY <2>4 DEF StopCloses, Stops
      <3> QED BY <2>4, <3>1, <3>2, <3>3 DEF StopCloses
    <2>5. CASE StopSettles
      <3>1. entry' \in Entries
        <4>1. \/ entry' = entry \/ entry' = FreshEntry
              \/ entry' = [entry EXCEPT !.id = 0, !.source = "none", !.closed = TRUE]
          BY <2>5 DEF StopSettles
        <4>2. FreshEntry \in Entries
          BY DEF Entries, FreshEntry
        <4>3. [entry EXCEPT !.id = 0, !.source = "none", !.closed = TRUE] \in Entries
          BY DEF Entries
        <4> QED BY <4>1, <4>2, <4>3
      <3>2. cursor' \in Cursors
        <4>1. cursor' = cursor \/ cursor' = FreshCursor
          BY <2>5 DEF StopSettles
        <4>2. FreshCursor \in Cursors
          BY DEF Cursors, FreshCursor
        <4> QED BY <4>1, <4>2
      <3>3. auth' \in Authorities
        <4>1. auth' = auth \/ auth' = NoAuth
          BY <2>5 DEF StopSettles
        <4>2. NoAuth \in Authorities
          BY DEF Authorities, NoAuth
        <4> QED BY <4>1, <4>2
      <3>4. stage' \in [ProducerKinds -> Stages]
        BY <2>5 DEF StopSettles, Stages, Owning
      <3>5. ingest' \in [ProducerKinds -> Ingests]
        <4>1. \/ ingest' = ingest
              \/ ingest' = [k \in ProducerKinds |-> [ingest[k] EXCEPT !.live = FALSE]]
          BY <2>5 DEF StopSettles
        <4> QED BY <4>1 DEF Ingests
      <3>6. lock' \in Locks
        BY <2>5 DEF StopSettles, Locks, Free, FreshLocks
      <3>7. io' \in Ios
        BY <2>5 DEF StopSettles, Ios, Records, Free, FreshIo, NoRecord
      <3>8. stop' \in Stops
        <4>1. \/ stop' = [stop EXCEPT !.at = "failed"] \/ stop' = [stop EXCEPT !.at = "done"]
              \/ stop' = [at |-> "none", delete |-> FALSE]
          BY <2>5 DEF StopSettles
        <4>2. /\ [stop EXCEPT !.at = "failed"] \in Stops /\ [stop EXCEPT !.at = "done"] \in Stops
              /\ [at |-> "none", delete |-> FALSE] \in Stops
          BY DEF Stops
        <4> QED BY <4>1, <4>2
      <3>9. status' \in Statuses
        BY <2>5 DEF StopSettles, Statuses
      <3>10. deleted' \in SUBSET Nat
        BY <2>5 DEF StopSettles
      <3> QED
        BY <2>5, <3>1, <3>2, <3>3, <3>4, <3>5, <3>6, <3>7, <3>8, <3>9, <3>10
           DEF StopSettles
    <2> QED
      BY <1>5, <2>1, <2>2, <2>3, <2>4, <2>5 DEF Stop
  <1>6. CASE InitLoads
    <2>1. minted' \in Nat
      BY <1>6 DEF InitLoads, Records
    <2>2. init' \in Inits
      BY <1>6, StartIsNumber, IntervalAssumption
         DEF InitLoads, Inits, IntervalAssumption, Records
    <2>3. io' \in Ios
      BY <1>6, StartIsNumber, IntervalAssumption
         DEF InitLoads, Ios, Records, Free, IntervalAssumption
    <2> QED BY <1>6, <2>1, <2>2, <2>3 DEF InitLoads
  <1>7. CASE InitSettles
    <2>1. entry' \in Entries
      BY <1>7 DEF InitSettles, Entries, Inits, Records
    <2>2. cursor' \in Cursors
      <3>1. \/ cursor' = cursor
            \/ cursor' = [FreshCursor EXCEPT !.next = init.rec.next, !.reserved = init.rec.reserved]
        BY <1>7 DEF InitSettles
      <3> QED BY <3>1 DEF Cursors, FreshCursor, Inits
    <2>3. lock' \in Locks
      BY <1>7 DEF InitSettles, Locks, Free, FreshLocks
    <2>4. init' \in Inits
      BY <1>7 DEF InitSettles, Inits, NoRecord
    <2>5. io' \in Ios
      BY <1>7 DEF InitSettles, Ios, Records, Free, FreshIo, NoRecord
    <2> QED BY <1>7, <2>1, <2>2, <2>3, <2>4, <2>5 DEF InitSettles
  <1>8. CASE Delete
    <2>1. entry' \in Entries
      BY <1>8 DEF Delete, StopAdmissions, Entries
    <2>2. auth' \in Authorities
      BY <1>8 DEF Delete, StopAdmissions, Authorities
    <2>3. stop' \in Stops
      BY <1>8 DEF Delete, StopAdmissions, Stops
    <2>4. status' \in Statuses
      BY <1>8 DEF Delete, StopAdmissions, Statuses
    <2> QED BY <1>8, <2>1, <2>2, <2>3, <2>4 DEF Delete
  <1>9. CASE Shutdown
    <2>1. phase' \in Phases
      BY <1>9 DEF Shutdown, StopAdmissions, Phases
    <2>2. entry' \in Entries
      BY <1>9 DEF Shutdown, StopAdmissions, Entries
    <2>3. auth' \in Authorities
      BY <1>9 DEF Shutdown, StopAdmissions, Authorities
    <2>4. stop' \in Stops
      BY <1>9 DEF Shutdown, StopAdmissions, Stops
    <2>5. status' \in Statuses
      BY <1>9 DEF Shutdown, StopAdmissions, Statuses
    <2> QED BY <1>9, <2>1, <2>2, <2>3, <2>4, <2>5 DEF Shutdown
  <1>10. CASE Down
    <2>1. phase' \in Phases
      BY <1>10 DEF Down, Phases
    <2> QED BY <1>10, <2>1 DEF Down
  <1>11. CASE Crash
    <2>1. disk' \in Records
      BY <1>11 DEF Crash, Records
    <2>2. after' \in SUBSET Records
      BY <1>11 DEF Crash, Records
    <2>3. phase' \in Phases
      BY <1>11 DEF Crash, Phases
    <2>4. entry' \in Entries
      BY <1>11 DEF Crash, Entries, FreshEntry
    <2>5. cursor' \in Cursors
      BY <1>11 DEF Crash, Cursors, FreshCursor
    <2>6. auth' \in Authorities
      BY <1>11 DEF Crash, Authorities, NoAuth
    <2>7. stage' \in [ProducerKinds -> Stages]
      BY <1>11 DEF Crash, Stages, Owning
    <2>8. ingest' \in [ProducerKinds -> Ingests]
      BY <1>11 DEF Crash, Ingests
    <2>9. lock' \in Locks
      BY <1>11 DEF Crash, Locks, Free, FreshLocks
    <2>10. init' \in Inits
      BY <1>11 DEF Crash, Inits, NoRecord
    <2>11. job' \in Jobs
      BY <1>11 DEF Crash, Jobs, NoJob
    <2>12. io' \in Ios
      BY <1>11 DEF Crash, Ios, Records, Free, FreshIo, NoRecord
    <2>13. stop' \in Stops
      BY <1>11 DEF Crash, Stops
    <2>14. detach' \in Detaches
      BY <1>11 DEF Crash, Detaches
    <2>15. status' \in Statuses
      BY <1>11 DEF Crash, Statuses
    <2>16. crashes' \in Nat
      BY <1>11 DEF Crash
    <2> QED
      BY <1>11, <2>1, <2>2, <2>3, <2>4, <2>5, <2>6, <2>7, <2>8, <2>9, <2>10, <2>11, <2>12,
         <2>13, <2>14, <2>15, <2>16
         DEF Crash
  <1>12. CASE ReloadStarts
    <2>1. entry' \in Entries
      BY <1>12 DEF ReloadStarts, Initialize, Entries
    <2>2. lock' \in Locks
      BY <1>12 DEF ReloadStarts, Initialize, Locks, Free
    <2>3. init' \in Inits
      BY <1>12 DEF ReloadStarts, Initialize, Inits
    <2> QED BY <1>12, <2>1, <2>2, <2>3 DEF ReloadStarts
  <1>13. CASE Reloaded
    <2>1. phase' \in Phases
      BY <1>13 DEF Reloaded, Phases
    <2> QED BY <1>13, <2>1 DEF Reloaded
  <1>14. CASE UNCHANGED broadcastVars
    BY <1>14 DEF broadcastVars
  <1> QED
    BY <1>1, <1>2, <1>3, <1>4, <1>5, <1>6, <1>7, <1>8, <1>9, <1>10, <1>11,
       <1>12, <1>13, <1>14 DEF BroadcastNext

-----------------------------------------------------------------------------
(* Locks.                                                                  *)

\* A step leaves every lock with the task that is at work under it.
LEMMA CoordinationStep ==
    ASSUME BroadcastTypeOK, Coordinated, [BroadcastNext]_broadcastVars PROVE Coordinated'
  <1> USE DEF BroadcastTypeOK, Coordinated, Free, diskVars, entryVars, jobVars, historyVars
  <1>1. ASSUME NEW k \in ProducerKinds, Producer(k) PROVE Coordinated'
    <2>1. CASE Enter(k)
      BY <2>1 DEF Enter, Jobs, Locks, Inits, Stops, Ios, Entries
    <2>2. CASE PrepareHit(k)
      BY <2>2 DEF PrepareHit
    <2>3. CASE PrepareStart(k)
      BY <2>3 DEF PrepareStart, Initialize, Jobs, Locks, Inits, Stops, Ios, Entries, EntryOpen
    <2>4. CASE PrepareAnswers(k)
      BY <2>4 DEF PrepareAnswers
    <2>5. CASE PrepareRefused(k)
      BY <2>5 DEF PrepareRefused, Leaves, Jobs, Locks, Inits, Stops, Ios, Entries
    <2>6. CASE Claim(k)
      BY <2>6 DEF Claim
    <2>7. CASE ClaimConflicts(k)
      BY <2>7 DEF ClaimConflicts, Leaves, Jobs, Locks, Inits, Stops, Ios, Entries
    <2>8. CASE RegisterEntry(k)
      BY <2>8 DEF RegisterEntry, Jobs, Locks, Inits, Stops, Ios, Entries
    <2>9. CASE RegisterRefused(k)
      BY <2>9 DEF RegisterRefused, Leaves, Dropped, Jobs, Locks, Inits, Stops, Ios, Entries
    <2>10. CASE OpenIngest(k)
      BY <2>10 DEF OpenIngest
    <2>11. CASE ProducerEnds(k)
      BY <2>11 DEF ProducerEnds, Dropped
    <2>12. ASSUME NEW whole \in BOOLEAN, NEW last \in BOOLEAN, Publish(k, whole, last)
           PROVE Coordinated'
      BY <2>12, KindsAssumption
         DEF Publish, Jobs, Locks, Inits, Stops, Ios, Entries, SessionOpen, CursorOpen,
             KindsAssumption
    <2> QED
      BY <1>1, <2>1, <2>2, <2>3, <2>4, <2>5, <2>6, <2>7, <2>8, <2>9, <2>10, <2>11,
          <2>12 DEF Producer
  <1>2. CASE Source
    <2>1. CASE Attach
      BY <2>1 DEF Attach, Jobs, Locks, Inits, Stops, Ios, Entries
    <2>2. CASE Gate
      BY <2>2 DEF Gate, Jobs, Locks, Inits, Stops, Ios, Entries
    <2>3. CASE SourceRetries
      BY <2>3 DEF SourceRetries
    <2>4. CASE SourceWakes
      BY <2>4 DEF SourceWakes
    <2>5. CASE SourceFails
      BY <2>5 DEF SourceFails
    <2>6. CASE SourceExits
      BY <2>6 DEF SourceExits, Dropped
    <2>7. CASE Detach
      BY <2>7 DEF Detach, Jobs, Locks, Inits, Stops, Ios, Entries
    <2>8. CASE DetachGate
      BY <2>8 DEF DetachGate, Jobs, Locks, Inits, Stops, Ios, Entries
    <2>9. CASE DetachDone
      BY <2>9 DEF DetachDone, Jobs, Locks, Inits, Stops, Ios, Entries, NoAuth
    <2> QED
      BY <1>2, <2>1, <2>2, <2>3, <2>4, <2>5, <2>6, <2>7, <2>8, <2>9 DEF Source
  <1>3. CASE Job
    <2>1. CASE JobConsumes
      BY <2>1 DEF JobConsumes, Jobs, Locks, Inits, Stops, Ios, Entries
    <2>2. CASE JobReserves
      BY <2>2 DEF JobReserves, Jobs, Locks, Inits, Stops, Ios, Entries
    <2>3. CASE JobReserved
      BY <2>3 DEF JobReserved, Jobs, Locks, Inits, Stops, Ios, Entries, FreshIo, NoRecord
    <2>4. CASE JobChecks
      BY <2>4 DEF JobChecks, Jobs, Locks, Inits, Stops, Ios, Entries
    <2>5. CASE JobPuts
      BY <2>5 DEF JobPuts, Jobs, Locks, Inits, Stops, Ios, Entries
    <2>6. CASE JobCheckpoints
      BY <2>6 DEF JobCheckpoints, Jobs, Locks, Inits, Stops, Ios, Entries
    <2>7. CASE JobCheckpointed
      BY <2>7 DEF JobCheckpointed, Jobs, Locks, Inits, Stops, Ios, Entries, FreshIo, NoRecord
    <2>8. CASE JobFails
      BY <2>8 DEF JobFails, Jobs, Locks, Inits, Stops, Ios, Entries, FreshIo, NoRecord
    <2>9. CASE JobEnds
      BY <2>9 DEF JobEnds, Jobs, Locks, Inits, Stops, Ios, Entries, NoJob
    <2> QED
      BY <1>3, <2>1, <2>2, <2>3, <2>4, <2>5, <2>6, <2>7, <2>8, <2>9 DEF Job
  <1>4. CASE Persist
    <2>1. CASE PersistChanges
      BY <2>1 DEF PersistChanges, Jobs, Locks, Inits, Stops, Ios, Entries
    <2>2. CASE PersistSyncs
      BY <2>2 DEF PersistSyncs, Jobs, Locks, Inits, Stops, Ios, Entries
    <2>3. CASE PersistFails
      BY <2>3 DEF PersistFails, Jobs, Locks, Inits, Stops, Ios, Entries
    <2> QED
      BY <1>4, <2>1, <2>2, <2>3 DEF Persist
  <1>5. CASE Stop
    <2>1. CASE StopLocks
      BY <2>1 DEF StopLocks, Jobs, Locks, Inits, Stops, Ios, Entries
    <2>2. CASE StopJoins
      BY <2>2 DEF StopJoins, Jobs, Locks, Inits, Stops, Ios, Entries
    <2>3. CASE StopDrains
      BY <2>3 DEF StopDrains, Jobs, Locks, Inits, Stops, Ios, Entries
    <2>4. CASE StopCloses
      BY <2>4 DEF StopCloses, Jobs, Locks, Inits, Stops, Ios, Entries, NoRecord
    <2>5. CASE StopSettles
      <3>1. /\ stop.at = "unlink" /\ io' = FreshIo
            /\ lock' = [lock EXCEPT !.lifecycle = Free, !.operation = Free, !.publication = Free]
            /\ job' = job /\ init' = init
        BY <2>5 DEF StopSettles
      <3>2. CASE ~io.ok
        <4>1. stop' = [stop EXCEPT !.at = "failed"] /\ entry' = entry
          BY <2>5, <3>2 DEF StopSettles
        <4> QED BY <3>1, <4>1 DEF FreshIo, NoRecord, Jobs, Locks, Inits, Stops, Ios
      <3>3. CASE io.ok /\ stop.delete
        <4>1. stop' = [at |-> "none", delete |-> FALSE] /\ entry' = FreshEntry
          BY <2>5, <3>3 DEF StopSettles
        <4> QED BY <3>1, <4>1 DEF FreshEntry, FreshIo, NoRecord, Jobs, Locks, Inits, Ios
      <3>4. CASE io.ok /\ ~stop.delete
        <4>1. /\ stop' = [stop EXCEPT !.at = "done"]
              /\ entry' = [entry EXCEPT !.id = 0, !.source = "none", !.closed = TRUE]
          BY <2>5, <3>4 DEF StopSettles
        <4> QED BY <3>1, <4>1 DEF FreshIo, NoRecord, Jobs, Locks, Inits, Stops, Ios, Entries
      <3> QED BY <3>2, <3>3, <3>4
    <2> QED
      BY <1>5, <2>1, <2>2, <2>3, <2>4, <2>5 DEF Stop
  <1>6. CASE InitLoads
    BY <1>6 DEF InitLoads, Jobs, Locks, Inits, Stops, Ios, Entries, NoRecord
  <1>7. CASE InitSettles
    BY <1>7
       DEF InitSettles, Jobs, Locks, Inits, Stops, Ios, Entries, FreshCursor, FreshIo,
           NoRecord
  <1>8. CASE Delete
    BY <1>8 DEF Delete, StopAdmissions, Jobs, Locks, Inits, Stops, Ios, Entries
  <1>9. CASE Shutdown
    BY <1>9 DEF Shutdown, StopAdmissions, Jobs, Locks, Inits, Stops, Ios, Entries
  <1>10. CASE Down
    BY <1>10 DEF Down
  <1>11. CASE Crash
    BY <1>11
       DEF Crash, Jobs, Locks, Inits, Stops, Ios, Entries, FreshEntry, FreshCursor, FreshIo,
           FreshLocks, NoRecord, NoAuth, NoJob
  <1>12. CASE ReloadStarts
    BY <1>12 DEF ReloadStarts, Initialize, Jobs, Locks, Inits, Stops, Ios, Entries
  <1>13. CASE Reloaded
    BY <1>13 DEF Reloaded
  <1>14. CASE UNCHANGED broadcastVars
    BY <1>14 DEF broadcastVars
  <1> QED
    BY <1>1, <1>2, <1>3, <1>4, <1>5, <1>6, <1>7, <1>8, <1>9, <1>10, <1>11,
       <1>12, <1>13, <1>14 DEF BroadcastNext

-----------------------------------------------------------------------------
(* Owners.                                                                 *)

\* A step gives the claim to one producer at most, and only when it is quiescent.
LEMMA OwnershipStep ==
    ASSUME BroadcastTypeOK, Coordinated, Owned, [BroadcastNext]_broadcastVars PROVE Owned'
  <1> USE DEF BroadcastTypeOK, Coordinated, Owned, OneProducer, DetachIsFinal, Owning, Free,
              diskVars, entryVars, jobVars, historyVars
  <1>1. ASSUME NEW k \in ProducerKinds, Producer(k) PROVE Owned'
    <2>1. CASE Enter(k)
      BY <2>1 DEF Enter, Stages, Authorities, Entries, Jobs, Ingests
    <2>2. CASE PrepareHit(k)
      BY <2>2 DEF PrepareHit, Stages, Authorities, Entries, Jobs, Ingests, EntryOpen
    <2>3. CASE PrepareStart(k)
      BY <2>3
         DEF PrepareStart, Initialize, Stages, Authorities, Entries, Jobs, Ingests,
             EntryOpen
    <2>4. CASE PrepareAnswers(k)
      BY <2>4 DEF PrepareAnswers, Stages, Authorities, Entries, Jobs, Ingests, EntryOpen
    <2>5. CASE PrepareRefused(k)
      BY <2>5 DEF PrepareRefused, Leaves, Stages, Authorities, Entries, Jobs, Ingests
    <2>6. CASE Claim(k)
      BY <2>6, KindsAssumption
         DEF Claim, Stages, Authorities, Entries, Jobs, Ingests, EntryOpen, Quiescent,
             CursorOpen, Locks
    <2>7. CASE ClaimConflicts(k)
      BY <2>7 DEF ClaimConflicts, Leaves, Stages, Authorities, Entries, Jobs, Ingests
    <2>8. CASE RegisterEntry(k)
      BY <2>8
         DEF RegisterEntry, Stages, Authorities, Entries, Jobs, Ingests, EntryOpen,
             SessionOpen, CursorOpen, Locks
    <2>9. CASE RegisterRefused(k)
      BY <2>9 DEF RegisterRefused, Leaves, Dropped, Stages, Authorities, Entries, Jobs, Ingests
    <2>10. CASE OpenIngest(k)
      BY <2>10
         DEF OpenIngest, Stages, Authorities, Entries, Jobs, Ingests, SessionOpen,
             CursorOpen
    <2>11. CASE ProducerEnds(k)
      BY <2>11 DEF ProducerEnds, Dropped, Stages, Authorities, Entries, Jobs, Ingests
    <2>12. ASSUME NEW whole \in BOOLEAN, NEW last \in BOOLEAN, Publish(k, whole, last)
           PROVE Owned'
      BY <2>12, KindsAssumption
         DEF Publish, Stages, Authorities, Entries, Jobs, Ingests, SessionOpen, CursorOpen,
             KindsAssumption, Locks
    <2> QED
      BY <1>1, <2>1, <2>2, <2>3, <2>4, <2>5, <2>6, <2>7, <2>8, <2>9, <2>10, <2>11,
          <2>12 DEF Producer
  <1>2. CASE Source
    <2>1. CASE Attach
      BY <2>1 DEF Attach, Stages, Authorities, Entries, Jobs, Ingests
    <2>2. CASE Gate
      BY <2>2 DEF Gate, Stages, Authorities, Entries, Jobs, Ingests
    <2>3. CASE SourceRetries
      BY <2>3 DEF SourceRetries, Stages, Authorities, Entries, Jobs, Ingests
    <2>4. CASE SourceWakes
      BY <2>4 DEF SourceWakes, Stages, Authorities, Entries, Jobs, Ingests
    <2>5. CASE SourceFails
      BY <2>5 DEF SourceFails, Stages, Authorities, Entries, Jobs, Ingests
    <2>6. CASE SourceExits
      BY <2>6 DEF SourceExits, Dropped, Stages, Authorities, Entries, Jobs, Ingests
    <2>7. CASE Detach
      BY <2>7 DEF Detach, Stages, Authorities, Entries, Jobs, Ingests
    <2>8. CASE DetachGate
      BY <2>8 DEF DetachGate
    <2>9. CASE DetachDone
      BY <2>9 DEF DetachDone, Stages, Authorities, Entries, Jobs, Ingests, DetachJoined, NoAuth
    <2> QED
      BY <1>2, <2>1, <2>2, <2>3, <2>4, <2>5, <2>6, <2>7, <2>8, <2>9 DEF Source
  <1>3. CASE Job
    <2>1. CASE JobConsumes
      BY <2>1 DEF JobConsumes, Stages, Authorities, Entries, Jobs, Ingests
    <2>2. CASE JobReserves
      BY <2>2 DEF JobReserves, Stages, Authorities, Entries, Jobs, Ingests
    <2>3. CASE JobReserved
      BY <2>3 DEF JobReserved, Stages, Authorities, Entries, Jobs, Ingests, FreshIo, NoRecord
    <2>4. CASE JobChecks
      BY <2>4 DEF JobChecks, Stages, Authorities, Entries, Jobs, Ingests
    <2>5. CASE JobPuts
      BY <2>5 DEF JobPuts, Stages, Authorities, Entries, Jobs, Ingests
    <2>6. CASE JobCheckpoints
      BY <2>6 DEF JobCheckpoints, Stages, Authorities, Entries, Jobs, Ingests
    <2>7. CASE JobCheckpointed
      BY <2>7
         DEF JobCheckpointed, Stages, Authorities, Entries, Jobs, Ingests, FreshIo, NoRecord
    <2>8. CASE JobFails
      BY <2>8 DEF JobFails, Stages, Authorities, Entries, Jobs, Ingests, FreshIo, NoRecord
    <2>9. CASE JobEnds
      BY <2>9 DEF JobEnds, Stages, Authorities, Entries, Jobs, Ingests, NoJob
    <2> QED
      BY <1>3, <2>1, <2>2, <2>3, <2>4, <2>5, <2>6, <2>7, <2>8, <2>9 DEF Job
  <1>4. CASE Persist
    <2>1. CASE PersistChanges
      BY <2>1 DEF PersistChanges
    <2>2. CASE PersistSyncs
      BY <2>2 DEF PersistSyncs
    <2>3. CASE PersistFails
      BY <2>3 DEF PersistFails
    <2> QED
      BY <1>4, <2>1, <2>2, <2>3 DEF Persist
  <1>5. CASE Stop
    <2>1. CASE StopLocks
      BY <2>1 DEF StopLocks
    <2>2. CASE StopJoins
      BY <2>2 DEF StopJoins
    <2>3. CASE StopDrains
      BY <2>3 DEF StopDrains
    <2>4. CASE StopCloses
      BY <2>4 DEF StopCloses
    <2>5. CASE StopSettles
      <3>1. job.at = "none" /\ job' = job /\ (job.kind = "none")
        BY <2>5 DEF StopSettles
      <3>2. CASE ~io.ok
        <4>1. UNCHANGED <<entry, auth, stage, ingest>>
          BY <2>5, <3>2 DEF StopSettles
        <4> QED BY <3>1, <4>1
      <3>3. CASE io.ok /\ stop.delete
        <4>1. /\ entry' = FreshEntry /\ stage' = [k \in ProducerKinds |-> "idle"]
              /\ ingest' = [k \in ProducerKinds |-> [ingest[k] EXCEPT !.live = FALSE]]
          BY <2>5, <3>3 DEF StopSettles
        <4> QED BY <3>1, <4>1 DEF FreshEntry, Ingests
      <3>4. CASE io.ok /\ ~stop.delete
        <4>1. /\ UNCHANGED <<stage, ingest>> /\ auth' = NoAuth
              /\ entry' = [entry EXCEPT !.id = 0, !.source = "none", !.closed = TRUE]
          BY <2>5, <3>4 DEF StopSettles
        <4> QED BY <3>1, <4>1 DEF Entries
      <3> QED BY <3>2, <3>3, <3>4
    <2> QED
      BY <1>5, <2>1, <2>2, <2>3, <2>4, <2>5 DEF Stop
  <1>6. CASE InitLoads
    BY <1>6 DEF InitLoads
  <1>7. CASE InitSettles
    BY <1>7
       DEF InitSettles, Stages, Authorities, Entries, Jobs, Ingests, FreshCursor, FreshIo,
           NoRecord
  <1>8. CASE Delete
    BY <1>8 DEF Delete, StopAdmissions, Stages, Authorities, Entries, Jobs, Ingests
  <1>9. CASE Shutdown
    BY <1>9 DEF Shutdown, StopAdmissions, Stages, Authorities, Entries, Jobs, Ingests
  <1>10. CASE Down
    BY <1>10 DEF Down
  <1>11. CASE Crash
    BY <1>11
       DEF Crash, Stages, Authorities, Entries, Jobs, Ingests, FreshEntry, FreshCursor,
           FreshIo, FreshLocks, NoRecord, NoAuth, NoJob
  <1>12. CASE ReloadStarts
    BY <1>12 DEF ReloadStarts, Initialize, Stages, Authorities, Entries, Jobs, Ingests
  <1>13. CASE Reloaded
    BY <1>13 DEF Reloaded
  <1>14. CASE UNCHANGED broadcastVars
    BY <1>14 DEF broadcastVars
  <1> QED
    BY <1>1, <1>2, <1>3, <1>4, <1>5, <1>6, <1>7, <1>8, <1>9, <1>10, <1>11,
       <1>12, <1>13, <1>14 DEF BroadcastNext

-----------------------------------------------------------------------------
(* Records.                                                                *)

\* A step keeps every record that may survive at or past the reservation in use.
LEMMA RecordStep ==
    ASSUME BroadcastTypeOK, Coordinated, Owned, Recorded, [BroadcastNext]_broadcastVars
    PROVE  Recorded'
  <1> USE DEF BroadcastTypeOK, Coordinated, Recorded, Free, diskVars, entryVars, jobVars,
              historyVars
  <1>1. ASSUME NEW k \in ProducerKinds, Producer(k) PROVE Recorded'
    <2>1. CASE Enter(k)
      BY <2>1 DEF Enter, Records, Ios, Stops, Entries, Cursors, Jobs, Inits, Locks
    <2>2. CASE PrepareHit(k)
      BY <2>2 DEF PrepareHit
    <2>3. CASE PrepareStart(k)
      BY <2>3 DEF PrepareStart, Initialize
    <2>4. CASE PrepareAnswers(k)
      BY <2>4 DEF PrepareAnswers
    <2>5. CASE PrepareRefused(k)
      BY <2>5 DEF PrepareRefused, Leaves
    <2>6. CASE Claim(k)
      BY <2>6 DEF Claim
    <2>7. CASE ClaimConflicts(k)
      BY <2>7 DEF ClaimConflicts, Leaves
    <2>8. CASE RegisterEntry(k)
      BY <2>8 DEF RegisterEntry, Records, Ios, Stops, Entries, Cursors, Jobs, Inits, Locks
    <2>9. CASE RegisterRefused(k)
      BY <2>9 DEF RegisterRefused, Leaves, Dropped
    <2>10. CASE OpenIngest(k)
      BY <2>10 DEF OpenIngest
    <2>11. CASE ProducerEnds(k)
      BY <2>11 DEF ProducerEnds, Dropped
    <2>12. ASSUME NEW whole \in BOOLEAN, NEW last \in BOOLEAN, Publish(k, whole, last)
           PROVE Recorded'
      BY <2>12
         DEF Publish, Records, Ios, Stops, Entries, Cursors, Jobs, SessionOpen, CursorOpen,
             Inits, Locks
    <2> QED
      BY <1>1, <2>1, <2>2, <2>3, <2>4, <2>5, <2>6, <2>7, <2>8, <2>9, <2>10, <2>11,
          <2>12 DEF Producer
  <1>2. CASE Source
    <2>1. CASE Attach
      BY <2>1 DEF Attach, Records, Ios, Stops, Entries, Cursors, Jobs, Inits, Locks
    <2>2. CASE Gate
      BY <2>2 DEF Gate
    <2>3. CASE SourceRetries
      BY <2>3 DEF SourceRetries
    <2>4. CASE SourceWakes
      BY <2>4 DEF SourceWakes
    <2>5. CASE SourceFails
      BY <2>5 DEF SourceFails
    <2>6. CASE SourceExits
      BY <2>6 DEF SourceExits, Dropped
    <2>7. CASE Detach
      BY <2>7 DEF Detach, Records, Ios, Stops, Entries, Cursors, Jobs, Inits, Locks
    <2>8. CASE DetachGate
      BY <2>8 DEF DetachGate
    <2>9. CASE DetachDone
      BY <2>9 DEF DetachDone, Records, Ios, Stops, Entries, Cursors, Jobs, NoAuth, Inits, Locks
    <2> QED
      BY <1>2, <2>1, <2>2, <2>3, <2>4, <2>5, <2>6, <2>7, <2>8, <2>9 DEF Source
  <1>3. CASE Job
    <2>1. CASE JobConsumes
      <3>1. /\ job.at = "check" /\ job.piece < cursor.reserved /\ job' = [job EXCEPT !.at = "store"]
            /\ cursor' = [cursor EXCEPT !.next = IF cursor.next >= job.piece + 1
                                                 THEN cursor.next ELSE job.piece + 1]
            /\ UNCHANGED <<disk, after, io, stop, entry>>
        <4>1. cursor.next \in Int /\ job.piece + 1 \in Int
          BY DEF Cursors, Jobs
        <4> QED BY <2>1, <4>1, MaxOfTwo DEF JobConsumes
      <3> QED BY <3>1 DEF Cursors, Jobs
    <2>2. CASE JobReserves
      BY <2>2, ExtensionCovers
         DEF JobReserves, Records, Ios, Stops, Entries, Cursors, Jobs, Inits, Locks
    <2>3. CASE JobReserved
      <3>1. /\ cursor' = [cursor EXCEPT !.reserved = IF cursor.reserved >= io.rec.reserved
                                                     THEN cursor.reserved ELSE io.rec.reserved,
                                        !.next = IF cursor.next >= job.piece + 1
                                                 THEN cursor.next ELSE job.piece + 1]
            /\ job.at = "reserve" /\ io.at = "done" /\ io.ok
            /\ job' = [job EXCEPT !.at = "store"] /\ io' = FreshIo
            /\ UNCHANGED <<disk, after, stop, entry>>
        <4>1. /\ cursor.next \in Int /\ job.piece + 1 \in Int
              /\ cursor.reserved \in Int /\ io.rec.reserved \in Int
          BY DEF Cursors, Jobs, Ios, Records
        <4> QED BY <2>3, <4>1, MaxOfTwo DEF JobReserved
      <3>2. after = {io.rec} /\ io.rec.reserved >= cursor.reserved /\ io.rec.reserved > job.piece
        BY <3>1
      <3>3. /\ cursor'.next \in Nat /\ cursor'.reserved = io.rec.reserved
            /\ cursor'.next <= cursor'.reserved
        BY <3>1, <3>2 DEF Cursors, Jobs, Ios, Records
      <3> QED BY <3>1, <3>2, <3>3 DEF FreshIo, NoRecord, Jobs, Ios, Records
    <2>4. CASE JobChecks
      BY <2>4 DEF JobChecks, Records, Ios, Stops, Entries, Cursors, Jobs, Inits, Locks
    <2>5. CASE JobPuts
      BY <2>5 DEF JobPuts, Records, Ios, Stops, Entries, Cursors, Jobs, Inits, Locks
    <2>6. CASE JobCheckpoints
      BY <2>6 DEF JobCheckpoints, Records, Ios, Stops, Entries, Cursors, Jobs, Inits, Locks
    <2>7. CASE JobCheckpointed
      BY <2>7
         DEF JobCheckpointed, Records, Ios, Stops, Entries, Cursors, Jobs, FreshIo,
             NoRecord, Inits, Locks
    <2>8. CASE JobFails
      BY <2>8
         DEF JobFails, Records, Ios, Stops, Entries, Cursors, Jobs, FreshIo, NoRecord,
             Inits, Locks
    <2>9. CASE JobEnds
      BY <2>9 DEF JobEnds, Records, Ios, Stops, Entries, Cursors, Jobs, NoJob, Inits, Locks
    <2> QED
      BY <1>3, <2>1, <2>2, <2>3, <2>4, <2>5, <2>6, <2>7, <2>8, <2>9 DEF Job
  <1>4. CASE Persist
    <2>1. CASE PersistChanges
      <3>1. /\ io.at = "write" /\ disk' = io.rec /\ after' = after \cup {io.rec}
            /\ io' = [io EXCEPT !.at = "sync"] /\ UNCHANGED <<entry, cursor, job, stop, init>>
        BY <2>1 DEF PersistChanges
      <3>2. io'.by = io.by /\ io'.at = "sync" /\ io'.rec = io.rec
        BY <3>1 DEF Ios
      <3>3. entry.id # 0 /\ io.rec.id = entry.id => io.rec.reserved >= cursor.reserved
        <4>1. io.by \in {"init", "job", "stop"}
          BY <3>1 DEF Ios
        <4>2. io.by = "stop" => io.rec.id = 0
          BY <3>1 DEF NoRecord
        <4> QED BY <4>1, <4>2
      <3> QED BY <3>1, <3>2, <3>3
    <2>2. CASE PersistSyncs
      BY <2>2 DEF PersistSyncs, Records, Ios, Stops, Entries, Cursors, Jobs, Inits, Locks
    <2>3. CASE PersistFails
      BY <2>3 DEF PersistFails, Records, Ios, Stops, Entries, Cursors, Jobs, Inits, Locks
    <2> QED
      BY <1>4, <2>1, <2>2, <2>3 DEF Persist
  <1>5. CASE Stop
    <2>1. CASE StopLocks
      BY <2>1 DEF StopLocks, Records, Ios, Stops, Entries, Cursors, Jobs, Inits, Locks
    <2>2. CASE StopJoins
      BY <2>2 DEF StopJoins, Records, Ios, Stops, Entries, Cursors, Jobs, Inits, Locks
    <2>3. CASE StopDrains
      BY <2>3 DEF StopDrains, Records, Ios, Stops, Entries, Cursors, Jobs, Inits, Locks
    <2>4. CASE StopCloses
      BY <2>4
         DEF StopCloses, Records, Ios, Stops, Entries, Cursors, Jobs, NoRecord, Inits, Locks
    <2>5. CASE StopSettles
      <3>1. io' = FreshIo /\ UNCHANGED <<disk, after, job>> /\ job.at = "none"
        BY <2>5 DEF StopSettles
      <3>2. CASE ~io.ok
        <4>1. UNCHANGED <<entry, cursor>>
          BY <2>5, <3>2 DEF StopSettles
        <4> QED BY <3>1, <4>1 DEF FreshIo
      <3>3. CASE io.ok /\ stop.delete
        <4>1. entry' = FreshEntry /\ cursor' = FreshCursor
          BY <2>5, <3>3 DEF StopSettles
        <4> QED BY <3>1, <4>1 DEF FreshEntry, FreshCursor, FreshIo
      <3>4. CASE io.ok /\ ~stop.delete
        <4>1. cursor' = cursor /\ entry'.id = 0
          BY <2>5, <3>4 DEF StopSettles, Entries
        <4> QED BY <3>1, <4>1 DEF FreshIo
      <3> QED BY <3>2, <3>3, <3>4
    <2> QED
      BY <1>5, <2>1, <2>2, <2>3, <2>4, <2>5 DEF Stop
  <1>6. CASE InitLoads
    <2>1. /\ io' = [by |-> "init", at |-> "write", rec |-> init'.rec, ok |-> FALSE]
          /\ init.at = "load" /\ entry.id = 0
          /\ UNCHANGED <<disk, after, stop, entry, cursor, job>>
      BY <1>6 DEF InitLoads
    <2>2. init'.rec.next <= init'.rec.reserved
      <3>1. PICK start \in Nat : init'.rec.next = start /\ init'.rec.reserved = start + Interval
        BY <1>6, StartIsNumber DEF InitLoads
      <3> QED BY <3>1, IntervalAssumption DEF IntervalAssumption
    <2>3. job.at \notin {"reserve", "checkpointing"}
      BY <1>6 DEF InitLoads
    <2> QED BY <2>1, <2>2, <2>3
  <1>7. CASE InitSettles
    <2>1. /\ io.by = "init" /\ io.at = "done" /\ io' = FreshIo /\ init.rec = io.rec
          /\ UNCHANGED <<disk, after, stop, job>> /\ job.at \notin {"reserve", "checkpointing"}
      BY <1>7 DEF InitSettles
    <2>2. CASE io.ok /\ ~Closing /\ ~entry.stopping
      <3>1. /\ entry' = [entry EXCEPT !.id = init.rec.id]
            /\ cursor' = [FreshCursor EXCEPT !.next = init.rec.next,
                                             !.reserved = init.rec.reserved]
        BY <1>7, <2>2 DEF InitSettles
      <3>2. /\ entry'.id = io.rec.id /\ cursor'.next = io.rec.next
            /\ cursor'.reserved = io.rec.reserved
        BY <2>1, <3>1 DEF Entries, FreshCursor
      <3> QED BY <2>1, <2>2, <3>2 DEF FreshIo, Ios, Records, Inits
    <2>3. CASE ~(io.ok /\ ~Closing /\ ~entry.stopping)
      <3>1. entry'.id = entry.id /\ cursor' = cursor
        BY <1>7, <2>3 DEF InitSettles, Entries
      <3> QED BY <2>1, <3>1 DEF FreshIo
    <2> QED BY <2>2, <2>3
  <1>8. CASE Delete
    BY <1>8
       DEF Delete, StopAdmissions, Records, Ios, Stops, Entries, Cursors, Jobs, Inits, Locks
  <1>9. CASE Shutdown
    BY <1>9
       DEF Shutdown, StopAdmissions, Records, Ios, Stops, Entries, Cursors, Jobs, Inits,
           Locks
  <1>10. CASE Down
    BY <1>10 DEF Down
  <1>11. CASE Crash
    BY <1>11
       DEF Crash, Records, Ios, Stops, Entries, Cursors, Jobs, FreshEntry, FreshCursor,
           FreshIo, FreshLocks, NoRecord, NoAuth, NoJob, Inits, Locks
  <1>12. CASE ReloadStarts
    BY <1>12
       DEF ReloadStarts, Initialize, Records, Ios, Stops, Entries, Cursors, Jobs, Inits,
           Locks
  <1>13. CASE Reloaded
    BY <1>13 DEF Reloaded
  <1>14. CASE UNCHANGED broadcastVars
    BY <1>14 DEF broadcastVars
  <1> QED
    BY <1>1, <1>2, <1>3, <1>4, <1>5, <1>6, <1>7, <1>8, <1>9, <1>10, <1>11,
       <1>12, <1>13, <1>14 DEF BroadcastNext

-----------------------------------------------------------------------------
(* Identities.                                                             *)

\* A step uses no identity that was not minted, and none that was deleted.
LEMMA IdentityStep ==
    ASSUME BroadcastTypeOK, Coordinated, Owned, Recorded, Identified, [BroadcastNext]_broadcastVars
    PROVE  Identified'
  <1> USE DEF BroadcastTypeOK, Coordinated, Owned, Recorded, Identified, Free, diskVars,
              entryVars, jobVars, historyVars
  <1>1. ASSUME NEW k \in ProducerKinds, Producer(k) PROVE Identified'
    <2>1. CASE Enter(k)
      BY <2>1 DEF Enter, Records, Ios, Entries
    <2>2. CASE PrepareHit(k)
      BY <2>2 DEF PrepareHit
    <2>3. CASE PrepareStart(k)
      BY <2>3 DEF PrepareStart, Initialize
    <2>4. CASE PrepareAnswers(k)
      BY <2>4 DEF PrepareAnswers
    <2>5. CASE PrepareRefused(k)
      BY <2>5 DEF PrepareRefused, Leaves
    <2>6. CASE Claim(k)
      BY <2>6 DEF Claim
    <2>7. CASE ClaimConflicts(k)
      BY <2>7 DEF ClaimConflicts, Leaves
    <2>8. CASE RegisterEntry(k)
      BY <2>8 DEF RegisterEntry, Records, Ios, Entries
    <2>9. CASE RegisterRefused(k)
      BY <2>9 DEF RegisterRefused, Leaves, Dropped
    <2>10. CASE OpenIngest(k)
      BY <2>10 DEF OpenIngest
    <2>11. CASE ProducerEnds(k)
      BY <2>11 DEF ProducerEnds, Dropped
    <2>12. ASSUME NEW whole \in BOOLEAN, NEW last \in BOOLEAN, Publish(k, whole, last)
           PROVE Identified'
      BY <2>12 DEF Publish
    <2> QED
      BY <1>1, <2>1, <2>2, <2>3, <2>4, <2>5, <2>6, <2>7, <2>8, <2>9, <2>10, <2>11,
          <2>12 DEF Producer
  <1>2. CASE Source
    <2>1. CASE Attach
      BY <2>1 DEF Attach, Records, Ios, Entries
    <2>2. CASE Gate
      BY <2>2 DEF Gate
    <2>3. CASE SourceRetries
      BY <2>3 DEF SourceRetries
    <2>4. CASE SourceWakes
      BY <2>4 DEF SourceWakes
    <2>5. CASE SourceFails
      BY <2>5 DEF SourceFails
    <2>6. CASE SourceExits
      BY <2>6 DEF SourceExits, Dropped
    <2>7. CASE Detach
      BY <2>7 DEF Detach, Records, Ios, Entries
    <2>8. CASE DetachGate
      BY <2>8 DEF DetachGate
    <2>9. CASE DetachDone
      BY <2>9 DEF DetachDone, Records, Ios, Entries, NoAuth
    <2> QED
      BY <1>2, <2>1, <2>2, <2>3, <2>4, <2>5, <2>6, <2>7, <2>8, <2>9 DEF Source
  <1>3. CASE Job
    <2>1. CASE JobConsumes
      BY <2>1 DEF JobConsumes
    <2>2. CASE JobReserves
      BY <2>2 DEF JobReserves, Records, Ios, Entries
    <2>3. CASE JobReserved
      BY <2>3 DEF JobReserved, Records, Ios, Entries, FreshIo, NoRecord
    <2>4. CASE JobChecks
      BY <2>4 DEF JobChecks
    <2>5. CASE JobPuts
      BY <2>5 DEF JobPuts, Records, Ios, Entries
    <2>6. CASE JobCheckpoints
      BY <2>6 DEF JobCheckpoints, Records, Ios, Entries
    <2>7. CASE JobCheckpointed
      BY <2>7 DEF JobCheckpointed, Records, Ios, Entries, FreshIo, NoRecord
    <2>8. CASE JobFails
      BY <2>8 DEF JobFails, Records, Ios, Entries, FreshIo, NoRecord
    <2>9. CASE JobEnds
      BY <2>9 DEF JobEnds
    <2> QED
      BY <1>3, <2>1, <2>2, <2>3, <2>4, <2>5, <2>6, <2>7, <2>8, <2>9 DEF Job
  <1>4. CASE Persist
    <2>1. CASE PersistChanges
      BY <2>1 DEF PersistChanges, Records, Ios, Entries
    <2>2. CASE PersistSyncs
      BY <2>2 DEF PersistSyncs, Records, Ios, Entries
    <2>3. CASE PersistFails
      BY <2>3 DEF PersistFails, Records, Ios, Entries
    <2> QED
      BY <1>4, <2>1, <2>2, <2>3 DEF Persist
  <1>5. CASE Stop
    <2>1. CASE StopLocks
      BY <2>1 DEF StopLocks
    <2>2. CASE StopJoins
      BY <2>2 DEF StopJoins
    <2>3. CASE StopDrains
      BY <2>3 DEF StopDrains
    <2>4. CASE StopCloses
      BY <2>4 DEF StopCloses, Records, Ios, Entries, NoRecord
    <2>5. CASE StopSettles
      <3>1. /\ UNCHANGED <<after, published, minted>> /\ io' = FreshIo
            /\ io.by = "stop" /\ io.at = "done"
        BY <2>5 DEF StopSettles
      <3>2. CASE ~io.ok
        <4>1. UNCHANGED <<entry, deleted>>
          BY <2>5, <3>2 DEF StopSettles
        <4> QED BY <3>1, <4>1 DEF FreshIo, NoRecord
      <3>3. CASE io.ok /\ stop.delete
        <4>1. entry' = FreshEntry /\ deleted' = 1 .. minted
          BY <2>5, <3>3 DEF StopSettles
        <4>2. after = {NoRecord}
          BY <3>1, <3>3
        <4> QED BY <3>1, <4>1, <4>2 DEF FreshEntry, FreshIo, NoRecord
      <3>4. CASE io.ok /\ ~stop.delete
        <4>1. deleted' = deleted /\ entry'.id = 0
          BY <2>5, <3>4 DEF StopSettles, Entries
        <4> QED BY <3>1, <4>1 DEF FreshIo, NoRecord
      <3> QED BY <3>2, <3>3, <3>4
    <2> QED
      BY <1>5, <2>1, <2>2, <2>3, <2>4, <2>5 DEF Stop
  <1>6. CASE InitLoads
    <2>1. /\ UNCHANGED <<after, entry, published, deleted>> /\ disk \in after
          /\ disk.id \in Nat
      BY <1>6 DEF InitLoads, Records
    <2>2. CASE disk # NoRecord
      <3>1. minted' = minted /\ io'.rec.id = disk.id
        BY <1>6, <2>2 DEF InitLoads
      <3> QED BY <2>1, <3>1
    <2>3. CASE disk = NoRecord
      <3>1. minted' = minted + 1 /\ io'.rec.id = minted + 1
        BY <1>6, <2>3 DEF InitLoads
      <3> QED BY <2>1, <3>1 DEF Entries, Records
    <2> QED BY <2>2, <2>3
  <1>7. CASE InitSettles
    <2>1. /\ UNCHANGED <<after, published, deleted, minted>> /\ init.rec = io.rec
          /\ io' = FreshIo
      BY <1>7 DEF InitSettles
    <2>2. entry'.id = io.rec.id \/ entry'.id = entry.id
      <3>1. \/ entry' = [entry EXCEPT !.id = init.rec.id]
            \/ entry' = [entry EXCEPT !.invalid = TRUE]
        BY <1>7 DEF InitSettles
      <3> QED BY <2>1, <3>1 DEF Entries
    <2> QED BY <2>1, <2>2 DEF FreshIo, NoRecord
  <1>8. CASE Delete
    BY <1>8 DEF Delete, StopAdmissions, Records, Ios, Entries
  <1>9. CASE Shutdown
    BY <1>9 DEF Shutdown, StopAdmissions, Records, Ios, Entries
  <1>10. CASE Down
    BY <1>10 DEF Down
  <1>11. CASE Crash
    BY <1>11
       DEF Crash, Records, Ios, Entries, FreshEntry, FreshCursor, FreshIo, FreshLocks,
           NoRecord, NoAuth, NoJob
  <1>12. CASE ReloadStarts
    BY <1>12 DEF ReloadStarts, Initialize, Records, Ios, Entries
  <1>13. CASE Reloaded
    BY <1>13 DEF Reloaded
  <1>14. CASE UNCHANGED broadcastVars
    BY <1>14 DEF broadcastVars
  <1> QED
    BY <1>1, <1>2, <1>3, <1>4, <1>5, <1>6, <1>7, <1>8, <1>9, <1>10, <1>11,
       <1>12, <1>13, <1>14 DEF BroadcastNext

-----------------------------------------------------------------------------
(* Numbers.                                                                *)

\* A step exposes no number twice, and leaves none to be used again.
LEMMA NumberStep ==
    ASSUME BroadcastInv, [BroadcastNext]_broadcastVars PROVE Numbered'
  <1> USE DEF BroadcastInv, BroadcastTypeOK, Coordinated, Owned, Recorded, Identified, Numbered,
              PieceNumbersAreUnique, Owning, Free, diskVars, entryVars, jobVars, historyVars
  <1>1. ASSUME NEW k \in ProducerKinds, Producer(k) PROVE Numbered'
    <2>1. CASE Enter(k)
      BY <2>1 DEF Enter, Records, Ios, Entries, Cursors, Jobs, Ingests
    <2>2. CASE PrepareHit(k)
      BY <2>2 DEF PrepareHit
    <2>3. CASE PrepareStart(k)
      BY <2>3 DEF PrepareStart, Initialize
    <2>4. CASE PrepareAnswers(k)
      BY <2>4 DEF PrepareAnswers
    <2>5. CASE PrepareRefused(k)
      BY <2>5 DEF PrepareRefused, Leaves
    <2>6. CASE Claim(k)
      BY <2>6 DEF Claim
    <2>7. CASE ClaimConflicts(k)
      BY <2>7 DEF ClaimConflicts, Leaves
    <2>8. CASE RegisterEntry(k)
      BY <2>8 DEF RegisterEntry, Records, Ios, Entries, Cursors, Jobs, Ingests
    <2>9. CASE RegisterRefused(k)
      BY <2>9 DEF RegisterRefused, Leaves, Dropped
    <2>10. CASE OpenIngest(k)
      <3>1. \E no :
            ingest' = [ingest EXCEPT ![k] = [no |-> no, piece |-> cursor.next, live |-> TRUE]]
        BY <2>10, Zenon DEF OpenIngest
      <3>2. UNCHANGED <<after, io, entry, cursor, job, published>>
        BY <2>10 DEF OpenIngest
      <3>3. ASSUME NEW j \in ProducerKinds, ingest'[j].live,
                   NEW x \in published, x[1] = entry.id, x[2] >= ingest'[j].piece
            PROVE  x[3] = ingest'[j].no
        <4>1. CASE j = k
          BY <3>1, <3>3, <4>1 DEF Cursors
        <4>2. CASE j # k
          BY <3>1, <3>3, <4>2
        <4> QED BY <4>1, <4>2
      <3> QED BY <3>2, <3>3
    <2>11. CASE ProducerEnds(k)
      BY <2>11 DEF ProducerEnds, Dropped, Records, Ios, Entries, Cursors, Jobs, Ingests
    <2>12. ASSUME NEW whole \in BOOLEAN, NEW last \in BOOLEAN, Publish(k, whole, last)
           PROVE Numbered'
      <3>1. /\ job' = [kind |-> k, at |-> "check", piece |-> ingest[k].piece,
                       no |-> ingest[k].no, whole |-> whole, last |-> last]
            /\ ingest[k].live /\ UNCHANGED <<after, io, entry, cursor, ingest, published>>
        BY <2>12 DEF Publish
      <3> QED BY <3>1
    <2> QED
      BY <1>1, <2>1, <2>2, <2>3, <2>4, <2>5, <2>6, <2>7, <2>8, <2>9, <2>10, <2>11,
          <2>12 DEF Producer
  <1>2. CASE Source
    <2>1. CASE Attach
      BY <2>1 DEF Attach, Records, Ios, Entries, Cursors, Jobs, Ingests
    <2>2. CASE Gate
      BY <2>2 DEF Gate
    <2>3. CASE SourceRetries
      BY <2>3 DEF SourceRetries, Records, Ios, Entries, Cursors, Jobs, Ingests
    <2>4. CASE SourceWakes
      BY <2>4 DEF SourceWakes
    <2>5. CASE SourceFails
      BY <2>5 DEF SourceFails, Records, Ios, Entries, Cursors, Jobs, Ingests
    <2>6. CASE SourceExits
      BY <2>6 DEF SourceExits, Dropped, Records, Ios, Entries, Cursors, Jobs, Ingests
    <2>7. CASE Detach
      BY <2>7 DEF Detach, Records, Ios, Entries, Cursors, Jobs, Ingests
    <2>8. CASE DetachGate
      BY <2>8 DEF DetachGate
    <2>9. CASE DetachDone
      BY <2>9 DEF DetachDone, Records, Ios, Entries, Cursors, Jobs, Ingests, NoAuth
    <2> QED
      BY <1>2, <2>1, <2>2, <2>3, <2>4, <2>5, <2>6, <2>7, <2>8, <2>9 DEF Source
  <1>3. CASE Job
    <2>1. CASE JobConsumes
      <3>1. /\ job' = [job EXCEPT !.at = "store"] /\ job.at = "check"
            /\ cursor' = [cursor EXCEPT !.next = IF cursor.next >= job.piece + 1
                                                 THEN cursor.next ELSE job.piece + 1]
            /\ UNCHANGED <<after, io, entry, ingest, published>>
        <4>1. cursor.next \in Int /\ job.piece + 1 \in Int
          BY DEF Cursors, Jobs
        <4> QED BY <2>1, <4>1, MaxOfTwo DEF JobConsumes
      <3>2. /\ cursor'.next >= cursor.next /\ cursor'.next > job.piece /\ cursor'.next \in Nat
            /\ job'.piece = job.piece /\ job'.no = job.no
        BY <3>1 DEF Cursors, Jobs
      <3> QED BY <3>1, <3>2 DEF Cursors, Jobs
    <2>2. CASE JobReserves
      BY <2>2 DEF JobReserves, Records, Ios, Entries, Cursors, Jobs, Ingests
    <2>3. CASE JobReserved
      <3>1. /\ cursor' = [cursor EXCEPT !.reserved = IF cursor.reserved >= io.rec.reserved
                                                     THEN cursor.reserved ELSE io.rec.reserved,
                                        !.next = IF cursor.next >= job.piece + 1
                                                 THEN cursor.next ELSE job.piece + 1]
            /\ job' = [job EXCEPT !.at = "store"] /\ io' = FreshIo /\ job.at = "reserve"
            /\ UNCHANGED <<after, entry, ingest, published>>
        <4>1. /\ cursor.next \in Int /\ job.piece + 1 \in Int
              /\ cursor.reserved \in Int /\ io.rec.reserved \in Int
          BY DEF Cursors, Jobs, Ios, Records
        <4>2. /\ Max({cursor.reserved, io.rec.reserved}) = IF cursor.reserved >= io.rec.reserved
                                                THEN cursor.reserved ELSE io.rec.reserved
              /\ Max({cursor.next, job.piece + 1}) = IF cursor.next >= job.piece + 1
                                                     THEN cursor.next ELSE job.piece + 1
          BY <4>1, MaxOfTwo
        <4>3. /\ cursor' = [cursor EXCEPT !.reserved = Max({cursor.reserved, io.rec.reserved}),
                                          !.next = Max({cursor.next, job.piece + 1})]
              /\ job' = [job EXCEPT !.at = "store"] /\ io' = FreshIo /\ job.at = "reserve"
              /\ UNCHANGED <<after, entry, ingest, published>>
          BY <2>3 DEF JobReserved
        <4> QED BY <4>2, <4>3
      <3>2. /\ cursor'.next >= cursor.next /\ cursor'.next > job.piece /\ cursor'.next \in Nat
            /\ job'.piece = job.piece /\ job'.no = job.no
        BY <3>1 DEF Cursors, Jobs
      <3> QED BY <3>1, <3>2 DEF Cursors, Jobs, FreshIo
    <2>4. CASE JobChecks
      BY <2>4 DEF JobChecks, Records, Ios, Entries, Cursors, Jobs, Ingests
    <2>5. CASE JobPuts
      <3> DEFINE new == <<entry.id, job.piece, job.no>>
      <3>1. /\ published' = published \cup {new} /\ job.at = "put"
            /\ job' = [job EXCEPT !.at = IF job.last THEN "checkpoint" ELSE "settled"]
            /\ UNCHANGED <<after, io, entry, cursor, ingest, stage>>
        BY <2>5 DEF JobPuts
      <3>2. /\ new[1] = entry.id /\ new[2] = job.piece /\ new[3] = job.no
            /\ job.piece < cursor.next /\ entry.id # 0 /\ io.by # "init"
            /\ job'.piece = job.piece /\ job'.no = job.no /\ job'.at \notin {"store", "put"}
        BY <3>1 DEF Jobs
      <3>3. \A r \in after : r.id = entry.id => job.piece < StartOf(r)
        BY <3>1, <3>2 DEF StartOf, Records, Cursors, Jobs
      <3>4. \A k \in ProducerKinds : ingest[k].live => ingest[k].no = job.no
        BY <3>1
      <3>5. \A x \in published : x[1] = entry.id /\ x[2] >= job.piece => x[3] = job.no
        BY <3>1
      <3>6. PieceNumbersAreUnique'
        <4>1. \A x \in published : x[1] = new[1] /\ x[2] = new[2] => x[3] = new[3]
          BY <3>2, <3>5 DEF Jobs
        <4> HIDE DEF new
        <4>2. ASSUME NEW x \in published', NEW y \in published', x[1] = y[1], x[2] = y[2]
              PROVE  x[3] = y[3]
          BY <3>1, <4>1, <4>2
        <4> QED BY <4>2
      <3> HIDE DEF new
      <3>7. \A x \in published' : x \in published \/ x = new
        BY <3>1
      <3>8. \A x \in published' : x[1] = entry.id => x[2] < cursor.next
        BY <3>2, <3>7
      <3>9. \A x \in published' : \A r \in after : x[1] = r.id => x[2] < StartOf(r)
        BY <3>2, <3>3, <3>7
      <3>10. \A x \in published' : x[1] = entry.id /\ x[2] >= job.piece => x[3] = job.no
        BY <3>2, <3>5, <3>7
      <3>11. \A k \in ProducerKinds : ingest[k].live =>
               \A x \in published' :
                  x[1] = entry.id /\ x[2] >= ingest[k].piece => x[3] = ingest[k].no
        BY <3>2, <3>4, <3>7
      <3> QED BY <3>1, <3>2, <3>6, <3>8, <3>9, <3>10, <3>11
    <2>6. CASE JobCheckpoints
      BY <2>6 DEF JobCheckpoints, Records, Ios, Entries, Cursors, Jobs, Ingests
    <2>7. CASE JobCheckpointed
      BY <2>7
         DEF JobCheckpointed, Records, Ios, Entries, Cursors, Jobs, Ingests, FreshIo,
             NoRecord
    <2>8. CASE JobFails
      BY <2>8 DEF JobFails, Records, Ios, Entries, Cursors, Jobs, Ingests, FreshIo, NoRecord
    <2>9. CASE JobEnds
      <3>1. job' = NoJob /\ UNCHANGED <<after, io, entry, cursor, published>>
        BY <2>9 DEF JobEnds
      <3>2. ASSUME NEW k \in ProducerKinds, ingest'[k].live,
                   NEW x \in published, x[1] = entry.id, x[2] >= ingest'[k].piece
            PROVE  x[3] = ingest'[k].no
        <4>1. CASE stage[job.kind] = "push" /\ ingest[job.kind].no = job.no
          <5>1. /\ ingest' = [ingest EXCEPT ![job.kind].live = job.at = "settled",
                                            ![job.kind].piece = IF job.whole THEN @ + 1 ELSE @]
                /\ job.at # "none"
            BY <2>9, <4>1 DEF JobEnds
          <5>2. CASE k = job.kind
            <6>1. ingest'[k].no = job.no /\ ingest'[k].piece >= ingest[k].piece
              BY <4>1, <5>1, <5>2 DEF Ingests
            <6>2. ingest[k].piece = job.piece /\ ingest[k].piece \in Nat /\ ingest'[k].piece \in Nat
              BY <4>1, <5>1, <5>2 DEF Ingests
            <6> QED BY <3>2, <5>1, <6>1, <6>2
          <5>3. CASE k # job.kind
            BY <3>2, <5>1, <5>3 DEF Ingests
          <5> QED BY <5>2, <5>3
        <4>2. CASE ~(stage[job.kind] = "push" /\ ingest[job.kind].no = job.no)
          <5>1. ingest' = ingest
            BY <2>9, <4>2 DEF JobEnds
          <5> QED BY <3>2, <5>1
        <4> QED BY <4>1, <4>2
      <3> QED BY <3>1, <3>2 DEF NoJob
    <2> QED
      BY <1>3, <2>1, <2>2, <2>3, <2>4, <2>5, <2>6, <2>7, <2>8, <2>9 DEF Job
  <1>4. CASE Persist
    <2>1. CASE PersistChanges
      <3>1. /\ io.at = "write" /\ after' = after \cup {io.rec} /\ io' = [io EXCEPT !.at = "sync"]
            /\ UNCHANGED <<entry, cursor, job, ingest, published>>
        BY <2>1 DEF PersistChanges
      <3>2. io'.by = io.by /\ io'.rec = io.rec
        BY <3>1 DEF Ios
      <3>3. ASSUME NEW x \in published, x[1] = io.rec.id PROVE x[2] < StartOf(io.rec)
        <4>1. /\ io.by \in {"init", "job", "stop"} /\ io.rec.next \in Nat /\ x[2] \in Nat
              /\ cursor.next \in Nat /\ cursor.reserved \in Nat /\ io.rec.reserved \in Int
          BY <3>1 DEF Ios, Records, Cursors
        <4>2. CASE io.by = "init"
          BY <3>3, <4>1, <4>2 DEF StartOf
        <4>3. CASE io.by = "job"
          BY <3>3, <4>1, <4>3 DEF StartOf
        <4>4. CASE io.by = "stop"
          <5>1. io.rec = NoRecord
            BY <3>1, <4>4
          <5> QED BY <3>3, <5>1 DEF NoRecord
        <4> QED BY <4>1, <4>2, <4>3, <4>4
      <3> QED BY <3>1, <3>2, <3>3
    <2>2. CASE PersistSyncs
      BY <2>2 DEF PersistSyncs, Records, Ios, Entries, Cursors, Jobs, Ingests
    <2>3. CASE PersistFails
      BY <2>3 DEF PersistFails, Records, Ios, Entries, Cursors, Jobs, Ingests
    <2> QED
      BY <1>4, <2>1, <2>2, <2>3 DEF Persist
  <1>5. CASE Stop
    <2>1. CASE StopLocks
      BY <2>1 DEF StopLocks
    <2>2. CASE StopJoins
      BY <2>2 DEF StopJoins
    <2>3. CASE StopDrains
      BY <2>3 DEF StopDrains
    <2>4. CASE StopCloses
      BY <2>4 DEF StopCloses, Records, Ios, Entries, Cursors, Jobs, Ingests, NoRecord
    <2>5. CASE StopSettles
      <3>1. /\ UNCHANGED <<after, published, job>> /\ io' = FreshIo /\ job.at = "none"
        BY <2>5 DEF StopSettles
      <3>2. CASE ~io.ok
        <4>1. UNCHANGED <<entry, cursor, ingest>>
          BY <2>5, <3>2 DEF StopSettles
        <4> QED BY <3>1, <4>1 DEF FreshIo
      <3>3. CASE io.ok
        <4>1. entry'.id = 0
          <5>1. \/ entry' = FreshEntry
                \/ entry' = [entry EXCEPT !.id = 0, !.source = "none", !.closed = TRUE]
            BY <2>5, <3>3 DEF StopSettles
          <5>2. /\ FreshEntry.id = 0
                /\ [entry EXCEPT !.id = 0, !.source = "none", !.closed = TRUE].id = 0
            <6>1. entry \in Entries
              OBVIOUS
            <6> QED BY ONLY <6>1 DEF Entries, FreshEntry
          <5> QED BY <5>1, <5>2
        <4> QED BY <3>1, <4>1 DEF FreshIo
      <3> QED BY <3>2, <3>3
    <2> QED
      BY <1>5, <2>1, <2>2, <2>3, <2>4, <2>5 DEF Stop
  <1>6. CASE InitLoads
    <2>1. /\ io.by = Free /\ UNCHANGED <<after, entry, cursor, job, ingest, published>>
          /\ io'.rec = init'.rec
      BY <1>6 DEF InitLoads
    <2>2. ASSUME NEW x \in published, x[1] = io'.rec.id PROVE x[2] < io'.rec.next
      <3>1. CASE disk # NoRecord
        <4>1. io'.rec.id = disk.id /\ io'.rec.next = StartOf(disk)
          BY <1>6, <3>1 DEF InitLoads
        <4> QED BY <2>2, <4>1
      <3>2. CASE disk = NoRecord
        <4>1. io'.rec.id = minted + 1
          BY <1>6, <3>2 DEF InitLoads
        <4> QED BY <2>2, <4>1
      <3> QED BY <3>1, <3>2
    <2> QED BY <2>1, <2>2
  <1>7. CASE InitSettles
    <2>1. /\ io.by = "init" /\ io' = FreshIo /\ init.rec = io.rec
          /\ UNCHANGED <<after, job, ingest, published, stage>>
      BY <1>7 DEF InitSettles
    <2>2. CASE io.ok /\ ~Closing /\ ~entry.stopping
      <3>1. /\ entry' = [entry EXCEPT !.id = init.rec.id]
            /\ cursor' = [FreshCursor EXCEPT !.next = init.rec.next,
                                             !.reserved = init.rec.reserved]
        BY <1>7, <2>2 DEF InitSettles
      <3>2. entry'.id = io.rec.id /\ cursor'.next = io.rec.next
        BY <2>1, <3>1 DEF Entries, FreshCursor
      <3>3. job.at = "none" /\ \A k \in ProducerKinds : ~ingest[k].live
        BY <2>1, <2>2
      <3> QED BY <2>1, <3>2, <3>3 DEF FreshIo
    <2>3. CASE ~(io.ok /\ ~Closing /\ ~entry.stopping)
      <3>1. entry' = [entry EXCEPT !.invalid = TRUE] /\ cursor' = cursor
        BY <1>7, <2>3 DEF InitSettles
      <3> QED BY <2>1, <3>1 DEF FreshIo, Entries
    <2> QED BY <2>2, <2>3
  <1>8. CASE Delete
    BY <1>8 DEF Delete, StopAdmissions, Records, Ios, Entries, Cursors, Jobs, Ingests
  <1>9. CASE Shutdown
    BY <1>9 DEF Shutdown, StopAdmissions, Records, Ios, Entries, Cursors, Jobs, Ingests
  <1>10. CASE Down
    BY <1>10 DEF Down
  <1>11. CASE Crash
    <2>1. /\ disk' \in after /\ after' = {disk'} /\ entry' = FreshEntry /\ io' = FreshIo
          /\ job' = NoJob /\ published' = published
      BY <1>11 DEF Crash
    <2> QED BY <2>1 DEF FreshEntry, FreshIo, NoJob
  <1>12. CASE ReloadStarts
    BY <1>12 DEF ReloadStarts, Initialize, Records, Ios, Entries, Cursors, Jobs, Ingests
  <1>13. CASE Reloaded
    BY <1>13 DEF Reloaded
  <1>14. CASE UNCHANGED broadcastVars
    BY <1>14 DEF broadcastVars
  <1> QED
    BY <1>1, <1>2, <1>3, <1>4, <1>5, <1>6, <1>7, <1>8, <1>9, <1>10, <1>11,
       <1>12, <1>13, <1>14 DEF BroadcastNext

-----------------------------------------------------------------------------
(* The specification.                                                      *)

\* A fresh process, on an empty disk or on a record of an earlier version.
LEMMA BroadcastStarts == BroadcastInit => BroadcastInv
  <1> SUFFICES ASSUME BroadcastInit PROVE BroadcastInv
    OBVIOUS
  <1> USE DEF BroadcastInit, NoRecord, Legacy, FreshEntry, FreshCursor, FreshIo, FreshLocks,
              NoAuth, NoJob, Free
  <1>1. disk \in Records /\ disk.id \in {0, 1} /\ after = {disk} /\ minted = disk.id
    BY DEF Records
  <1>2. BroadcastTypeOK
    <2>1. after \in SUBSET Records /\ minted \in Nat
      BY <1>1
    <2>2. entry \in Entries /\ cursor \in Cursors /\ auth \in Authorities /\ lock \in Locks
      BY DEF Entries, Cursors, Authorities, Locks
    <2>3. init \in Inits /\ job \in Jobs /\ stop \in Stops /\ detach \in Detaches
      BY DEF Inits, Jobs, Stops, Detaches
    <2>4. io \in Ios
      BY DEF Ios, Records
    <2>5. stage \in [ProducerKinds -> Stages] /\ ingest \in [ProducerKinds -> Ingests]
      BY DEF Stages, Ingests
    <2>6. phase \in Phases /\ status \in Statuses
      BY DEF Phases, Statuses
    <2>7. /\ published \in SUBSET (Nat \X Nat \X Nat) /\ deleted \in SUBSET Nat
          /\ crashes \in Nat /\ faults \in Nat
      OBVIOUS
    <2> QED BY <1>1, <2>1, <2>2, <2>3, <2>4, <2>5, <2>6, <2>7 DEF BroadcastTypeOK
  <1>3. Coordinated
    BY DEF Coordinated
  <1>4. Owned
    BY DEF Owned, OneProducer, DetachIsFinal, Owning
  <1>5. Recorded
    BY <1>1 DEF Recorded
  <1>6. Identified
    BY <1>1 DEF Identified
  <1>7. Numbered
    BY DEF Numbered, PieceNumbersAreUnique
  <1> QED BY <1>2, <1>3, <1>4, <1>5, <1>6, <1>7 DEF BroadcastInv

\* The registry entry, its locks, its jobs and its records always have their
\* types, through every crash and reload.
THEOREM BroadcastTypes == BroadcastSpec => []BroadcastTypeOK
  <1>1. BroadcastInit => BroadcastTypeOK
    BY BroadcastStarts DEF BroadcastInv
  <1> QED BY <1>1, TypeStep, PTL DEF BroadcastSpec

\* Locks, owners, records, identities and numbers hold together: the chain that
\* the other theorems of this module are read from.
THEOREM BroadcastInvariant == BroadcastSpec => []BroadcastInv
  <1>1. ASSUME BroadcastInv, [BroadcastNext]_broadcastVars PROVE BroadcastInv'
    <2>1. BroadcastTypeOK /\ Coordinated /\ Owned /\ Recorded /\ Identified
      BY <1>1 DEF BroadcastInv
    <2>2. BroadcastTypeOK' /\ Coordinated' /\ Owned'
      BY <1>1, <2>1, TypeStep, CoordinationStep, OwnershipStep
    <2>3. Recorded' /\ Identified' /\ Numbered'
      BY <1>1, <2>1, RecordStep, IdentityStep, NumberStep
    <2> QED BY <2>2, <2>3 DEF BroadcastInv
  <1> QED BY <1>1, BroadcastStarts, PTL DEF BroadcastSpec

\* No number of a piece is ever exposed twice under one identity, and a deleted
\* broadcast stays deleted, for every interval, any number of crashes between
\* any two steps and any number of failing writes (consume reserves before the
\* store sees the piece; start_stop fences before it unlinks).
THEOREM BroadcastSurvives == BroadcastSpec => []BroadcastIsDurable
  <1>1. BroadcastInv => BroadcastIsDurable
    BY DEF BroadcastInv, BroadcastIsDurable, Numbered, Identified, DeletedIsGone,
           Owned, Coordinated
  <1> QED BY <1>1, BroadcastInvariant, PTL

\* Producers exclude each other and a detach is never overtaken, for every set
\* of producers (acquire_producer, commit_source, queue_source_detach).
THEOREM ProducersExclude == BroadcastSpec => []SourceIsFenced
  <1>1. BroadcastInv => SourceIsFenced
    BY DEF BroadcastInv, SourceIsFenced, Owned
  <1> QED BY <1>1, BroadcastInvariant, PTL

=============================================================================
