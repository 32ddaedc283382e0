----------------------------- MODULE Broadcast -----------------------------
(***************************************************************************)
(* One broadcast name: its registry entry, the producers that claim it,    *)
(* the cursor that reserves piece numbers on disk before they are exposed, *)
(* the HTTP source that pulls into it, its deletion, and the process that  *)
(* may crash between any two steps (broadcast.rs, broadcast_ingest.rs,     *)
(* broadcast_persist.rs, broadcast_pull.rs, rtmp.rs, http/broadcast*.rs).  *)
(*                                                                         *)
(* A removed entry is replaced by a fresh one of the same name.  Callers   *)
(* that still hold the removed one can only fail, so they are sent away    *)
(* when it is removed.  The registry has persistence; the store always has *)
(* room for a piece.                                                       *)
(***************************************************************************)
EXTENDS Integers, FiniteSets, FiniteSetsExt

CONSTANTS ProducerKinds,  \* the producers that may come: "put", "rtmp", "pull"
          Interval,       \* CURSOR_PERSIST_INTERVAL
          MaxNumber,      \* bound on piece numbers
          MaxIdentity,    \* bound on signing identities
          MaxAttempts,    \* bound on ingests ever opened
          MaxCrash,       \* bound on crashes
          MaxFaults       \* bound on failing writes

ASSUME IntervalAssumption == Interval \in Nat \ {0}
ASSUME KindsAssumption == ProducerKinds \subseteq {"put", "rtmp", "pull"}

VARIABLES
    disk,       \* the record the file system shows
    after,      \* the records a crash may leave
    minted,     \* identities generated so far
    phase,      \* "boot" while reload_persisted runs, "serving", "closing", "down"
    entry,      \* EntryData and the entry's cancel channel
    cursor,     \* BroadcastCursor
    auth,       \* data.producer: the authority of the last claim
    stage,      \* where each producer stands
    ingest,     \* the producer's BroadcastIngest
    lock,       \* holders of the entry's asynchronous mutexes
    init,       \* the initializer of prepare
    job,        \* the publication job of store_outputs
    io,         \* the blocking job that holds the I/O gate
    stop,       \* StopJob
    detach,     \* the source detach job
    status,     \* SourceStatus of the attached source
    published,  \* history: <<identity, piece, ingest>> exposed in the store
    deleted,    \* history: identities whose deletion was answered
    crashes, faults

diskVars == <<disk, after>>
entryVars == <<entry, cursor, auth, status>>
jobVars == <<stage, ingest, init, job, lock, stop, detach>>
historyVars == <<minted, published, deleted>>
broadcastVars == <<diskVars, entryVars, jobVars, historyVars, io, phase, crashes, faults>>

NoRecord == [id |-> 0, next |-> 0, reserved |-> 0]
NoAuth == [kind |-> "none", alive |-> FALSE, cancel |-> TRUE, busy |-> FALSE]
NoJob == [kind |-> "none", at |-> "none", piece |-> 0, no |-> 0, whole |-> FALSE, last |-> FALSE]
Free == "free"

\* A record without a reservation, as earlier versions wrote it.
Legacy == [id |-> 1, next |-> 0, reserved |-> -1]

\* BroadcastEntry::new.
FreshEntry == [there |-> FALSE, stopping |-> FALSE, closed |-> FALSE, invalid |-> FALSE,
               id |-> 0, detach |-> FALSE, source |-> "none"]
FreshCursor == [next |-> 0, reserved |-> 0, poisoned |-> FALSE, closed |-> FALSE]
FreshIo == [by |-> Free, at |-> "none", rec |-> NoRecord, ok |-> FALSE]
FreshLocks == [lifecycle |-> Free, gate |-> Free, operation |-> Free, publication |-> Free]

BroadcastInit ==
    /\ disk \in {NoRecord, Legacy} /\ after = {disk}
    /\ minted = disk.id
    /\ phase = "boot"
    /\ entry = FreshEntry /\ cursor = FreshCursor /\ auth = NoAuth
    /\ stage = [k \in ProducerKinds |-> "idle"]
    /\ ingest = [k \in ProducerKinds |-> [no |-> 0, piece |-> 0, live |-> FALSE]]
    /\ lock = FreshLocks
    /\ init = [at |-> "none", rec |-> NoRecord]
    /\ job = NoJob /\ io = FreshIo
    /\ stop = [at |-> "none", delete |-> FALSE]
    /\ detach = [at |-> "none", worker |-> FALSE]
    /\ status = "none"
    /\ published = {} /\ deleted = {}
    /\ crashes = 0 /\ faults = 0

-----------------------------------------------------------------------------
(* Guards shared by the operations.                                        *)

Closing == phase \in {"closing", "down"}

\* check_entry; the tombstone of a failed initializer refuses everyone.
EntryOpen == ~Closing /\ ~entry.stopping /\ ~entry.closed /\ ~entry.invalid

\* BroadcastCursor::check; the entry's cancel channel is set with stopping.
CursorOpen == ~cursor.poisoned /\ ~cursor.closed /\ ~Closing /\ ~entry.stopping

\* ProducerSession::check.
SessionOpen == CursorOpen /\ ~auth.cancel

\* BroadcastIngest::check_publication.
PublicationOpen == SessionOpen /\ ingest[job.kind].live /\ ingest[job.kind].no = job.no

\* source_preflight with attaching.
Attachable == /\ phase = "serving"
              /\ ~entry.stopping /\ ~entry.closed
              /\ ~entry.detach /\ entry.source # "stopping"

\* Why acquire_producer may replace the authority of an earlier claim.
Quiescent == /\ ~auth.alive /\ ~auth.busy
             /\ lock.operation = Free /\ lock.publication = Free /\ io.by = Free

\* validate_persisted: where a reloaded cursor starts.
StartOf(rec) == IF rec.reserved < 0 THEN rec.next + Interval ELSE rec.reserved

\* The extension consume asks for: whole intervals past the piece.
Extension(piece) ==
    cursor.reserved + ((piece - cursor.reserved) \div Interval + 1) * Interval

\* SourceStatusWriter: stopping is reported until the detach, whatever follows.
Reported(state) == IF status = "stopping" THEN status ELSE state

\* WorkerExit::drop.
ExitStatus == IF auth.cancel THEN "stopping" ELSE Reported("failed")

\* A producer is out of the way: its session is dropped.
Dropped(k) ==
    auth' = [auth EXCEPT !.alive = FALSE, !.cancel = TRUE,
                         !.busy = @ /\ job.kind = k]

-----------------------------------------------------------------------------
(* prepare and its initializer.                                            *)

\* acquire_producer up to the lifecycle lock; an unknown name gets an entry.
Enter(k) ==
    /\ k # "pull" /\ stage[k] = "idle" /\ Attachable
    /\ entry' = [entry EXCEPT !.there = TRUE]
    /\ stage' = [stage EXCEPT ![k] = "prepare"]
    /\ UNCHANGED <<diskVars, cursor, auth, status, ingest, init, job, lock, stop, detach,
                   historyVars, io, phase, crashes, faults>>

\* attach_source commits its admission to the entry before the first await.
Attach ==
    /\ "pull" \in ProducerKinds /\ stage["pull"] = "idle" /\ Attachable /\ EntryOpen
    /\ entry' = [entry EXCEPT !.there = TRUE]
    /\ stage' = [stage EXCEPT !["pull"] = "gate"]
    /\ UNCHANGED <<diskVars, cursor, auth, status, ingest, init, job, lock, stop, detach,
                   historyVars, io, phase, crashes, faults>>

\* commit_source gets the source gate and looks again.
Gate ==
    /\ "pull" \in ProducerKinds /\ stage["pull"] = "gate" /\ lock.gate = Free
    /\ IF EntryOpen /\ ~entry.detach /\ entry.source = "none"
       THEN /\ stage' = [stage EXCEPT !["pull"] = "prepare"]
            /\ lock' = [lock EXCEPT !.gate = "pull"]
       ELSE /\ stage' = [stage EXCEPT !["pull"] = "idle"]
            /\ UNCHANGED lock
    /\ UNCHANGED <<diskVars, entryVars, ingest, init, job, stop, detach,
                   historyVars, io, phase, crashes, faults>>

\* A caller goes away with an error; an admission lets go of its gate.
Leaves(k) ==
    /\ stage' = [stage EXCEPT ![k] = "idle"]
    /\ lock' = [lock EXCEPT !.gate = IF @ = k THEN Free ELSE @]

PrepareHit(k) ==
    /\ stage[k] = "prepare" /\ lock.lifecycle = Free /\ EntryOpen
    /\ entry.id # 0
    /\ stage' = [stage EXCEPT ![k] = "claim"]
    /\ UNCHANGED <<diskVars, entryVars, ingest, init, job, lock, stop, detach,
                   historyVars, io, phase, crashes, faults>>

Initialize ==
    /\ lock.lifecycle = Free /\ entry.id = 0 /\ init.at = "none"
    /\ lock' = [lock EXCEPT !.lifecycle = "init"]
    /\ init' = [init EXCEPT !.at = "load"]

PrepareStart(k) ==
    /\ stage[k] = "prepare" /\ EntryOpen
    /\ disk = NoRecord => minted < MaxIdentity
    /\ Initialize
    /\ stage' = [stage EXCEPT ![k] = "waiting"]
    /\ UNCHANGED <<diskVars, entryVars, ingest, job, stop, detach,
                   historyVars, io, phase, crashes, faults>>

\* The caller waits for the initializer, or stops waiting when cancelled.
PrepareAnswers(k) ==
    /\ stage[k] = "waiting" /\ init.at = "none" /\ EntryOpen /\ entry.id # 0
    /\ stage' = [stage EXCEPT ![k] = "claim"]
    /\ UNCHANGED <<diskVars, entryVars, ingest, init, job, lock, stop, detach,
                   historyVars, io, phase, crashes, faults>>

\* Variant: a caller that waits for the lifecycle lock does not hear of a stop.
PrepareRefusedLate(k) ==
    /\ stage[k] \in {"gate", "prepare", "waiting", "claim"}
    /\ lock.lifecycle = Free /\ (Closing \/ entry.stopping \/ entry.invalid)
    /\ Leaves(k)
    /\ UNCHANGED <<diskVars, entryVars, ingest, init, job, stop, detach,
                   historyVars, io, phase, crashes, faults>>

PrepareRefused(k) ==
    /\ stage[k] \in {"gate", "prepare", "waiting", "claim"}
    /\ Closing \/ entry.stopping \/ entry.invalid
    /\ Leaves(k)
    /\ UNCHANGED <<diskVars, entryVars, ingest, init, job, stop, detach,
                   historyVars, io, phase, crashes, faults>>

\* initialize: the record is read under the I/O gate, a fresh identity is
\* generated when there is none, and its first interval is reserved.
InitLoads ==
    /\ init.at = "load" /\ io.by = Free
    /\ LET found == disk # NoRecord
           id == IF found THEN disk.id ELSE minted + 1
           start == IF found THEN StartOf(disk) ELSE 0
           rec == [id |-> id, next |-> start, reserved |-> start + Interval]
       IN /\ minted' = IF found THEN minted ELSE id
          /\ init' = [at |-> "save", rec |-> rec]
          /\ io' = [by |-> "init", at |-> "write", rec |-> rec, ok |-> FALSE]
    /\ UNCHANGED <<diskVars, entryVars, stage, ingest, job, lock, stop, detach,
                   published, deleted, phase, crashes, faults>>

\* The initializer settles whether or not anybody still waits for it.
InitSettles ==
    /\ init.at = "save" /\ io.by = "init" /\ io.at = "done"
    /\ IF io.ok /\ ~Closing /\ ~entry.stopping
       THEN /\ entry' = [entry EXCEPT !.id = init.rec.id]
            /\ cursor' = [FreshCursor EXCEPT !.next = init.rec.next,
                                             !.reserved = init.rec.reserved]
       ELSE /\ entry' = [entry EXCEPT !.invalid = TRUE]
            /\ UNCHANGED cursor
    /\ init' = [at |-> "none", rec |-> NoRecord]
    /\ io' = FreshIo
    /\ lock' = [lock EXCEPT !.lifecycle = Free]
    /\ UNCHANGED <<diskVars, auth, status, stage, ingest, job, stop, detach,
                   historyVars, phase, crashes, faults>>

-----------------------------------------------------------------------------
(* BroadcastPersist: a save is a temporary file, a rename and a directory  *)
(* sync; a deletion is an unlink and a directory sync.  Until the sync the *)
(* change may or may not survive a crash.                                  *)

PersistChanges ==
    /\ io.at = "write"
    /\ disk' = io.rec
    /\ after' = after \cup {io.rec}
    /\ io' = [io EXCEPT !.at = "sync"]
    /\ UNCHANGED <<entryVars, jobVars, historyVars, phase, crashes, faults>>

PersistSyncs ==
    /\ io.at = "sync"
    /\ after' = {disk}
    /\ io' = [io EXCEPT !.at = "done", !.ok = TRUE]
    /\ UNCHANGED <<disk, entryVars, jobVars, historyVars, phase, crashes, faults>>

\* A failed save poisons the cursor it was for (PoisonOnFailure).
PersistFails ==
    /\ io.at \in {"write", "sync"} /\ faults < MaxFaults
    /\ faults' = faults + 1
    /\ io' = [io EXCEPT !.at = "done", !.ok = FALSE]
    /\ cursor' = [cursor EXCEPT !.poisoned = @ \/ io.by = "job"]
    /\ UNCHANGED <<diskVars, entry, auth, status, jobVars, historyVars, phase, crashes>>

-----------------------------------------------------------------------------
(* Claims.                                                                 *)

\* acquire_producer under the lifecycle lock.
Claim(k) ==
    /\ stage[k] = "claim" /\ lock.lifecycle = Free
    /\ EntryOpen /\ ~entry.detach /\ entry.source = "none"
    /\ Quiescent /\ CursorOpen
    /\ auth' = [kind |-> k, alive |-> TRUE, cancel |-> FALSE, busy |-> FALSE]
    /\ stage' = [stage EXCEPT ![k] = "own"]
    /\ UNCHANGED <<diskVars, entry, cursor, status, ingest, init, job, lock, stop, detach,
                   historyVars, io, phase, crashes, faults>>

ClaimConflicts(k) ==
    /\ stage[k] = "claim" /\ lock.lifecycle = Free
    /\ \/ entry.detach \/ entry.source # "none" \/ ~Quiescent \/ ~CursorOpen
    /\ Leaves(k)
    /\ UNCHANGED <<diskVars, entryVars, ingest, init, job, stop, detach,
                   historyVars, io, phase, crashes, faults>>

\* Variant: the admission does not look at a detach that began meanwhile.
RegisterAnyway(k) ==
    /\ stage[k] = "own" /\ EntryOpen /\ CursorOpen
    /\ stage' = [stage EXCEPT ![k] = "run"]
    /\ IF k = "pull"
       THEN /\ entry' = [entry EXCEPT !.source = "on"]
            /\ status' = "connecting"
            /\ lock' = [lock EXCEPT !.gate = Free]
       ELSE UNCHANGED <<entry, status, lock>>
    /\ UNCHANGED <<diskVars, cursor, auth, ingest, init, job, stop, detach,
                   historyVars, io, phase, crashes, faults>>

\* spawn_ingress, the end of on_publish, or the commit of commit_source: the
\* claim is looked at again in the step that makes the worker visible.
RegisterEntry(k) ==
    /\ stage[k] = "own" /\ EntryOpen /\ SessionOpen /\ auth.kind = k
    /\ k = "pull" => ~entry.detach
    /\ stage' = [stage EXCEPT ![k] = "run"]
    /\ IF k = "pull"
       THEN /\ entry' = [entry EXCEPT !.source = "on"]
            /\ status' = "connecting"
            /\ lock' = [lock EXCEPT !.gate = Free]
       ELSE UNCHANGED <<entry, status, lock>>
    /\ UNCHANGED <<diskVars, cursor, auth, ingest, init, job, stop, detach,
                   historyVars, io, phase, crashes, faults>>

RegisterRefused(k) ==
    /\ stage[k] = "own"
    /\ ~EntryOpen \/ ~SessionOpen \/ (k = "pull" /\ entry.detach)
    /\ Dropped(k)
    /\ Leaves(k)
    /\ UNCHANGED <<diskVars, entry, cursor, status, ingest, init, job, stop, detach,
                   historyVars, io, phase, crashes, faults>>

-----------------------------------------------------------------------------
(* Ingest and publication.                                                 *)

\* open_ingest: one ingest of the session at a time, from the next piece.
OpenIngest(k) ==
    /\ stage[k] = "run" /\ SessionOpen /\ ~auth.busy
    /\ \A j \in ProducerKinds : ingest[j].no < MaxAttempts
    /\ LET no == Max({ingest[j].no : j \in ProducerKinds}) + 1
       IN ingest' = [ingest EXCEPT ![k] = [no |-> no, piece |-> cursor.next, live |-> TRUE]]
    /\ auth' = [auth EXCEPT !.busy = TRUE]
    /\ stage' = [stage EXCEPT ![k] = "feed"]
    /\ UNCHANGED <<diskVars, entry, cursor, status, init, job, lock, stop, detach,
                   historyVars, io, phase, crashes, faults>>

\* push_bytes with output, or finish with its tail: a job takes the
\* publication lock and no longer depends on its caller.  RTMP holds the
\* operation barrier until the job answers.
Publish(k, whole, last) ==
    /\ stage[k] = "feed" /\ SessionOpen /\ ingest[k].live
    /\ ingest[k].piece < MaxNumber
    /\ lock.publication = Free
    /\ k = "rtmp" => lock.operation = Free
    /\ last => k # "pull" /\ ~whole
    /\ job' = [kind |-> k, at |-> "check", piece |-> ingest[k].piece,
               no |-> ingest[k].no, whole |-> whole, last |-> last]
    /\ lock' = [lock EXCEPT !.publication = "job",
                            !.operation = IF k = "rtmp" THEN "rtmp" ELSE @]
    /\ stage' = [stage EXCEPT ![k] = "push"]
    /\ UNCHANGED <<diskVars, entryVars, ingest, init, stop, detach,
                   historyVars, io, phase, crashes, faults>>

\* consume below the reservation: the cursor moves past the piece.
JobConsumes ==
    /\ job.at = "check" /\ PublicationOpen /\ job.piece < cursor.reserved
    /\ cursor' = [cursor EXCEPT !.next = Max({@, job.piece + 1})]
    /\ job' = [job EXCEPT !.at = "store"]
    /\ UNCHANGED <<diskVars, entry, auth, status, stage, ingest, init, lock, stop, detach,
                   historyVars, io, phase, crashes, faults>>

\* consume at the reservation: the extension is written first.
JobReserves ==
    /\ job.at = "check" /\ PublicationOpen /\ job.piece >= cursor.reserved
    /\ io.by = Free
    /\ io' = [by |-> "job", at |-> "write", ok |-> FALSE,
              rec |-> [id |-> entry.id, next |-> cursor.next, reserved |-> Extension(job.piece)]]
    /\ job' = [job EXCEPT !.at = "reserve"]
    /\ UNCHANGED <<diskVars, entryVars, stage, ingest, init, lock, stop, detach,
                   historyVars, phase, crashes, faults>>

JobReserved ==
    /\ job.at = "reserve" /\ io.at = "done" /\ io.ok /\ CursorOpen
    /\ cursor' = [cursor EXCEPT !.reserved = Max({@, io.rec.reserved}),
                                !.next = Max({@, job.piece + 1})]
    /\ job' = [job EXCEPT !.at = "store"]
    /\ io' = FreshIo
    /\ UNCHANGED <<diskVars, entry, auth, status, stage, ingest, init, lock, stop, detach,
                   historyVars, phase, crashes, faults>>

\* The store lock is ours: the last look before the write.
JobChecks ==
    /\ job.at = "store" /\ PublicationOpen
    /\ job' = [job EXCEPT !.at = "put"]
    /\ UNCHANGED <<diskVars, entryVars, stage, ingest, init, lock, stop, detach,
                   historyVars, io, phase, crashes, faults>>

\* The write itself cannot be called back.  A tail is followed by a
\* checkpoint of the cursor.
JobPuts ==
    /\ job.at = "put"
    /\ published' = published \cup {<<entry.id, job.piece, job.no>>}
    /\ job' = [job EXCEPT !.at = IF job.last THEN "checkpoint" ELSE "settled"]
    /\ UNCHANGED <<diskVars, entryVars, stage, ingest, init, lock, stop, detach,
                   minted, deleted, io, phase, crashes, faults>>

JobCheckpoints ==
    /\ job.at = "checkpoint" /\ PublicationOpen /\ io.by = Free
    /\ io' = [by |-> "job", at |-> "write", ok |-> FALSE,
              rec |-> [id |-> entry.id, next |-> cursor.next, reserved |-> cursor.reserved]]
    /\ job' = [job EXCEPT !.at = "checkpointing"]
    /\ UNCHANGED <<diskVars, entryVars, stage, ingest, init, lock, stop, detach,
                   historyVars, phase, crashes, faults>>

JobCheckpointed ==
    /\ job.at = "checkpointing" /\ io.at = "done"
    /\ job' = [job EXCEPT !.at = IF io.ok /\ CursorOpen THEN "settled" ELSE "failed"]
    /\ io' = FreshIo
    /\ UNCHANGED <<diskVars, entryVars, stage, ingest, init, lock, stop, detach,
                   historyVars, phase, crashes, faults>>

JobFails ==
    /\ \/ /\ job.at \in {"check", "store", "checkpoint"} /\ ~PublicationOpen
          /\ UNCHANGED io
       \/ /\ job.at = "reserve" /\ io.at = "done" /\ (~io.ok \/ ~CursorOpen)
          /\ io' = FreshIo
    /\ job' = [job EXCEPT !.at = "failed"]
    /\ UNCHANGED <<diskVars, entryVars, stage, ingest, init, lock, stop, detach,
                   historyVars, phase, crashes, faults>>

\* The job ends: publication is free, an abandoned ingest is no longer busy,
\* and a caller that still waits goes on or fails.
JobEnds ==
    /\ job.at \in {"settled", "failed"}
    /\ LET k == job.kind
           waits == stage[k] = "push" /\ ingest[k].no = job.no
           ok == job.at = "settled"
       IN /\ job' = NoJob
          /\ lock' = [lock EXCEPT !.publication = Free,
                                  !.operation = IF waits /\ @ = k THEN Free ELSE @]
          /\ auth' = [auth EXCEPT !.busy = @ /\ waits]
          /\ IF waits
             THEN /\ stage' = [stage EXCEPT ![k] =
                        IF ~ok THEN "broken" ELSE IF job.last THEN "sealed" ELSE "feed"]
                  /\ ingest' = [ingest EXCEPT ![k].live = ok,
                                              ![k].piece = IF job.whole THEN @ + 1 ELSE @]
             ELSE UNCHANGED <<stage, ingest>>
          /\ status' = IF waits /\ ok /\ k = "pull" THEN Reported("streaming") ELSE status
    /\ UNCHANGED <<diskVars, entry, cursor, init, stop, detach,
                   historyVars, io, phase, crashes, faults>>

-----------------------------------------------------------------------------
(* How a producer ends.                                                    *)

\* A body or a connection ends: cancelled, broken, at its end, or gone.  Its
\* session goes with it; a job it started goes on.
ProducerEnds(k) ==
    /\ k # "pull" /\ stage[k] \in {"run", "feed", "push", "broken", "sealed"}
    /\ stage[k] = "push" => k = "put"
    /\ Dropped(k)
    /\ stage' = [stage EXCEPT ![k] = "idle"]
    /\ ingest' = [ingest EXCEPT ![k].live = FALSE]
    /\ UNCHANGED <<diskVars, entry, cursor, status, init, job, lock, stop, detach,
                   historyVars, io, phase, crashes, faults>>

\* An attempt of the source ends without a terminal error: its tail is
\* discarded, the claim is kept, and the worker sleeps before the next one.
SourceRetries ==
    /\ "pull" \in ProducerKinds /\ stage["pull"] \in {"run", "feed"} /\ ~auth.cancel
    /\ stage' = [stage EXCEPT !["pull"] = "backoff"]
    /\ ingest' = [ingest EXCEPT !["pull"].live = FALSE]
    /\ auth' = [auth EXCEPT !.busy = FALSE]
    /\ status' = Reported("backoff")
    /\ UNCHANGED <<diskVars, entry, cursor, init, job, lock, stop, detach,
                   historyVars, io, phase, crashes, faults>>

SourceWakes ==
    /\ "pull" \in ProducerKinds /\ stage["pull"] = "backoff" /\ ~auth.cancel
    /\ stage' = [stage EXCEPT !["pull"] = "run"]
    /\ status' = Reported("connecting")
    /\ UNCHANGED <<diskVars, entry, cursor, auth, ingest, init, job, lock, stop, detach,
                   historyVars, io, phase, crashes, faults>>

\* A failed or stuck publication is terminal: the worker keeps the claim and
\* waits to be detached.
SourceFails ==
    /\ "pull" \in ProducerKinds /\ stage["pull"] \in {"push", "broken"} /\ ~auth.cancel
    /\ stage' = [stage EXCEPT !["pull"] = "terminal"]
    /\ ingest' = [ingest EXCEPT !["pull"].live = FALSE]
    /\ auth' = [auth EXCEPT !.busy = job.kind = "pull"]
    /\ status' = Reported("failed")
    /\ UNCHANGED <<diskVars, entry, cursor, init, job, lock, stop, detach,
                   historyVars, io, phase, crashes, faults>>

\* run_source returns: on cancellation, or when a panic or an abort drops it.
SourceExits ==
    /\ "pull" \in ProducerKinds
    /\ stage["pull"] \in {"run", "feed", "push", "broken", "backoff", "terminal"}
    /\ stage' = [stage EXCEPT !["pull"] = "gone"]
    /\ ingest' = [ingest EXCEPT !["pull"].live = FALSE]
    /\ Dropped("pull")
    /\ status' = ExitStatus
    /\ UNCHANGED <<diskVars, entry, cursor, init, job, lock, stop, detach,
                   historyVars, io, phase, crashes, faults>>

-----------------------------------------------------------------------------
(* Detaching the source.                                                   *)

\* queue_source_detach: nothing attached and no admission is a no-op.
Detach ==
    /\ "pull" \in ProducerKinds /\ phase = "serving" /\ entry.there /\ ~entry.stopping /\ ~entry.closed
    /\ detach.at = "none"
    /\ entry.source # "none" \/ lock.gate # Free
    /\ entry' = [entry EXCEPT !.detach = TRUE,
                              !.source = IF @ = "none" THEN @ ELSE "stopping"]
    /\ IF entry.source # "none"
       THEN /\ auth' = [auth EXCEPT !.cancel = TRUE]
            /\ status' = "stopping"
       ELSE UNCHANGED <<auth, status>>
    /\ detach' = [at |-> "gate", worker |-> entry.source # "none"]
    /\ UNCHANGED <<diskVars, cursor, stage, ingest, init, job, lock, stop,
                   historyVars, io, phase, crashes, faults>>

DetachGate ==
    /\ detach.at = "gate" /\ lock.gate = Free
    /\ lock' = [lock EXCEPT !.gate = "detach"]
    /\ detach' = [detach EXCEPT !.at = "join"]
    /\ UNCHANGED <<diskVars, entryVars, stage, ingest, init, job, stop,
                   historyVars, io, phase, crashes, faults>>

\* Variant: the worker is waited for, the job it left behind is not.
DetachJoinedWorker ==
    detach.worker => stage["pull"] = "gone"

\* The worker, its jobs and the locks they used are waited for before the
\* attachment and the claim are given up.
DetachJoined ==
    /\ detach.worker => /\ stage["pull"] = "gone" /\ job.kind = "none"
                        /\ lock.operation = Free /\ lock.publication = Free /\ io.by = Free

DetachDone ==
    /\ detach.at = "join" /\ DetachJoined
    /\ entry' = [entry EXCEPT !.detach = FALSE,
                              !.source = IF detach.worker THEN "none" ELSE @]
    /\ auth' = IF detach.worker /\ auth.kind = "pull" THEN NoAuth ELSE auth
    /\ status' = IF detach.worker THEN "none" ELSE status
    /\ stage' = IF detach.worker /\ stage["pull"] = "gone"
             THEN [stage EXCEPT !["pull"] = "idle"] ELSE stage
    /\ detach' = [at |-> "none", worker |-> FALSE]
    /\ lock' = [lock EXCEPT !.gate = Free]
    /\ UNCHANGED <<diskVars, cursor, ingest, init, job, stop,
                   historyVars, io, phase, crashes, faults>>

-----------------------------------------------------------------------------
(* Deletion and shutdown.                                                  *)

\* stop_admissions.
StopAdmissions ==
    /\ entry' = [entry EXCEPT !.there = TRUE, !.stopping = TRUE]
    /\ auth' = [auth EXCEPT !.cancel = TRUE]
    /\ status' = IF entry.source = "none" THEN status ELSE "stopping"

\* delete; a deletion under way or done is joined, a failed one is retried.
Delete ==
    /\ phase = "serving" /\ stop.at \in {"none", "failed"}
    /\ StopAdmissions
    /\ stop' = [at |-> "lifecycle", delete |-> TRUE]
    /\ UNCHANGED <<diskVars, cursor, stage, ingest, init, job, lock, detach,
                   historyVars, io, phase, crashes, faults>>

\* close_admissions and shutdown.
Shutdown ==
    /\ phase = "serving"
    /\ phase' = "closing"
    /\ StopAdmissions
    /\ stop' = IF stop.at \in {"none", "failed"}
               THEN [at |-> "lifecycle", delete |-> FALSE] ELSE stop
    /\ UNCHANGED <<diskVars, cursor, stage, ingest, init, job, lock, detach,
                   historyVars, io, crashes, faults>>

StopLocks ==
    /\ stop.at = "lifecycle" /\ lock.lifecycle = Free
    /\ lock' = [lock EXCEPT !.lifecycle = "stop"]
    /\ stop' = [stop EXCEPT !.at = "join"]
    /\ UNCHANGED <<diskVars, entryVars, stage, ingest, init, job, detach,
                   historyVars, io, phase, crashes, faults>>

\* The entry's initializers (admissions, detaches) and tasks (bodies, source).
OwnedTasksDone ==
    /\ detach.at = "none"
    /\ "pull" \in ProducerKinds => stage["pull"] \in {"idle", "gone"}
    /\ "put" \in ProducerKinds => stage["put"] \notin {"run", "feed", "push", "broken", "sealed"}

StopJoins ==
    /\ stop.at = "join" /\ OwnedTasksDone /\ lock.operation = Free
    /\ lock' = [lock EXCEPT !.operation = "stop"]
    /\ stop' = [stop EXCEPT !.at = "jobs"]
    /\ UNCHANGED <<diskVars, entryVars, stage, ingest, init, job, detach,
                   historyVars, io, phase, crashes, faults>>

\* Variant: the stop does not wait for publication jobs.
StopDrainsNothing ==
    /\ stop.at = "jobs"
    /\ stop' = [stop EXCEPT !.at = "io"]
    /\ UNCHANGED <<diskVars, entryVars, stage, ingest, init, job, lock, detach,
                   historyVars, io, phase, crashes, faults>>

StopDrains ==
    /\ stop.at = "jobs" /\ job.kind = "none" /\ lock.publication = Free
    /\ lock' = [lock EXCEPT !.publication = "stop"]
    /\ stop' = [stop EXCEPT !.at = "io"]
    /\ UNCHANGED <<diskVars, entryVars, stage, ingest, init, job, detach,
                   historyVars, io, phase, crashes, faults>>

\* The cursor is closed under the I/O gate; a deletion then unlinks.
StopCloses ==
    /\ stop.at = "io" /\ io.by = Free
    /\ cursor' = [cursor EXCEPT !.closed = TRUE]
    /\ io' = IF stop.delete
             THEN [by |-> "stop", at |-> "write", rec |-> NoRecord, ok |-> FALSE]
             ELSE [by |-> "stop", at |-> "done", rec |-> disk, ok |-> TRUE]
    /\ stop' = [stop EXCEPT !.at = "unlink"]
    /\ UNCHANGED <<diskVars, entry, auth, status, stage, ingest, init, job, lock, detach,
                   historyVars, phase, crashes, faults>>

\* The stop settles.  A deleted entry leaves the map; the next caller gets a
\* fresh one.  A failed deletion keeps its tombstone.
StopSettles ==
    /\ stop.at = "unlink" /\ io.by = "stop" /\ io.at = "done"
    /\ io' = FreshIo
    /\ lock' = [lock EXCEPT !.lifecycle = Free, !.operation = Free, !.publication = Free]
    /\ IF ~io.ok
       THEN /\ stop' = [stop EXCEPT !.at = "failed"]
            /\ UNCHANGED <<entry, cursor, auth, status, stage, ingest, deleted>>
       ELSE /\ auth' = NoAuth /\ status' = "none"
            /\ IF stop.delete
               THEN /\ entry' = FreshEntry /\ cursor' = FreshCursor
                    /\ stage' = [k \in ProducerKinds |-> "idle"]
                    /\ ingest' = [k \in ProducerKinds |-> [ingest[k] EXCEPT !.live = FALSE]]
                    /\ deleted' = 1..minted
                    /\ stop' = [at |-> "none", delete |-> FALSE]
               ELSE /\ entry' = [entry EXCEPT !.id = 0, !.source = "none", !.closed = TRUE]
                    /\ stop' = [stop EXCEPT !.at = "done"]
                    /\ UNCHANGED <<cursor, stage, ingest, deleted>>
    /\ UNCHANGED <<diskVars, init, job, detach, minted, published, phase, crashes, faults>>

\* Every entry has settled, or been given up: the process ends.
Down ==
    /\ phase = "closing" /\ stop.at \in {"none", "done", "failed"}
    /\ phase' = "down"
    /\ UNCHANGED <<diskVars, entryVars, jobVars, historyVars, io, crashes, faults>>

-----------------------------------------------------------------------------
(* Crash, restart and reload.                                              *)

Crash ==
    /\ crashes < MaxCrash
    /\ crashes' = crashes + 1
    /\ disk' \in after /\ after' = {disk'}
    /\ phase' = "boot"
    /\ entry' = FreshEntry /\ cursor' = FreshCursor /\ auth' = NoAuth
    /\ stage' = [k \in ProducerKinds |-> "idle"]
    /\ ingest' = [k \in ProducerKinds |-> [ingest[k] EXCEPT !.live = FALSE]]
    /\ lock' = FreshLocks
    /\ init' = [at |-> "none", rec |-> NoRecord]
    /\ job' = NoJob /\ io' = FreshIo
    /\ stop' = [at |-> "none", delete |-> FALSE]
    /\ detach' = [at |-> "none", worker |-> FALSE]
    /\ status' = "none"
    /\ UNCHANGED <<historyVars, faults>>

\* reload_persisted prepares every record it finds before anything is served.
ReloadStarts ==
    /\ phase = "boot" /\ disk # NoRecord /\ ~entry.invalid
    /\ Initialize
    /\ entry' = [entry EXCEPT !.there = TRUE]
    /\ UNCHANGED <<diskVars, cursor, auth, status, stage, ingest, job, stop, detach,
                   historyVars, io, phase, crashes, faults>>

Reloaded ==
    /\ phase = "boot" /\ init.at = "none"
    /\ disk = NoRecord \/ entry.id # 0
    /\ phase' = "serving"
    /\ UNCHANGED <<diskVars, entryVars, jobVars, historyVars, io, crashes, faults>>

Producer(k) ==
    \/ Enter(k) \/ PrepareHit(k) \/ PrepareStart(k) \/ PrepareAnswers(k) \/ PrepareRefused(k)
    \/ Claim(k) \/ ClaimConflicts(k) \/ RegisterEntry(k) \/ RegisterRefused(k)
    \/ OpenIngest(k) \/ ProducerEnds(k)
    \/ \E whole, last \in BOOLEAN : Publish(k, whole, last)

Source == \/ Attach \/ Gate \/ SourceRetries \/ SourceWakes \/ SourceFails \/ SourceExits
          \/ Detach \/ DetachGate \/ DetachDone

Job == \/ JobConsumes \/ JobReserves \/ JobReserved \/ JobChecks \/ JobPuts
       \/ JobCheckpoints \/ JobCheckpointed \/ JobFails \/ JobEnds

Persist == PersistChanges \/ PersistSyncs \/ PersistFails

Stop == StopLocks \/ StopJoins \/ StopDrains \/ StopCloses \/ StopSettles

BroadcastNext ==
    \/ \E k \in ProducerKinds : Producer(k)
    \/ Source \/ Job \/ Persist \/ Stop
    \/ InitLoads \/ InitSettles
    \/ Delete \/ Shutdown \/ Down
    \/ Crash \/ ReloadStarts \/ Reloaded

BroadcastSpec == BroadcastInit /\ [][BroadcastNext]_broadcastVars

\* Tasks run, blocking I/O returns, and cancelled tasks see their channel.
\* Nothing is assumed of callers, upstreams or operators.
BroadcastFairness ==
    /\ WF_broadcastVars(Job) /\ WF_broadcastVars(Stop)
    /\ WF_broadcastVars(PersistChanges \/ PersistSyncs)
    /\ WF_broadcastVars(InitLoads) /\ WF_broadcastVars(InitSettles)
    /\ \A k \in ProducerKinds : /\ WF_broadcastVars(PrepareRefused(k))
                         /\ WF_broadcastVars(RegisterRefused(k))
                         /\ WF_broadcastVars(auth.cancel /\ ProducerEnds(k))
    /\ WF_broadcastVars(Gate) /\ WF_broadcastVars(auth.cancel /\ SourceExits)
    /\ WF_broadcastVars(DetachGate) /\ WF_broadcastVars(DetachDone)

BroadcastFairSpec == BroadcastSpec /\ BroadcastFairness

-----------------------------------------------------------------------------
(* Properties.                                                             *)

Owning == {"own", "run", "feed", "push", "broken", "sealed", "backoff", "terminal"}

\* A piece number of a signing identity is exposed by one ingest only, whatever
\* is dropped, reconnected, reloaded or lost in a crash: BroadcastCursor::consume
\* makes the reservation durable before the store sees the piece.
PieceNumbersAreUnique ==
    \A x, y \in published : x[1] = y[1] /\ x[2] = y[2] => x[3] = y[3]

\* Once a deletion has been answered with success, the identity is in no record
\* that a crash could bring back, no entry serves it, and no publication that
\* was under way writes after it (start_stop's order of fences).
DeletedIsGone ==
    /\ entry.id \notin deleted
    /\ \A r \in after : r.id \notin deleted
    /\ job.kind # "none" => entry.id # 0

\* A broadcast survives crashes and failed writes: no number of a piece is ever
\* exposed twice under one identity, and a deleted broadcast stays deleted.
BroadcastIsDurable == PieceNumbersAreUnique /\ DeletedIsGone

\* One producer at a time: owners are never two, a publication belongs to the
\* claim in force, and an attached source holds the claim until its detach has
\* waited for everything it started (acquire_producer, queue_source_detach).
OneProducer ==
    /\ \A j, k \in ProducerKinds : stage[j] \in Owning /\ stage[k] \in Owning => j = k
    /\ job.kind # "none" => job.kind = auth.kind
    /\ entry.source # "none" => auth.kind = "pull"

\* A detach that has begun is never overtaken by the admission it found under
\* way: while it is pending no source becomes active (commit_source rechecks).
DetachIsFinal == entry.detach => entry.source # "on"

\* Whoever feeds a broadcast is the one the registry knows: one owner at a time,
\* and no admission outruns the detach that found it under way.
SourceIsFenced == OneProducer /\ DetachIsFinal

\* A deletion or shutdown that has begun settles: nobody it waits for waits for
\* it (lifecycle lock, source gate, operation, publication, I/O gate).
StopsSettle == []<>(stop.at \in {"none", "done", "failed"})
=============================================================================
