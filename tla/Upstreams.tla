----------------------------- MODULE Upstreams ------------------------------
(***************************************************************************)
(* The upstream peers of a pool, in two parts that share no state: who owns*)
(* their worker tasks, and the account of the attempts to reach them.      *)
(***************************************************************************)
EXTENDS Integers, FiniteSets, Sequences, FiniteSetsExt, TLC

(***************************************************************************)
(* Who owns the worker tasks of an upstream pool (worker_ownership.rs with *)
(* pool/activation.rs, the commit of pool.rs, the end of PoolActor::run    *)
(* and the teardown of pool_support.rs).  A permit is taken before a peer  *)
(* is written to, held by its worker, and given back only when the task is *)
(* gone: an aborted task still owns its socket for a while.                *)
(*                                                                         *)
(* LivePool says when peers come and go; here any of them may at any time. *)
(* The peer ids of a pool start again from 1, so those of one pool meet    *)
(* what the pool before it left.                                           *)
(***************************************************************************)

CONSTANTS
  MaxActive,     \* max_active_upstreams
  MaxParallel,   \* max_parallel_connect
  SlotCeiling,   \* the two hard maxima together
  MaxPeerId,     \* bound: peer ids of one pool
  MaxPools       \* bound: pools of a session

ASSUME SlotAssumption ==
  {MaxActive, MaxParallel, SlotCeiling, MaxPeerId, MaxPools} \subseteq Nat \ {0}

\* Continuity::fresh
WorkerCapacity == LET wanted == MaxActive + MaxParallel IN
  IF wanted > SlotCeiling THEN SlotCeiling ELSE wanted

PeerIds == 1 .. MaxPeerId

VARIABLES
  pool,     \* none, filling (initial activations), running, or ending
  pools,    \* pools started so far
  toFill,   \* initial upstreams still to be activated
  nextId,   \* next_peer_id
  job,      \* the activation: at, its peer id, and the peer it would replace
  slots,    \* permits of the semaphore that nobody holds
  held,     \* WorkerOwnership::active: peers whose permit is registered
  retired,  \* WorkerOwnership::retired: removed, not yet joined
  runtimes, \* the pool's peer map
  task      \* per peer: none, running, aborted or gone

slotVars == <<pool, pools, toFill, nextId, job, slots, held, retired, runtimes, task>>

NoJob == [at |-> "none", id |-> 0, replaces |-> 0]
Holding == IF job.at \in {"writing", "written"} THEN 1 ELSE 0

SlotsInit ==
  /\ pool = "none" /\ pools = 0 /\ toFill = 0 /\ nextId = 1 /\ job = NoJob
  /\ slots = WorkerCapacity /\ held = {} /\ retired = {} /\ runtimes = {}
  /\ task = [i \in PeerIds |-> "none"]

-----------------------------------------------------------------------------
(* An activation.                                                          *)

\* follow_peer_pool_with_discovery: a pool for the upstreams that were connected
PoolBegins(n) ==
  /\ pool = "none" /\ pools < MaxPools /\ n \in 1 .. MaxActive
  /\ pool' = "filling" /\ pools' = pools + 1 /\ toFill' = n /\ nextId' = 1
  /\ UNCHANGED <<job, slots, held, retired, runtimes, task>>

Prepare(replaces) ==
  /\ job = NoJob /\ nextId \in PeerIds
  /\ job' = [at |-> "waiting", id |-> nextId, replaces |-> replaces]
  /\ nextId' = nextId + 1

\* The next of the initial upstreams
FillNext ==
  /\ pool = "filling" /\ toFill > 0 /\ Prepare(0) /\ toFill' = toFill - 1
  /\ UNCHANGED <<pool, pools, slots, held, retired, runtimes, task>>

\* A connected peer joins the running pool, or stands by to replace one of a full pool
Refill ==
  /\ pool = "running"
  /\ \/ Cardinality(runtimes) < MaxActive /\ Prepare(0)
     \/ Cardinality(runtimes) = MaxActive /\ \E old \in runtimes : Prepare(old)
  /\ UNCHANGED <<pool, pools, toFill, slots, held, retired, runtimes, task>>

\* prepare_with_policy: WorkerAdmission::acquire
Acquire ==
  /\ job.at = "waiting" /\ slots > 0
  /\ job' = [job EXCEPT !.at = "writing"] /\ slots' = slots - 1
  /\ UNCHANGED <<pool, pools, toFill, nextId, held, retired, runtimes, task>>

\* The handshake and Interested are written, or the write fails and drops the permit
Written ==
  /\ job.at = "writing"
  /\ \/ job' = [job EXCEPT !.at = "written"] /\ UNCHANGED slots
     \/ job' = NoJob /\ slots' = slots + 1
  /\ UNCHANGED <<pool, pools, toFill, nextId, held, retired, runtimes, task>>

\* drop_peer_runtime and WorkerOwnership::retire: the task is told to stop, and its
\* permit goes with it to the retired ones
Retire(gone) ==
  /\ runtimes' = runtimes \ gone
  /\ held' = held \ gone /\ retired' = retired \union gone
  /\ task' = [i \in PeerIds |-> IF i \in gone /\ task[i] = "running" THEN "aborted" ELSE task[i]]

\* commit_upstream_peer: register the permit, retire the replaced peer, spawn the worker
Commit ==
  /\ job' = NoJob /\ UNCHANGED <<slots, toFill, nextId, pool, pools>>
  /\ LET old == {job.replaces} \intersect runtimes IN
     /\ held' = (held \union {job.id}) \ old
     /\ retired' = retired \union old
     /\ runtimes' = (runtimes \ old) \union {job.id}
     /\ task' = [i \in PeerIds |-> IF i = job.id THEN "running"
                                   ELSE IF i \in old /\ task[i] = "running" THEN "aborted" ELSE task[i]]

\* The initial activations take what was written; finish_activation looks again at
\* the pool, which may have changed while the write was pending
StillValid ==
  \/ job.replaces = 0 /\ Cardinality(runtimes) < MaxActive
  \/ job.replaces \in runtimes /\ Cardinality(runtimes) = MaxActive
FinishActivation ==
  /\ job.at = "written"
  /\ \/ (pool = "filling" \/ (pool = "running" /\ StillValid)) /\ Commit
     \/ \* no longer eligible, or the consumer is gone: the permit is dropped
        /\ pool = "running" /\ job' = NoJob /\ slots' = slots + 1
        /\ UNCHANGED <<pool, pools, toFill, nextId, held, retired, runtimes, task>>

\* The initial activations are over: the actor runs, or there is nobody to follow
Filled ==
  /\ pool = "filling" /\ toFill = 0 /\ job = NoJob
  /\ \/ pool' = "running"
     \/ runtimes = {} /\ pool' = "none"
  /\ UNCHANGED <<pools, toFill, nextId, job, slots, held, retired, runtimes, task>>

-----------------------------------------------------------------------------
(* Workers that end.                                                       *)

\* A worker returns by itself, or an aborted one has been destroyed
WorkerEnds(i) ==
  /\ task[i] \in {"running", "aborted"}
  /\ task' = [task EXCEPT ![i] = "gone"]
  /\ UNCHANGED <<pool, pools, toFill, nextId, job, slots, held, retired, runtimes>>

\* advance_pool_requests: a worker that takes no more commands is told to stop, and
\* keeps its place until its queued events are handled
AbortWorker(i) ==
  /\ i \in runtimes /\ task[i] = "running"
  /\ pool = "running" \/ (pool = "filling" /\ toFill = 0 /\ job = NoJob)
  /\ task' = [task EXCEPT ![i] = "aborted"]
  /\ UNCHANGED <<pool, pools, toFill, nextId, job, slots, held, retired, runtimes>>

\* handle_pool_peer_loss: one peer, and with the last producer the stale sources
LosePeers(gone) ==
  /\ pool = "running" /\ gone # {} /\ gone \subseteq runtimes /\ Retire(gone)
  /\ UNCHANGED <<pool, pools, toFill, nextId, job, slots>>

\* Variant: the permit is given back before the task is gone.
PollRetiredEarly(i) ==
  /\ pool = "running" /\ i \in retired
  /\ retired' = retired \ {i} /\ slots' = slots + 1
  /\ UNCHANGED <<pool, pools, toFill, nextId, job, held, runtimes, task>>

\* poll_retired: one retired worker whose task is gone is let go, with its permit
PollRetired(i) ==
  /\ pool = "running" /\ i \in retired /\ task[i] = "gone"
  /\ retired' = retired \ {i} /\ slots' = slots + 1
  /\ UNCHANGED <<pool, pools, toFill, nextId, job, held, runtimes, task>>

-----------------------------------------------------------------------------
(* The end of a pool.                                                      *)

Abort(ids) == [i \in PeerIds |-> IF i \in ids /\ task[i] = "running" THEN "aborted" ELSE task[i]]

\* Variant: the workers are awaited and not told to stop.
PoolEndsQuietly ==
  /\ pool \in {"filling", "running"}
  /\ pool' = "ending" /\ job' = NoJob /\ toFill' = 0
  /\ slots' = slots + Holding
  /\ runtimes' = {}
  /\ UNCHANGED <<pools, nextId, held, retired, task>>

\* PoolActor::run, and the consumer that leaves during the initial activations: the
\* activation is dropped and every current worker told to stop before any is awaited
PoolEnds ==
  /\ pool \in {"filling", "running"}
  /\ pool' = "ending" /\ job' = NoJob /\ toFill' = 0
  /\ slots' = slots + Holding
  /\ runtimes' = {} /\ task' = Abort(runtimes)
  /\ UNCHANGED <<pools, nextId, held, retired>>

\* shutdown_current_workers: all of them joined, then release_joined_current
ReleaseJoined ==
  /\ pool = "ending" /\ held # {} /\ \A i \in held : task[i] = "gone"
  /\ held' = {} /\ slots' = slots + Cardinality(held)
  /\ UNCHANGED <<pool, pools, toFill, nextId, job, retired, runtimes, task>>

\* finish_retired, one after the other
FinishRetired(i) ==
  /\ pool = "ending" /\ held = {} /\ i \in retired /\ task[i] = "gone"
  /\ retired' = retired \ {i} /\ slots' = slots + 1
  /\ UNCHANGED <<pool, pools, toFill, nextId, job, held, runtimes, task>>

PoolOver ==
  /\ pool = "ending" /\ held = {} /\ retired = {}
  /\ pool' = "none" /\ task' = [i \in PeerIds |-> "none"]
  /\ UNCHANGED <<pools, toFill, nextId, job, slots, held, retired, runtimes>>

SlotsNext ==
  \/ \E n \in 1 .. MaxActive : PoolBegins(n)
  \/ FillNext \/ Refill \/ Acquire \/ Written \/ FinishActivation \/ Filled
  \/ \E i \in PeerIds : WorkerEnds(i) \/ AbortWorker(i) \/ PollRetired(i) \/ FinishRetired(i)
  \/ \E gone \in SUBSET runtimes : LosePeers(gone)
  \/ PoolEnds \/ ReleaseJoined \/ PoolOver

SlotsSpec == SlotsInit /\ [][SlotsNext]_slotVars

-----------------------------------------------------------------------------
(* What holds.                                                             *)

\* The tasks that may still own a socket
Undead == {i \in PeerIds : task[i] \in {"running", "aborted"}}

\* worker_ownership.rs: "admission counts active and retired task ownership, not
\* just peer-map entries".  No permit is lost or doubled, whatever fails or is
\* replaced; a task that is not gone is owned by exactly one permit, so there are
\* never more of them than permits; and neither assertion of register and retire
\* can fail: an id is registered once, and a peer of the map has its permit.
SlotsAreConserved ==
  /\ slots \in Nat /\ slots + Holding + Cardinality(held) + Cardinality(retired) = WorkerCapacity
  /\ Undead \subseteq held \union retired /\ held \intersect retired = {}
  /\ job # NoJob => job.id \notin held \union retired
  /\ runtimes \subseteq held

\* One pool leaves nothing to the next: between pools nobody holds a permit, or the
\* ids that start again from 1 would meet those of the pool before.
PoolsAreSeparate == pool = "none" => held = {} /\ retired = {} /\ slots = WorkerCapacity

SlotsAreSound == SlotsAreConserved /\ PoolsAreSeparate

\* An activation that waits for a permit gets one or its pool ends, and a pool that
\* ends is over at last: retired workers are let go while others wait for their slot.
SlotsProgress == (job.at = "waiting" ~> job.at # "waiting") /\ (pool = "ending" ~> pool = "none")

-----------------------------------------------------------------------------
(***************************************************************************)
(* The account of attempts to reach upstream peers (connect_diagnostics.rs *)
(* with connect_upstream_with_policy and the joins of connect_pool in      *)
(* peer.rs).  An attempt runs under one total timeout; what it had reached *)
(* is kept outside the future, so that a timeout in any await still says   *)
(* where the time went.  Attempts that are joined are counted; the rest of *)
(* a cohort is aborted and leaves no trace.                                *)
(***************************************************************************)

CONSTANTS
  Attempts,   \* attempts of a cohort
  LastMoment  \* bound: the last reading of the clock

ASSUME TraceAssumption == IsFiniteSet(Attempts) /\ LastMoment \in Nat

\* ConnectPhase, in order, and BasicReplyCause with ReplyByteState
Phases == 1 .. 4
PhaseConnect == 1
PhaseSend == 2
PhaseReply == 3
PhaseWindow == 4
Causes == {"valid", "timeout", "eof", "reset", "io_other", "decode", "hash_mismatch"}
ByteStates == {"zero", "partial", "complete"}
Stages == {"connected", "policy_denied", "tcp", "handshake", "window", "total_timeout"}
Unreached == -1
NoReply == [received |-> "none", cause |-> "none"]

VARIABLES
  moment,  \* the clock
  trace,   \* per attempt: at, PeerConnectTiming, phase_started, and when it began and ended
  stats    \* PeerConnectStats

traceVars == <<moment, trace, stats>>

NewTrace ==
  [at |-> "idle", phase |-> PhaseConnect, durations |-> [p \in Phases |-> Unreached], reply |-> NoReply,
   since |-> 0, began |-> 0, ended |-> 0, stage |-> "none"]

TraceInit ==
  /\ moment = 0 /\ trace = [a \in Attempts |-> NewTrace]
  /\ stats = [counts |-> [s \in Stages \union {"task"} |-> 0], timeouts |-> [p \in Phases |-> 0],
              samples |-> [p \in Phases |-> <<>>], replies |-> [r \in Causes \X ByteStates |-> 0]]

-----------------------------------------------------------------------------
(* PeerConnectProgress.                                                    *)

\* Variant: the clock of the next phase is not started.
AdvanceUnstarted(t, phase) ==
  [t EXCEPT !.durations[t.phase] = moment - t.since, !.phase = phase]

\* advance: the time of the phase left behind is noted
Advance(t, phase) ==
  [t EXCEPT !.durations[t.phase] = moment - t.since, !.since = moment, !.phase = phase]

\* finish_handshake, which does nothing before the handshake was sent
FinishHandshake(t, cause) == IF t.reply = NoReply THEN t ELSE [t EXCEPT !.reply.cause = cause]

\* reply_timeout: only a reply that is awaited and has no cause yet timed out
ReplyTimeout(t) ==
  IF t.phase = PhaseReply /\ t.reply # NoReply /\ t.reply.cause = "none"
    THEN [t EXCEPT !.reply.cause = "timeout"] ELSE t

\* finish, and the outcome of connect_upstream_with_policy
Finish(t, stage) ==
  [t EXCEPT !.durations[t.phase] = moment - t.since, !.at = "over", !.stage = stage, !.ended = moment]

Trace(a, t) == trace' = [trace EXCEPT ![a] = t] /\ UNCHANGED <<moment, stats>>
In(a, phase) == trace[a].at = "underway" /\ trace[a].phase = phase

-----------------------------------------------------------------------------
(* An attempt, from await to await.                                        *)

AttemptBegins(a) ==
  /\ trace[a].at = "idle"
  /\ Trace(a, [NewTrace EXCEPT !.at = "underway", !.since = moment, !.began = moment])

\* dial_with: the policy refuses, the transport fails or does not answer, or it stands
Dial(a) ==
  /\ In(a, PhaseConnect)
  /\ \/ Trace(a, Finish(trace[a], "policy_denied"))
     \/ Trace(a, Finish(trace[a], "tcp"))
     \/ Trace(a, Advance(trace[a], PhaseSend))

\* The handshake is written (observe_handshake: Sent), or writing it fails
SendHandshake(a) ==
  /\ In(a, PhaseSend)
  /\ \/ Trace(a, Advance([trace[a] EXCEPT !.reply = [received |-> "zero", cause |-> "none"]], PhaseReply))
     \/ \E cause \in Causes \ {"valid", "decode", "hash_mismatch"} :
          Trace(a, Finish(FinishHandshake(trace[a], cause), "handshake"))

\* Part of the reply is read and the rest is awaited (observe_handshake: ReplyBytes)
ReplyBytes(a) ==
  /\ In(a, PhaseReply)
  /\ Trace(a, [trace[a] EXCEPT !.reply.received = "partial"])

\* The read ends short, or the last bytes arrive and the reply is judged at once:
\* there is no await between the two
ReplyRead(a) ==
  /\ In(a, PhaseReply)
  /\ LET whole == [trace[a] EXCEPT !.reply.received = "complete"] IN
     \/ \E cause \in {"timeout", "eof", "reset", "io_other"} :
          Trace(a, Finish(FinishHandshake(trace[a], cause), "handshake"))
     \/ \E cause \in {"decode", "hash_mismatch"} :
          Trace(a, Finish(FinishHandshake(whole, cause), "handshake"))
     \/ Trace(a, Advance(FinishHandshake(whole, "valid"), PhaseWindow))

\* read_peer_window
ReadWindow(a) ==
  /\ In(a, PhaseWindow)
  /\ \E stage \in {"connected", "window"} : Trace(a, Finish(trace[a], stage))

\* CONNECT_TIMEOUT, in whatever await the attempt is
TotalTimeout(a) ==
  /\ trace[a].at = "underway"
  /\ Trace(a, Finish(ReplyTimeout(trace[a]), "total_timeout"))

MomentPasses == moment < LastMoment /\ moment' = moment + 1 /\ UNCHANGED <<trace, stats>>

-----------------------------------------------------------------------------
(* PeerConnectStats.                                                       *)

\* record_timing
Timed(st, t) ==
  [st EXCEPT !.replies = IF t.reply.cause = "none" THEN @
                         ELSE [@ EXCEPT ![<<t.reply.cause, t.reply.received>>] = @ + 1],
             !.samples = [p \in Phases |-> IF t.durations[p] = Unreached THEN @[p] ELSE Append(@[p], t.durations[p])]]

\* Variant: a reply that timed out counts as a total timeout.
RecordedByCause(st, t) ==
  [Timed(st, t) EXCEPT !.counts[t.stage] = @ + 1,
                       !.timeouts[t.phase] = IF t.reply.cause = "timeout" \/ t.stage = "total_timeout" THEN @ + 1 ELSE @]

\* record_connected and record_failure
Recorded(st, t) ==
  [Timed(st, t) EXCEPT !.counts[t.stage] = @ + 1,
                       !.timeouts[t.phase] = IF t.stage = "total_timeout" THEN @ + 1 ELSE @]

\* The joins of connect_pool: a finished attempt, or a task that panicked
Join(a) ==
  \/ /\ trace[a].at = "over"
     /\ trace' = [trace EXCEPT ![a] = [NewTrace EXCEPT !.at = "joined"]] /\ stats' = Recorded(stats, trace[a])
     /\ UNCHANGED moment
  \/ /\ trace[a].at = "underway"
     /\ trace' = [trace EXCEPT ![a] = [NewTrace EXCEPT !.at = "panicked"]]
     /\ stats' = [stats EXCEPT !.counts["task"] = @ + 1]
     /\ UNCHANGED moment

\* abort_all: what is not needed any more is joined without being counted
AbortCohort ==
  /\ \E a \in Attempts : trace[a].at \in {"underway", "over"}
  /\ trace' = [a \in Attempts |-> IF trace[a].at \in {"underway", "over"}
                                    THEN [NewTrace EXCEPT !.at = "aborted"] ELSE trace[a]]
  /\ UNCHANGED <<moment, stats>>

TraceNext ==
  \/ \E a \in Attempts : \/ AttemptBegins(a) \/ Dial(a) \/ SendHandshake(a) \/ ReplyBytes(a) \/ ReplyRead(a)
                         \/ ReadWindow(a) \/ TotalTimeout(a) \/ Join(a)
  \/ MomentPasses \/ AbortCohort

TraceSpec == TraceInit /\ [][TraceNext]_traceVars

\* summary: attempted, and the median of the samples of a phase
Attempted == MapThenSumSet(LAMBDA s : stats.counts[s], DOMAIN stats.counts)
Median(samples) ==
  LET sorted == SortSeq(samples, <)
      mid == Len(sorted) \div 2
  IN IF Len(sorted) % 2 = 0 THEN sorted[mid] + (sorted[mid + 1] - sorted[mid]) \div 2 ELSE sorted[mid + 1]

-----------------------------------------------------------------------------
(* What holds.                                                             *)

\* What the phases took together
Spent(durations) ==
  LET took(p) == IF durations[p] = Unreached THEN 0 ELSE durations[p]
  IN took(PhaseConnect) + took(PhaseSend) + took(PhaseReply) + took(PhaseWindow)

\* "Unreached phases are absent, rather than zero" and "cancellation preserves phase
\* and reply bytes": the phases an attempt reached have a duration and no other has,
\* and together they are as long as the attempt took.
TracesAddUp ==
  \A a \in Attempts : trace[a].at = "over" =>
    LET t == trace[a]
        reached == {p \in Phases : t.durations[p] # Unreached}
    IN /\ reached = 1 .. t.phase
       /\ Spent(t.durations) = t.ended - t.began
       /\ (t.reply # NoReply) = (t.phase >= PhaseReply)
       /\ t.reply # NoReply => t.reply.cause # "none"

\* The two books of a pool's upstreams are right at every moment: the one of the
\* permits and the one of the attempts.
UpstreamsAreSound == SlotsAreSound /\ TracesAddUp

ReplyCount(which) == MapThenSumSet(LAMBDA r : stats.replies[r], which)

\* The figures of a summary agree with each other: every attempt is counted once,
\* under one outcome; a phase has a sample for each attempt that reached it; the
\* timeouts of the phases are the total timeouts; every handshake that was sent has
\* one cause, a valid one exactly when the attempt got as far as the window; a reply
\* that was read to its end never counts as timed out; and a median lies between
\* the extremes it is printed with.
StatsAgree ==
  /\ Attempted = Cardinality({a \in Attempts : trace[a].at \in {"joined", "panicked"}})
  /\ LET n == stats.counts
         timeouts == MapThenSumSet(LAMBDA p : stats.timeouts[p], Phases)
     IN /\ timeouts = n["total_timeout"]
        /\ Len(stats.samples[PhaseConnect]) = Attempted - n["task"]
        /\ Len(stats.samples[PhaseWindow]) = n["connected"] + n["window"] + stats.timeouts[PhaseWindow]
        /\ ReplyCount({"valid"} \X ByteStates) = Len(stats.samples[PhaseWindow])
        /\ ReplyCount(Causes \X ByteStates) = Len(stats.samples[PhaseReply])
        /\ stats.replies[<<"timeout", "complete">>] = 0
        /\ \A left \in {"zero", "partial"} : ReplyCount({"valid", "decode", "hash_mismatch"} \X {left}) = 0
  /\ \A p \in Phases : stats.samples[p] # <<>> =>
       LET seen == {stats.samples[p][i] : i \in 1 .. Len(stats.samples[p])}
       IN Median(stats.samples[p]) \in Min(seen) .. Max(seen)
=============================================================================
