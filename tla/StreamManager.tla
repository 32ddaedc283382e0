---------------------------- MODULE StreamManager ----------------------------
(***************************************************************************)
(* The registry of live sessions of ace-engine: manager.rs, session.rs,    *)
(* admission.rs and support_control.rs.                                    *)
(*                                                                         *)
(* A call (a viewer, an HLS request or a support owner) runs an owned      *)
(* initializer: it registers a generation, serializes on the start lock of *)
(* its key, reserves a slot, opens a source and publishes the session      *)
(* under the finalization mutex.  Stop, reap, release and shutdown retire  *)
(* sessions under the same mutex and join the workers outside it.          *)
(*                                                                         *)
(* A session and its source are named by the call that opened the source,  *)
(* an HLS packager by the call that created it.  A worker is               *)
(* <<session, "pump">> or <<packager, "hls">>.  Counters of subscriptions  *)
(* and pins are the sets of calls that own such a value.                   *)
(***************************************************************************)
EXTENDS Integers, FiniteSets

CONSTANTS Keys,         \* (network, id) keys of the registry
          Calls,        \* one-shot calls, records with fields key, kind (and a tag)
          Stops,        \* one-shot DELETE requests, records with a field key
          MaxSessions,  \* OUTPACE_MAX_SESSIONS, 0 is unlimited
          MaxEpoch,     \* bound on the epochs of a support declaration
          Events,       \* what may happen in an instance besides the requests
          None          \* the absent value

\* get_or_subscribe, acquire_support, acquire_declared_support,
\* get_or_start_hls, get_or_start_compatibility_hls
Kinds == {"subscribe", "pin", "support", "hls", "compat"}

ASSUME CallsAssumption ==
    /\ \A c \in Calls : c.key \in Keys /\ c.kind \in Kinds
    /\ \A s \in Stops : s.key \in Keys
    /\ None \notin Calls
    /\ IsFiniteSet(Calls)
ASSUME BoundsAssumption ==
    /\ MaxSessions \in Nat /\ MaxEpoch \in Nat
    /\ Events \subseteq {"drop", "failure", "shutdown"}

VARIABLES
    pc,         \* where each call is
    gone,       \* calls whose caller dropped the future (WorkerControl::cancel)
    pending,    \* generations registered and not finished
    fenced,     \* pending generations cancelled by a stop
    startLock,  \* holder of the start lock of each key
    src,        \* the source opened by each call
    occupied,   \* Admission::occupied
    sessions,   \* the published session of each key
    cancelled,  \* sessions whose pump was told to stop
    pkg,        \* the HLS packager of each key
    hlsSession, \* the session an HLS packager reads
    hlsCancel,  \* packagers whose worker was told to stop
    recent,     \* packagers accessed within the grace period
    held,       \* the session a call's subscription or pin is for
    complete,   \* workers whose completion was published as true
    broken,     \* workers whose completion sender was dropped while false
    stopping,   \* completions of retired workers, by key
    stopPc, stopWait, existed,              \* DELETE requests
    relWait,                                \* workers a release_support joins
    reapPc, reapPending, reapActive, reapWait,  \* the idle reaper
    intent,     \* SupportControl of each key: epoch and running
    attempt,    \* the epoch a declared support call was made for
    shut,       \* shutdown(): "no", "draining", "closed" or "unclean"
    doomed,     \* history: calls in flight when a stop of their key, or a change of
                \* the declaration they act for, took effect
    owed        \* history: the sources of its key that ran when a stop began
                \* (a stop during shutdown finds an empty map and answers absent)

callVars == <<pc, gone, pending, fenced, startLock, attempt>>
sourceVars == <<src, occupied, cancelled, complete, broken>>
mapVars == <<sessions, pkg, hlsSession, hlsCancel, recent, stopping>>
stopVars == <<stopPc, stopWait, existed, doomed, owed>>
reapVars == <<reapPc, reapPending, reapActive, reapWait>>
vars == <<callVars, sourceVars, mapVars, held, stopVars, relWait, reapVars,
          intent, shut>>

-----------------------------------------------------------------------------
Workers == Calls \X {"pump", "hls"}
Pump(s) == <<s, "pump">>
Hls(p) == <<p, "hls">>

Initializing == {"begun", "locking", "opening", "final", "dispose"}
LockHolding == {"opening", "final", "dispose"}
Owning == {"opening", "opened", "pumping", "draining", "failed", "leaked"}
Live == {"pumping", "draining"}

IsHls(c) == c.kind \in {"hls", "compat"}
IsSupport(c) == c.kind \in {"pin", "support"}

\* Calls of key k that were made and have neither a result nor an error
Unsettled(k) == {c \in Calls : c.key = k /\ pc[c] \in Initializing \cup {"declared"}}

\* The hls_finalization mutex is free; only the reaper keeps it across steps.
Free == reapPc # "retiring"

\* StreamSession::subscriber_count and support_pin_count
Subscribers(s) == {c \in Calls : held[c] = s /\ ~IsSupport(c)}
SupportPins(s) == {c \in Calls : held[c] = s /\ IsSupport(c)}

\* Variant: a dropped completion sender does not wake the waiter.
FinishedTrueOnly == complete

Finished == complete \cup broken

\* SupportAttempt::current
Current(c) == c.kind = "support" =>
                 intent[c.key].running /\ intent[c.key].epoch = attempt[c]

\* Variants: a stage misses the stop fence, or the shutdown flag.
AbortedUnfenced(c) == ~Current(c) \/ c \in gone \/ shut # "no"
\* The checks every stage of an initializer repeats
Aborted(c) == ~Current(c) \/ c \in gone \/ c \in fenced \/ shut # "no"

\* SupportControl::set_running
SetRunning(i, b) ==
    IF i.running = b THEN i ELSE [epoch |-> i.epoch + 1, running |-> b]

\* Variant: a retired worker is not remembered for a later stop.
RecordStopForgets(k, ws) == [j \in Keys |-> stopping[j] \ Finished]

\* prune_stops, then record_stop of the given workers under key k
RecordStop(k, ws) ==
    [j \in Keys |-> (stopping[j] \cup (IF j = k THEN ws ELSE {})) \ Finished]

\* Variant: a completion is recorded though the key has no session.
SessionWorkerUnchecked(k) == {Pump(sessions[k])}

\* The workers behind the map entries of key k
SessionWorker(k) == IF sessions[k] = None THEN {} ELSE {Pump(sessions[k])}
PackagerWorker(k) == IF pkg[k] = None THEN {} ELSE {Hls(pkg[k])}

\* was_accessed_within(now, grace) of the packager of k
ActiveHls(k) == pkg[k] # None /\ pkg[k] \in recent

\* Variant: the start lock of a returning call stays locked.
ReturnLocked(c) ==
    /\ pc' = [pc EXCEPT ![c] = "returned"]
    /\ pending' = pending \ {c}
    /\ fenced' = fenced \ {c}
    /\ UNCHANGED <<startLock, gone, attempt>>

\* A call returns: its HlsTransition and its start lock guard are dropped.
Return(c) ==
    /\ pc' = [pc EXCEPT ![c] = "returned"]
    /\ pending' = pending \ {c}
    /\ fenced' = fenced \ {c}
    /\ startLock' = [k \in Keys |-> IF startLock[k] = c THEN None ELSE startLock[k]]
    /\ UNCHANGED <<gone, attempt>>

Init ==
    /\ pc = [c \in Calls |-> "idle"]
    /\ gone = {} /\ pending = {} /\ fenced = {}
    /\ startLock = [k \in Keys |-> None]
    /\ attempt = [c \in Calls |-> 0]
    /\ src = [c \in Calls |-> "none"]
    /\ occupied = 0
    /\ cancelled = {} /\ complete = {} /\ broken = {}
    /\ sessions = [k \in Keys |-> None]
    /\ pkg = [k \in Keys |-> None]
    /\ hlsSession = [c \in Calls |-> None]
    /\ hlsCancel = {} /\ recent = {}
    /\ stopping = [k \in Keys |-> {}]
    /\ held = [c \in Calls |-> None]
    /\ stopPc = [t \in Stops |-> "idle"]
    /\ stopWait = [t \in Stops |-> {}]
    /\ existed = {} /\ doomed = {}
    /\ owed = [t \in Stops |-> {}]
    /\ relWait = [c \in Calls |-> {}]
    /\ reapPc = "sleep" /\ reapPending = {} /\ reapActive = {} /\ reapWait = {}
    /\ intent = [k \in Keys |-> [epoch |-> 1, running |-> TRUE]]
    /\ shut = "no"

-----------------------------------------------------------------------------
(* Starting: owned_live_start, get_or_start_owned and the HLS variant.     *)

\* acquire_declared_support checks the declaration under the finalization
\* mutex and drops the mutex before owned_live_start takes it again.
DeclareSupport(c) ==
    /\ c.kind = "support" /\ pc[c] = "idle"
    /\ Free /\ shut = "no" /\ intent[c.key].running
    /\ attempt' = [attempt EXCEPT ![c] = intent[c.key].epoch]
    /\ pc' = [pc EXCEPT ![c] = "declared"]
    /\ UNCHANGED <<gone, pending, fenced, startLock, sourceVars, mapVars, held,
                   stopVars, relWait, reapVars, intent, shut>>

\* owned_live_start: register the generation, then spawn the initializer.
Begin(c) ==
    /\ pc[c] = IF c.kind = "support" THEN "declared" ELSE "idle"
    /\ Free /\ shut = "no"
    /\ pc' = [pc EXCEPT ![c] = "begun"]
    /\ pending' = pending \cup {c}
    /\ UNCHANGED <<gone, fenced, startLock, attempt, sourceVars, mapVars, held,
                   stopVars, relWait, reapVars, intent, shut>>

\* owned_live_start finds the manager shutting down and spawns nothing.
Refuse(c) ==
    /\ pc[c] = "declared" /\ Free /\ shut # "no"
    /\ Return(c)
    /\ UNCHANGED <<sourceVars, mapVars, held, stopVars, relWait, reapVars, intent, shut>>

\* Variant: starts of one key do not wait for each other.
EnteredUnlocked(c) == pc[c] \in {"begun", "locking"}

\* The start lock guard is available, or not needed yet.
Entered(c) == pc[c] = "begun" \/ (pc[c] = "locking" /\ startLock[c.key] = None)

\* A check before any source exists fails; a cancelled caller also leaves the
\* queue of the start lock (biased select).
Abort(c) ==
    /\ \/ Entered(c) /\ Aborted(c)
       \/ pc[c] = "locking" /\ c \in gone
    /\ Return(c)
    /\ UNCHANGED <<sourceVars, mapVars, held, stopVars, relWait, reapVars, intent, shut>>

\* A direct or support caller joins the published session.
Join(c) ==
    /\ Entered(c) /\ ~IsHls(c) /\ ~Aborted(c)
    /\ sessions[c.key] # None
    /\ held' = [held EXCEPT ![c] = sessions[c.key]]
    /\ Return(c)
    /\ UNCHANGED <<sourceVars, mapVars, stopVars, relWait, reapVars, intent, shut>>

\* Nothing to join: queue for the start lock of the key.
Queue(c) ==
    /\ pc[c] = "begun" /\ ~Aborted(c)
    /\ IsHls(c) \/ sessions[c.key] = None
    /\ pc' = [pc EXCEPT ![c] = "locking"]
    /\ UNCHANGED <<gone, pending, fenced, startLock, attempt, sourceVars, mapVars,
                   held, stopVars, relWait, reapVars, intent, shut>>

\* An HLS start finds a session and goes to finalization without a source.
ReuseSession(c) ==
    /\ pc[c] = "locking" /\ Entered(c) /\ IsHls(c) /\ ~Aborted(c)
    /\ sessions[c.key] # None
    /\ startLock' = [startLock EXCEPT ![c.key] = c]
    /\ pc' = [pc EXCEPT ![c] = "final"]
    /\ UNCHANGED <<gone, pending, fenced, attempt, sourceVars, mapVars, held,
                   stopVars, relWait, reapVars, intent, shut>>

\* Variant: off by one at the limit.
HasRoomForOneMore == MaxSessions = 0 \/ occupied <= MaxSessions

\* Admission::reserve
HasRoom == MaxSessions = 0 \/ occupied < MaxSessions

\* The absent session is opened: reserve, then call the provider.
Reserve(c) ==
    /\ pc[c] = "locking" /\ Entered(c) /\ ~Aborted(c)
    /\ sessions[c.key] = None
    /\ HasRoom
    /\ occupied' = occupied + 1
    /\ src' = [src EXCEPT ![c] = "opening"]
    /\ startLock' = [startLock EXCEPT ![c.key] = c]
    /\ pc' = [pc EXCEPT ![c] = "opening"]
    /\ UNCHANGED <<gone, pending, fenced, attempt, cancelled, complete, broken, mapVars,
                   held, stopVars, relWait, reapVars, intent, shut>>

\* Admission::reserve fails with CapacityExhausted.
CapacityExhausted(c) ==
    /\ pc[c] = "locking" /\ Entered(c) /\ ~Aborted(c)
    /\ sessions[c.key] = None
    /\ ~HasRoom
    /\ Return(c)
    /\ UNCHANGED <<sourceVars, mapVars, held, stopVars, relWait, reapVars, intent, shut>>

\* provider.open returns a source.
Opened(c) ==
    /\ pc[c] = "opening"
    /\ src' = [src EXCEPT ![c] = "opened"]
    /\ pc' = [pc EXCEPT ![c] = "final"]
    /\ UNCHANGED <<gone, pending, fenced, startLock, attempt, occupied, cancelled,
                   complete, broken, mapVars, held, stopVars, relWait, reapVars, intent, shut>>

\* provider.open fails: the reservation is dropped with the error.
OpenFailed(c) ==
    /\ pc[c] = "opening" /\ "failure" \in Events
    /\ src' = [src EXCEPT ![c] = "none"]
    /\ occupied' = occupied - 1
    /\ Return(c)
    /\ UNCHANGED <<cancelled, complete, broken, mapVars, held, stopVars, relWait,
                   reapVars, intent, shut>>

\* Finalization finds the start cancelled.  HlsTransition::finish is only
\* evaluated when neither the epoch nor the caller already failed the start;
\* an opened source is disposed outside the mutex.
Discard(c) ==
    /\ pc[c] = "final" /\ Free /\ Aborted(c)
    /\ IF src[c] = "opened"
       THEN /\ pc' = [pc EXCEPT ![c] = "dispose"]
            /\ LET finished == Current(c) /\ c \notin gone
               IN  /\ pending' = IF finished THEN pending \ {c} ELSE pending
                   /\ fenced' = IF finished THEN fenced \ {c} ELSE fenced
            /\ UNCHANGED <<gone, startLock, attempt>>
       ELSE Return(c)
    /\ UNCHANGED <<sourceVars, mapVars, held, stopVars, relWait, reapVars, intent, shut>>

\* CleanupTracker::dispose_source: the source shuts down and is destroyed.
Dispose(c) ==
    /\ pc[c] = "dispose"
    /\ src' = [src EXCEPT ![c] = "none"]
    /\ occupied' = occupied - 1
    /\ Return(c)
    /\ UNCHANGED <<cancelled, complete, broken, mapVars, held, stopVars, relWait,
                   reapVars, intent, shut>>

\* dispose_source fails: the source is kept, with its reservation, until the
\* manager is destroyed.
DisposeFails(c) ==
    /\ pc[c] = "dispose" /\ "failure" \in Events
    /\ src' = [src EXCEPT ![c] = "leaked"]
    /\ Return(c)
    /\ UNCHANGED <<occupied, cancelled, complete, broken, mapVars, held, stopVars,
                   relWait, reapVars, intent, shut>>

\* Finalization publishes: StreamSession::start_with_cleanup unless a session
\* is there, then the subscription or pin, then the packager of an HLS start.
Publish(c) ==
    LET k == c.key
        s == IF sessions[k] = None THEN c ELSE sessions[k]
        p == IF pkg[k] = None THEN c ELSE pkg[k]
    IN
    /\ pc[c] = "final" /\ Free /\ ~Aborted(c)
    /\ src' = [src EXCEPT ![c] = IF s = c THEN "pumping" ELSE @]
    /\ sessions' = [sessions EXCEPT ![k] = s]
    /\ held' = [held EXCEPT ![c] = s]
    /\ pkg' = IF IsHls(c) THEN [pkg EXCEPT ![k] = p] ELSE pkg
    /\ hlsSession' = IF IsHls(c) /\ p = c THEN [hlsSession EXCEPT ![c] = s]
                     ELSE hlsSession
    /\ recent' = IF c.kind = "hls" THEN recent \cup {p} ELSE recent
    /\ Return(c)
    /\ UNCHANGED <<occupied, cancelled, complete, broken, hlsCancel, stopping,
                   stopVars, relWait, reapVars, intent, shut>>

-----------------------------------------------------------------------------
(* The caller side of a start.                                             *)

\* The initializer's result reaches the caller; a native HLS request keeps the
\* packager and drops the subscription that pinned the session.
Deliver(c) ==
    /\ pc[c] = "returned"
    /\ pc' = [pc EXCEPT ![c] = "done"]
    /\ held' = IF c.kind = "hls" THEN [held EXCEPT ![c] = None] ELSE held
    /\ UNCHANGED <<gone, pending, fenced, startLock, attempt, sourceVars, mapVars,
                   stopVars, relWait, reapVars, intent, shut>>

\* The caller's future is dropped: the initializer sees its cancellation and an
\* undelivered result is dropped with what it owns.
CallerDrops(c) ==
    /\ "drop" \in Events
    /\ pc[c] \in Initializing \cup {"declared", "returned"} /\ c \notin gone
    /\ gone' = gone \cup {c}
    /\ held' = [held EXCEPT ![c] = None]
    /\ pc' = [pc EXCEPT ![c] = IF @ \in Initializing THEN @ ELSE "done"]
    /\ UNCHANGED <<pending, fenced, startLock, attempt, sourceVars, mapVars, stopVars,
                   relWait, reapVars, intent, shut>>

\* A viewer disconnects (Subscription::drop) or a support owner drops its pin.
DropHandle(c) ==
    /\ pc[c] = "done" /\ held[c] # None
    /\ held' = [held EXCEPT ![c] = None]
    /\ UNCHANGED <<callVars, sourceVars, mapVars, stopVars, relWait, reapVars, intent, shut>>

\* Variant: the packager is left in the map.
RetireSession(k) ==
    /\ sessions' = [sessions EXCEPT ![k] = None]
    /\ cancelled' = cancelled \cup {s \in Calls : s = sessions[k]}
    /\ stopping' = RecordStop(k, SessionWorker(k))
    /\ UNCHANGED <<pkg, hlsCancel>>

\* Retire the map entries of k: both are removed, recorded and cancelled.
Retire(k) ==
    /\ sessions' = [sessions EXCEPT ![k] = None]
    /\ pkg' = [pkg EXCEPT ![k] = None]
    /\ cancelled' = cancelled \cup {s \in Calls : s = sessions[k]}
    /\ hlsCancel' = hlsCancel \cup {p \in Calls : p = pkg[k]}
    /\ stopping' = RecordStop(k, SessionWorker(k) \cup PackagerWorker(k))

\* release_support keeps the session: a start is pending, other demand remains
\* on a source that still runs, or the session was replaced.
ReleaseKeeps(c, s) ==
    \/ \E d \in pending : d.key = c.key
    \/ /\ Pump(s) \notin complete
       /\ ActiveHls(c.key) \/ Subscribers(s) # {} \/ SupportPins(s) \ {c} # {}
    \/ sessions[c.key] # s

\* release_support drops the pin under finalization and retires the session
\* when nothing else wants it.
ReleaseSupport(c) ==
    LET s == held[c]
        k == c.key
    IN
    /\ pc[c] = "done" /\ IsSupport(c) /\ s # None /\ Free
    /\ held' = [held EXCEPT ![c] = None]
    /\ IF s \notin cancelled /\ ~ReleaseKeeps(c, s)
       THEN /\ Retire(k)
            /\ relWait' = [relWait EXCEPT ![c] = SessionWorker(k) \cup PackagerWorker(k)]
            /\ pc' = [pc EXCEPT ![c] = "releasing"]
       ELSE /\ relWait' = [relWait EXCEPT ![c] = IF s \in cancelled THEN {Pump(s)} ELSE {}]
            /\ pc' = [pc EXCEPT ![c] = IF s \in cancelled THEN "releasing" ELSE "over"]
            /\ UNCHANGED <<sessions, pkg, cancelled, hlsCancel, stopping>>
    /\ UNCHANGED <<gone, pending, fenced, startLock, attempt, src, occupied, complete,
                   broken, hlsSession, recent, stopVars, reapVars, intent, shut>>

\* release_support returns after the workers it joins are finished.
ReleaseReturns(c) ==
    /\ pc[c] = "releasing" /\ relWait[c] \subseteq Finished
    /\ pc' = [pc EXCEPT ![c] = "over"]
    /\ stopping' = RecordStop(c.key, {})
    /\ UNCHANGED <<gone, pending, fenced, startLock, attempt, sourceVars, sessions, pkg,
                   hlsSession, hlsCancel, recent, held, stopVars, relWait, reapVars,
                   intent, shut>>

-----------------------------------------------------------------------------
(* stop_checked                                                            *)

StopBegin(t) ==
    LET k == t.key
        ws == SessionWorker(k) \cup PackagerWorker(k)
    IN
    /\ stopPc[t] = "idle" /\ Free
    /\ intent' = [intent EXCEPT ![k] = SetRunning(@, FALSE)]
    /\ fenced' = fenced \cup {c \in pending : c.key = k}
    /\ Retire(k)
    /\ stopWait' = [stopWait EXCEPT ![t] = ws \cup stopping'[k]]
    /\ existed' = IF sessions[k] # None \/ stopping'[k] # {}
                  THEN existed \cup {t} ELSE existed
    /\ stopPc' = [stopPc EXCEPT ![t] = "wait"]
    /\ doomed' = doomed \cup Unsettled(k)
    /\ owed' = [owed EXCEPT ![t] = {s \in Calls : s.key = k /\ src[s] \in Live /\ shut = "no"}]
    /\ UNCHANGED <<pc, gone, pending, startLock, attempt, src, occupied, complete, broken,
                   hlsSession, recent, held, relWait, reapVars, shut>>

\* The stop answers once every completion it collected is known.
StopReturns(t) ==
    /\ stopPc[t] = "wait" /\ stopWait[t] \subseteq Finished
    /\ stopPc' = [stopPc EXCEPT ![t] =
                    IF stopWait[t] \cap broken # {} THEN "unconfirmed"
                    ELSE IF t \in existed THEN "stopped" ELSE "absent"]
    /\ stopping' = RecordStop(t.key, {})
    /\ UNCHANGED <<callVars, sourceVars, sessions, pkg, hlsSession, hlsCancel, recent,
                   held, stopWait, existed, doomed, owed, relWait, reapVars, intent, shut>>

-----------------------------------------------------------------------------
(* The idle reaper, reap_idle_at: the pending and active keys are read     *)
(* first, the session map is swept afterwards, the mutex is kept throughout.*)

ReapSnapshot ==
    /\ reapPc = "sleep" /\ shut = "no"
    /\ reapPc' = "retiring"
    /\ reapPending' = {c.key : c \in pending}
    /\ reapActive' = {k \in Keys : ActiveHls(k)}
    /\ UNCHANGED <<callVars, sourceVars, mapVars, held, stopVars, relWait, reapWait,
                   intent, shut>>

\* Variant: the sweep overlooks subscriptions.
IdleKeysWatched == {k \in Keys : /\ sessions[k] # None
                                 /\ SupportPins(sessions[k]) = {}
                                 /\ k \notin reapActive \cup reapPending}

\* Keys whose session nobody subscribes to, pins, reads over HLS or is starting
IdleKeys == {k \in Keys : /\ sessions[k] # None
                          /\ Subscribers(sessions[k]) = {}
                          /\ SupportPins(sessions[k]) = {}
                          /\ k \notin reapActive \cup reapPending}

ReapRetire ==
    LET idle == IdleKeys
        orphan == {k \in Keys : k \in idle \/ sessions[k] = None}
        ws(k) == (IF k \in idle THEN SessionWorker(k) ELSE {})
                   \cup (IF k \in orphan THEN PackagerWorker(k) ELSE {})
    IN
    /\ reapPc = "retiring"
    /\ sessions' = [k \in Keys |-> IF k \in idle THEN None ELSE sessions[k]]
    /\ cancelled' = cancelled \cup {sessions[k] : k \in idle}
    /\ pkg' = [k \in Keys |-> IF k \in orphan THEN None ELSE pkg[k]]
    /\ hlsCancel' = hlsCancel \cup {p \in Calls : \E k \in orphan : p = pkg[k]}
    /\ stopping' = [k \in Keys |-> (stopping[k] \cup ws(k)) \ Finished]
    /\ reapWait' = UNION {ws(k) : k \in Keys}
    /\ reapPc' = "joining"
    /\ reapPending' = {} /\ reapActive' = {}
    /\ UNCHANGED <<callVars, src, occupied, complete, broken, hlsSession, recent, held,
                   stopVars, relWait, intent, shut>>

\* Variant: the reaper sweeps once.
ReapOnce ==
    /\ reapPc = "joining" /\ reapWait \subseteq Finished
    /\ reapPc' = "exited"
    /\ reapWait' = {}
    /\ UNCHANGED <<callVars, sourceVars, mapVars, held, stopVars, relWait, reapPending,
                   reapActive, intent, shut>>

\* The sweep ends when the retired workers are joined; the cancelled reaper
\* leaves its loop instead of sleeping again.
ReapDone ==
    /\ \/ reapPc = "joining" /\ reapWait \subseteq Finished
       \/ reapPc = "sleep" /\ shut # "no"
    /\ reapPc' = IF shut = "no" THEN "sleep" ELSE "exited"
    /\ reapWait' = {}
    /\ UNCHANGED <<callVars, sourceVars, mapVars, held, stopVars, relWait, reapPending,
                   reapActive, intent, shut>>

-----------------------------------------------------------------------------
(* Workers: the pump of a session, the HLS worker, and the coordinator     *)
(* that joins them.                                                        *)

\* The pump leaves its loop, on cancellation or because the source ended, and
\* drops the only strong sender of the session.
PumpEnds(s) ==
    /\ src[s] = "pumping"
    /\ src' = [src EXCEPT ![s] = "draining"]
    /\ UNCHANGED <<callVars, occupied, cancelled, complete, broken, mapVars, held,
                   stopVars, relWait, reapVars, intent, shut>>

\* shutdown_source succeeds: the source and then its reservation are dropped.
SourceCloses(s) ==
    /\ src[s] = "draining"
    /\ src' = [src EXCEPT ![s] = "closed"]
    /\ occupied' = occupied - 1
    /\ UNCHANGED <<callVars, cancelled, complete, broken, mapVars, held, stopVars,
                   relWait, reapVars, intent, shut>>

\* Variant: a failed cleanup gives its reservation back.
SourceFailsAndFrees(s) ==
    /\ src[s] = "draining" /\ "failure" \in Events
    /\ src' = [src EXCEPT ![s] = "failed"]
    /\ occupied' = occupied - 1
    /\ UNCHANGED <<callVars, cancelled, complete, broken, mapVars, held,
                   stopVars, relWait, reapVars, intent, shut>>

\* shutdown_source panics: the source moves to failed_sources.
SourceFails(s) ==
    /\ src[s] = "draining" /\ "failure" \in Events
    /\ src' = [src EXCEPT ![s] = "failed"]
    /\ UNCHANGED <<callVars, occupied, cancelled, complete, broken, mapVars, held,
                   stopVars, relWait, reapVars, intent, shut>>

\* The coordinator joins a finished pump: true is published only for a worker
\* that returned, a panicked one drops its sender.
JoinPump(s) ==
    /\ \/ /\ src[s] = "closed"
          /\ complete' = complete \cup {Pump(s)} /\ broken' = broken
       \/ /\ src[s] = "failed"
          /\ broken' = broken \cup {Pump(s)} /\ complete' = complete
    /\ Pump(s) \notin Finished
    /\ UNCHANGED <<callVars, src, occupied, cancelled, mapVars, held, stopVars, relWait,
                   reapVars, intent, shut>>

\* The HLS worker of a retired packager returns or panics and is joined; the
\* control of a packager still in the map is not handed to the coordinator.
JoinHls(p) ==
    /\ p \in hlsCancel /\ Hls(p) \notin Finished
    /\ \/ complete' = complete \cup {Hls(p)} /\ broken' = broken
       \/ /\ "failure" \in Events
          /\ broken' = broken \cup {Hls(p)} /\ complete' = complete
    /\ UNCHANGED <<callVars, src, occupied, cancelled, mapVars, held, stopVars, relWait,
                   reapVars, intent, shut>>

\* A native playlist or segment request refreshes last_access.
HlsAccess(k) ==
    /\ pkg[k] # None /\ pkg[k] \notin recent
    /\ recent' = recent \cup {pkg[k]}
    /\ UNCHANGED <<callVars, sourceVars, sessions, pkg, hlsSession, hlsCancel, stopping,
                   held, stopVars, relWait, reapVars, intent, shut>>

\* The grace period after the last native access passes.
GraceExpires(p) ==
    /\ p \in recent
    /\ recent' = recent \ {p}
    /\ UNCHANGED <<callVars, sourceVars, sessions, pkg, hlsSession, hlsCancel, stopping,
                   held, stopVars, relWait, reapVars, intent, shut>>

-----------------------------------------------------------------------------
(* Declarations and shutdown.                                              *)

\* set_support_running by the owner of the declaration
SetSupport(k, running) ==
    /\ Free /\ shut = "no"
    /\ intent[k].running # running /\ intent[k].epoch < MaxEpoch
    /\ intent' = [intent EXCEPT ![k] = SetRunning(@, running)]
    /\ doomed' = doomed \cup {c \in Unsettled(k) : c.kind = "support"}
    /\ UNCHANGED <<callVars, sourceVars, mapVars, held, stopPc, stopWait, existed, owed,
                   relWait, reapVars, shut>>

\* restart_support with the current epoch; a stale one changes nothing.
RestartSupport(k) ==
    /\ Free /\ shut = "no"
    /\ intent[k].running /\ intent[k].epoch < MaxEpoch
    /\ intent' = [intent EXCEPT ![k].epoch = @ + 1]
    /\ doomed' = doomed \cup {c \in Unsettled(k) : c.kind = "support"}
    /\ UNCHANGED <<callVars, sourceVars, mapVars, held, stopPc, stopWait, existed, owed,
                   relWait, reapVars, shut>>

\* shutdown fences publication and retires everything under finalization.
ShutBegin ==
    /\ "shutdown" \in Events
    /\ shut = "no" /\ Free
    /\ shut' = "draining"
    /\ intent' = [k \in Keys |-> SetRunning(intent[k], FALSE)]
    /\ cancelled' = cancelled \cup {s \in Calls : \E k \in Keys : s = sessions[k]}
    /\ hlsCancel' = hlsCancel \cup {p \in Calls : \E k \in Keys : p = pkg[k]}
    /\ sessions' = [k \in Keys |-> None]
    /\ pkg' = [k \in Keys |-> None]
    /\ UNCHANGED <<callVars, src, occupied, complete, broken, hlsSession, recent,
                   stopping, held, stopVars, relWait, reapVars>>

\* Variant: the drain does not wait for the initializers.
DrainedWorkers ==
    /\ \A s \in Calls : src[s] \in Live \cup {"closed", "failed"} => Pump(s) \in Finished
    /\ \A p \in Calls : hlsSession[p] # None => Hls(p) \in Finished
    /\ reapPc = "exited"

\* CleanupTracker::drain: every registered completion is known, that of the
\* initializers and of the reaper included.
Drained ==
    /\ \A c \in Calls : pc[c] \notin Initializing
    /\ \A s \in Calls : src[s] \in Live \cup {"closed", "failed"} => Pump(s) \in Finished
    /\ \A p \in Calls : hlsSession[p] # None => Hls(p) \in Finished
    /\ reapPc = "exited"

ShutDone ==
    /\ shut = "draining" /\ Drained
    /\ shut' = IF broken = {} /\ (\A c \in Calls : src[c] # "leaked")
               THEN "closed" ELSE "unclean"
    /\ stopping' = [k \in Keys |-> {}]
    /\ UNCHANGED <<callVars, sourceVars, sessions, pkg, hlsSession, hlsCancel, recent,
                   held, stopVars, relWait, reapVars, intent>>

\* Nothing is left to do after shutdown returned.
Over == shut \in {"closed", "unclean"} /\ UNCHANGED vars

CallStep(c) ==
    \/ DeclareSupport(c) \/ Begin(c) \/ Refuse(c) \/ Abort(c) \/ Join(c) \/ Queue(c)
    \/ ReuseSession(c) \/ Reserve(c) \/ CapacityExhausted(c) \/ Opened(c)
    \/ OpenFailed(c) \/ Discard(c) \/ Dispose(c) \/ DisposeFails(c) \/ Publish(c)
    \/ Deliver(c) \/ CallerDrops(c) \/ DropHandle(c) \/ ReleaseSupport(c)
    \/ ReleaseReturns(c)

WorkerStep(c) ==
    \/ PumpEnds(c) \/ SourceCloses(c) \/ SourceFails(c) \/ JoinPump(c) \/ JoinHls(c)
    \/ GraceExpires(c)

Next ==
    \/ \E c \in Calls : CallStep(c) \/ WorkerStep(c)
    \/ \E t \in Stops : StopBegin(t) \/ StopReturns(t)
    \/ \E k \in Keys : \/ HlsAccess(k) \/ RestartSupport(k)
                       \/ \E b \in BOOLEAN : SetSupport(k, b)
    \/ ReapSnapshot \/ ReapRetire \/ ReapDone
    \/ ShutBegin \/ ShutDone \/ Over

\* Tasks are scheduled, the mutexes are FIFO (tokio), a provider's open and a
\* source's shutdown return.  Requests, natural ends of sources, accesses and
\* the start of a shutdown are not promised.
Fairness ==
    /\ \A c \in {d \in Calls : d.kind = "support"} : SF_vars(Begin(c))
    /\ \A c \in Calls :
        /\ WF_vars(Refuse(c)) /\ WF_vars(Abort(c) \/ Queue(c))
        /\ WF_vars(Dispose(c) \/ DisposeFails(c))
        /\ SF_vars(Abort(c) \/ Join(c) \/ ReuseSession(c) \/ Reserve(c) \/ CapacityExhausted(c))
        /\ WF_vars(Opened(c) \/ OpenFailed(c))
        /\ SF_vars(Discard(c) \/ Publish(c))
        /\ WF_vars(ReleaseReturns(c))
        /\ WF_vars(PumpEnds(c) /\ c \in cancelled)
        /\ WF_vars(SourceCloses(c) \/ SourceFails(c))
        /\ WF_vars(JoinPump(c)) /\ WF_vars(JoinHls(c))
    /\ \A t \in Stops : WF_vars(StopReturns(t))
    /\ WF_vars(ReapSnapshot) /\ WF_vars(ReapRetire) /\ WF_vars(ReapDone)
    /\ WF_vars(ShutDone)

Spec == Init /\ [][Next]_vars
FairSpec == Spec /\ Fairness

-----------------------------------------------------------------------------
(* Properties.                                                             *)

TypeOK ==
    /\ pc \in [Calls -> Initializing \cup {"idle", "declared", "returned", "done",
                                          "releasing", "over"}]
    /\ gone \subseteq Calls /\ pending \subseteq Calls /\ fenced \subseteq Calls
    /\ startLock \in [Keys -> Calls \cup {None}]
    /\ attempt \in [Calls -> Nat]
    /\ src \in [Calls -> Owning \cup {"none", "closed"}]
    /\ occupied \in Int
    /\ cancelled \subseteq Calls /\ complete \subseteq Workers /\ broken \subseteq Workers
    /\ sessions \in [Keys -> Calls \cup {None}]
    /\ pkg \in [Keys -> Calls \cup {None}]
    /\ hlsSession \in [Calls -> Calls \cup {None}]
    /\ hlsCancel \subseteq Calls /\ recent \subseteq Calls
    /\ stopping \in [Keys -> SUBSET Workers]
    /\ held \in [Calls -> Calls \cup {None}]
    /\ stopPc \in [Stops -> {"idle", "wait", "stopped", "absent", "unconfirmed"}]
    /\ stopWait \in [Stops -> SUBSET Workers]
    /\ existed \subseteq Stops /\ doomed \subseteq Calls
    /\ owed \in [Stops -> SUBSET Calls]
    /\ relWait \in [Calls -> SUBSET Workers]
    /\ reapPc \in {"sleep", "retiring", "joining", "exited"}
    /\ reapPending \subseteq Keys /\ reapActive \subseteq Keys
    /\ reapWait \subseteq Workers
    /\ intent \in [Keys -> [epoch : Nat, running : BOOLEAN]]
    /\ shut \in {"no", "draining", "closed", "unclean"}

\* The calls whose source exists
Owners == {c \in Calls : src[c] \in Owning}

\* OUTPACE_MAX_SESSIONS bounds provider resources: the count is the number of
\* sources that exist, those of cancelled starts, of retired sessions still
\* shutting down and of failed cleanups included.
AdmissionExact ==
    /\ occupied = Cardinality(Owners)
    /\ MaxSessions # 0 => occupied <= MaxSessions

\* An HLS start that reused a session still finds it at finalization: the
\* expect("an absent HLS session must have an opened source") cannot fire,
\* because reap and release spare keys with a pending generation.
FinalizeHasSource ==
    \A c \in Calls : pc[c] = "final" /\ src[c] = "none" /\ ~Aborted(c)
                        => sessions[c.key] # None

\* Same-key callers perform exactly one provider open: a key never has two
\* sources among the ones being opened and the published one.
OneSourcePerKey ==
    \A c, d \in Calls :
        /\ c # d /\ c.key = d.key
        /\ src[c] \in {"opening", "opened"}
        => src[d] \notin {"opening", "opened"} /\ sessions[c.key] # d

\* Both sides of single-flight starts: what a start was promised is there when
\* it finalizes, and no second source was opened for it.
StartIsSingle == FinalizeHasSource /\ OneSourcePerKey

\* A packager in the map reads the session in the map: replacing a session
\* never leaves the packager of its predecessor behind.
PackagerMatchesSession ==
    \A k \in Keys : pkg[k] # None => hlsSession[pkg[k]] = sessions[k]

\* A call in flight when a stop of its key took effect neither publishes a
\* session nor obtains a subscription or pin, in every interleaving of the
\* registration of its generation, its waits and the stop; so does a support
\* attempt whose declaration was stopped or restarted meanwhile.
FencedNeverPublishes ==
    \A c \in doomed : held[c] = None /\ (\A k \in Keys : sessions[k] # c)

\* stop_checked that does not report unconfirmed cleanup has seen every source
\* of the key destroyed, also those another path retired before the stop.
StopConfirmed ==
    \A t \in Stops : stopPc[t] \in {"stopped", "absent"} =>
        \A s \in owed[t] : src[s] = "closed"

\* A stop is what its caller takes it for: nothing it overtook comes back, and
\* what it reports as stopped is destroyed.
StopsAreTrue == FencedNeverPublishes /\ StopConfirmed

\* Once shutdown fenced publication nothing is published again.
NothingAfterShutdown ==
    shut # "no" => \A k \in Keys : sessions[k] = None /\ pkg[k] = None

\* shutdown() returns true only when no source is left, and false only leaves
\* sources whose cleanup failed.
ShutdownConfirmed ==
    /\ shut = "closed" => occupied = 0
    /\ shut = "unclean" => \A c \in Calls : src[c] \in {"none", "closed", "failed", "leaked"}

\* The shutdown fence holds from the first step of shutdown() to its answer.
ShutdownHolds == NothingAfterShutdown /\ ShutdownConfirmed

\* Idle reaping and the release of the last pin never retire a session that
\* a viewer or another support owner holds, during the handoff of the result
\* included; only a stop, a shutdown or the end of the source do.
DemandKeepsSession ==
    [][\A s \in cancelled' \ cancelled :
          (\E c \in Calls : held[c] = s /\ held'[c] = s) =>
             \/ shut' # shut \/ stopPc' # stopPc
             \/ Pump(s) \in complete]_vars

\* Every initializer ends, whatever stops, drops, sweeps and shutdowns happen.
EveryCallReturns ==
    \A c \in Calls : []<>(pc[c] \notin Initializing)

\* Every DELETE is answered.
EveryStopReturns == \A t \in Stops : []<>(stopPc[t] # "wait")

\* shutdown() returns: the drain is not kept waiting by a worker nobody cancels.
ShutdownReturns == []<>(shut # "draining")

\* Nobody who stops something waits for ever, neither a DELETE nor shutdown().
StopsReturn == EveryStopReturns /\ ShutdownReturns

\* A session without demand does not stay in the map.
Idle(k) ==
    /\ sessions[k] # None /\ Subscribers(sessions[k]) = {} /\ SupportPins(sessions[k]) = {}
    /\ ~ActiveHls(k) /\ (\A c \in pending : c.key # k)
IdleIsReaped == \A k \in Keys : []<>(~Idle(k))

\* The manager never leaves anyone or anything waiting: initializers end, stops
\* and shutdown() are answered, and a session that nobody demands is reaped.
ManagerProgresses == EveryCallReturns /\ StopsReturn /\ IdleIsReaped
=============================================================================
