--------------------------- MODULE SupportService ---------------------------
(***************************************************************************)
(* The supervisor of the declared support sources: support.rs of           *)
(* ace-engine, with the calls it makes of the stream manager.              *)
(*                                                                         *)
(* Every declaration has an intent (epoch and running), which operators    *)
(* change through start and stop, and one worker, which opens a source for *)
(* the intent it last read, keeps a pin on it, releases the pin when the   *)
(* intent moves on or the source ends, and retries with a growing delay.   *)
(* The worker's receiver of the intent is a watch channel: `seen' is the   *)
(* version it has consumed, and since every change takes a new epoch the   *)
(* version is the epoch.                                                   *)
(***************************************************************************)
EXTENDS Integers

CONSTANTS Names,     \* the declarations
          MaxEpoch,  \* bound on the epochs of a declaration
          Events     \* what may go wrong: "failure" of a cleanup, "panic"

ASSUME SupportAssumption ==
    /\ MaxEpoch \in Nat /\ Events \subseteq {"failure", "panic"}
    /\ "none" \notin Names

VARIABLES
    intent,     \* SupportControl::desired
    status,     \* the published SupportStatus: epoch and state
    faulty,     \* declarations whose cleanup_failed is set
    wpc,        \* where each worker is
    cur,        \* the epoch the worker acts for
    seen,       \* the version of the intent its receiver has consumed
    delay,      \* seconds before the next retry
    unconf,     \* the session's completion was dropped unconfirmed
    opening,    \* the manager's answer to acquire_declared_support
    source,     \* the session behind the worker's pin
    admission,  \* the declaration whose start holds the admission mutex, and
                \* the status it read: a record, or the idle record
    closed,     \* the service is closed: every worker's cancel is set
    shut,       \* shutdown(): "no", "draining", "clean" or "unclean"
    view,       \* the status a reader of status() borrowed
    slept,      \* history: the last backoff of the worker ran to its end
    tried,      \* history: the last epoch the worker opened a source for
    lost        \* history: declarations whose worker was told, or has to assume,
                \* that a cleanup is not confirmed, whatever it makes of that

vars == <<intent, status, faulty, wpc, cur, seen, delay, unconf, opening,
          source, admission, closed, shut, view, slept, tried, lost>>
workerVars == <<cur, seen, delay, unconf, opening, source, slept, tried, lost>>
serviceVars == <<admission, closed, shut, view>>

-----------------------------------------------------------------------------
States == {"starting", "running", "retrying", "stopped", "error"}
Failures == {"retry", "permanent", "cancelled", "unconfirmed"}
Pcs == {"top", "parked", "opening", "held", "releasing", "backoff",
        "drainOpening", "drainRelease", "finish", "report", "done"}

Idle == [name |-> "none", epoch |-> 0, state |-> "starting"]

\* The failures of StartFailureKind::retryable, and the fault of one of them
Retryable(r) == r = "retry"

\* SupportControl::set_running and restart_if_epoch
SetRunning(i, b) ==
    IF i.running = b THEN i ELSE [epoch |-> i.epoch + 1, running |-> b]
RestartIfEpoch(i, e) ==
    IF i.epoch # e \/ ~i.running THEN i ELSE [i EXCEPT !.epoch = e + 1]

\* Variant: the backoff is not capped by the doubling.
DoubledForever(d) == 2 * d

Doubled(d) == IF 2 * d < 30 THEN 2 * d ELSE 30

\* publish
Publish(n, e, s) == status' = [status EXCEPT ![n] = [epoch |-> e, state |-> s]]

\* The terminal or resting state a worker publishes
Resting(n) == IF n \in faulty THEN "error" ELSE "stopped"

\* What status() answers for n: the borrowed status against the intent of now
View(n) ==
    IF n \in faulty THEN [state |-> "error", pending |-> FALSE]
    ELSE IF view[n].epoch # intent[n].epoch
         THEN [state |-> IF intent[n].running THEN "starting" ELSE "stopped",
               pending |-> TRUE]
         ELSE [state |-> view[n].state, pending |-> FALSE]

Init ==
    /\ intent = [n \in Names |-> [epoch |-> 1, running |-> TRUE]]
    /\ status = [n \in Names |-> [epoch |-> 1, state |-> "starting"]]
    /\ faulty = {}
    /\ wpc = [n \in Names |-> "top"]
    /\ cur = [n \in Names |-> 0]
    /\ seen = [n \in Names |-> 0]
    /\ delay = [n \in Names |-> 1]
    /\ unconf = [n \in Names |-> FALSE]
    /\ opening = [n \in Names |-> "none"]
    /\ source = [n \in Names |-> "none"]
    /\ admission = Idle
    /\ closed = FALSE /\ shut = "no"
    /\ view = status
    /\ slept = [n \in Names |-> FALSE]
    /\ tried = [n \in Names |-> 0]
    /\ lost = {}

-----------------------------------------------------------------------------
(* The operator's side: start, stop, status and shutdown.                  *)

\* A stop of the key at the stream manager lowers the intent without the
\* admission mutex: also between the two halves of a start.
KeyStopped(n) ==
    /\ intent[n].epoch < MaxEpoch
    /\ intent' = [intent EXCEPT ![n] = SetRunning(@, FALSE)]
    /\ UNCHANGED <<status, faulty, wpc, workerVars, serviceVars>>

\* stop holds the admission mutex over its single call of the manager.
Stop(n) == admission = Idle /\ KeyStopped(n)

\* start checks, and borrows the status, before it awaits the manager.
StartRead(n) ==
    /\ admission = Idle /\ ~closed /\ n \notin faulty
    /\ intent[n].epoch < MaxEpoch
    /\ admission' = [name |-> n, epoch |-> status[n].epoch,
                     state |-> IF status[n].epoch = intent[n].epoch
                               THEN status[n].state ELSE "starting"]
    /\ UNCHANGED <<intent, status, faulty, wpc, workerVars, closed, shut, view>>

\* A start after an error of the current epoch takes a new epoch.
StartApply(n) ==
    /\ admission.name = n
    /\ intent' = [intent EXCEPT ![n] =
                    IF admission.state = "error"
                    THEN RestartIfEpoch(@, admission.epoch)
                    ELSE SetRunning(@, TRUE)]
    /\ admission' = Idle
    /\ UNCHANGED <<status, faulty, wpc, workerVars, closed, shut, view>>

\* A reader of status() borrows the published status of n.
Borrow(n) ==
    /\ view' = [view EXCEPT ![n] = status[n]]
    /\ UNCHANGED <<intent, status, faulty, wpc, workerVars, admission, closed, shut>>

ShutBegin ==
    /\ shut = "no" /\ admission = Idle
    /\ closed' = TRUE /\ shut' = "draining"
    /\ UNCHANGED <<intent, status, faulty, wpc, workerVars, admission, view>>

\* Every joined worker has returned; a fault of any of them is reported.
ShutDone ==
    /\ shut = "draining" /\ \A n \in Names : wpc[n] = "done"
    /\ shut' = IF faulty = {} THEN "clean" ELSE "unclean"
    /\ UNCHANGED <<intent, status, faulty, wpc, workerVars, admission, closed, view>>

-----------------------------------------------------------------------------
(* The manager's side of an attempt, and of the session behind a pin.      *)

\* A session is published and pinned only while the attempt is current.
ManagerOpens(n) ==
    /\ opening[n] = "pending"
    /\ intent[n] = [epoch |-> cur[n], running |-> TRUE]
    /\ opening' = [opening EXCEPT ![n] = "ok"]
    /\ source' = [source EXCEPT ![n] = "live"]
    /\ UNCHANGED <<intent, status, faulty, wpc, cur, seen, delay, unconf, slept,
                   tried, lost, serviceVars>>

\* The attempt fails: refused as stale, fenced by a stop of the key, or for
\* a reason of its own, an unconfirmed cleanup among them.
ManagerFails(n) ==
    /\ opening[n] = "pending"
    /\ \E r \in Failures :
         /\ r = "unconfirmed" => "failure" \in Events
         /\ opening' = [opening EXCEPT ![n] = r]
         /\ lost' = IF r = "unconfirmed" THEN lost \cup {n} ELSE lost
    /\ UNCHANGED <<intent, status, faulty, wpc, cur, seen, delay, unconf, source,
                   slept, tried, serviceVars>>

\* The session ends by itself or by a stop of its key.
SourceEnds(n) ==
    /\ source[n] = "live"
    /\ \E c \in {"complete", "broken"} :
         /\ c = "broken" => "failure" \in Events
         /\ source' = [source EXCEPT ![n] = c]
    /\ UNCHANGED <<intent, status, faulty, wpc, cur, seen, delay, unconf, opening,
                   slept, tried, lost, serviceVars>>

-----------------------------------------------------------------------------
(* The worker: run() of support.rs.                                        *)

Step(n, from, to) == wpc[n] = from /\ wpc' = [wpc EXCEPT ![n] = to]

\* Variant: a resting worker only waits for its intent.
CancelledBusy(n) ==
    /\ closed
    /\ \E p \in {"top", "backoff"} : Step(n, p, "finish")
    /\ UNCHANGED <<intent, status, faulty, workerVars, serviceVars>>

\* finish_worker begins wherever the worker notices that it is cancelled.
Cancelled(n) ==
    /\ closed
    /\ \E p \in {"top", "parked", "backoff"} : Step(n, p, "finish")
    /\ UNCHANGED <<intent, status, faulty, workerVars, serviceVars>>

\* The head of the loop reads the intent and rests, for it is not running.
Park(n) ==
    /\ Step(n, "top", "parked") /\ ~closed
    /\ ~intent[n].running \/ n \in faulty
    /\ seen' = [seen EXCEPT ![n] = intent[n].epoch]
    /\ delay' = [delay EXCEPT ![n] = IF intent[n].epoch # cur[n] THEN 1 ELSE @]
    /\ cur' = [cur EXCEPT ![n] = intent[n].epoch]
    /\ Publish(n, intent[n].epoch, Resting(n))
    /\ UNCHANGED <<intent, faulty, unconf, opening, source, slept, tried, lost, serviceVars>>

\* The head of the loop starts an attempt for the intent it reads.
Attempt(n) ==
    /\ Step(n, "top", "opening") /\ ~closed
    /\ intent[n].running /\ n \notin faulty
    /\ seen' = [seen EXCEPT ![n] = intent[n].epoch]
    /\ delay' = [delay EXCEPT ![n] = IF intent[n].epoch # cur[n] THEN 1 ELSE @]
    /\ cur' = [cur EXCEPT ![n] = intent[n].epoch]
    /\ tried' = [tried EXCEPT ![n] = intent[n].epoch]
    /\ opening' = [opening EXCEPT ![n] = "pending"]
    /\ Publish(n, intent[n].epoch, "starting")
    /\ UNCHANGED <<intent, faulty, unconf, source, slept, lost, serviceVars>>

\* fault: a cleanup that was not confirmed is remembered in cleanup_failed
Fault(n, really) == faulty' = IF really THEN faulty \cup {n} ELSE faulty

\* Variant: a cancelled worker leaves without awaiting its opening.
CancelAbandons(n) ==
    /\ Step(n, "opening", "finish") /\ closed
    /\ intent' = [intent EXCEPT ![n] = SetRunning(@, FALSE)]
    /\ UNCHANGED <<status, faulty, workerVars, serviceVars>>

\* A cancelled worker still awaits its opening, after it cleared the intent.
CancelOpening(n) ==
    /\ Step(n, "opening", "drainOpening") /\ closed
    /\ intent' = [intent EXCEPT ![n] = SetRunning(@, FALSE)]
    /\ UNCHANGED <<status, faulty, workerVars, serviceVars>>

\* The opening a cancelled worker waited for ends without a pin, or with one
\* that it goes on to release.
DrainOpening(n) ==
    /\ opening[n] \notin {"none", "pending"}
    /\ Step(n, "drainOpening", IF opening[n] = "ok" THEN "drainRelease" ELSE "finish")
    /\ Fault(n, opening[n] = "unconfirmed")
    /\ opening' = [opening EXCEPT ![n] = "none"]
    /\ UNCHANGED <<intent, status, cur, seen, delay, unconf, source, slept, tried,
                   lost, serviceVars>>

\* The attempt gave a pin: Running is published.
Opened(n) ==
    /\ Step(n, "opening", "held") /\ ~closed
    /\ opening[n] = "ok"
    /\ opening' = [opening EXCEPT ![n] = "none"]
    /\ Publish(n, cur[n], "running")
    /\ UNCHANGED <<intent, faulty, cur, seen, delay, unconf, source, slept, tried,
                   lost, serviceVars>>

\* Variant: a failure of a past intent consumes the new one and rests.
FailedStaleParks(n) ==
    /\ Step(n, "opening", "parked") /\ ~closed
    /\ opening[n] \in Failures /\ intent[n].epoch # cur[n]
    /\ Fault(n, opening[n] = "unconfirmed")
    /\ opening' = [opening EXCEPT ![n] = "none"]
    /\ seen' = [seen EXCEPT ![n] = intent[n].epoch]
    /\ UNCHANGED <<intent, status, cur, delay, unconf, source, slept, tried,
                   lost, serviceVars>>

\* Variant: the answer to a past intent is dropped before it is looked at.
FailedStaleForgets(n) ==
    /\ Step(n, "opening", "top") /\ ~closed
    /\ opening[n] \in Failures /\ intent[n].epoch # cur[n]
    /\ opening' = [opening EXCEPT ![n] = "none"]
    /\ UNCHANGED <<intent, status, faulty, cur, seen, delay, unconf, source, slept,
                   tried, lost, serviceVars>>

\* The attempt failed for an intent that has moved on: no state is published.
FailedStale(n) ==
    /\ Step(n, "opening", "top") /\ ~closed
    /\ opening[n] \in Failures /\ intent[n].epoch # cur[n]
    /\ Fault(n, opening[n] = "unconfirmed")
    /\ opening' = [opening EXCEPT ![n] = "none"]
    /\ UNCHANGED <<intent, status, cur, seen, delay, unconf, source, slept, tried,
                   lost, serviceVars>>

\* A failure no retry helps against: Error, until the intent changes.
FailedForGood(n) ==
    /\ Step(n, "opening", "parked") /\ ~closed
    /\ opening[n] \in Failures /\ intent[n].epoch = cur[n] /\ ~Retryable(opening[n])
    /\ Fault(n, opening[n] = "unconfirmed")
    /\ opening' = [opening EXCEPT ![n] = "none"]
    /\ Publish(n, cur[n], "error")
    /\ UNCHANGED <<intent, cur, seen, delay, unconf, source, slept, tried, lost,
                   serviceVars>>

\* The tail of the loop: publish Retrying, double the delay and sleep.
Retry(n) ==
    /\ Publish(n, cur[n], "retrying")
    /\ delay' = [delay EXCEPT ![n] = Doubled(@)]
    /\ slept' = [slept EXCEPT ![n] = FALSE]

FailedRetryable(n) ==
    /\ Step(n, "opening", "backoff") /\ ~closed
    /\ opening[n] \in Failures /\ intent[n].epoch = cur[n] /\ Retryable(opening[n])
    /\ opening' = [opening EXCEPT ![n] = "none"]
    /\ Retry(n)
    /\ UNCHANGED <<intent, faulty, cur, seen, unconf, source, tried, lost, serviceVars>>

\* Thirty seconds of observed progress reset the backoff.
Progress(n) ==
    /\ wpc[n] = "held" /\ source[n] = "live"
    /\ delay' = [delay EXCEPT ![n] = 1]
    /\ UNCHANGED <<intent, status, faulty, wpc, cur, seen, unconf, opening, source,
                   slept, tried, lost, serviceVars>>

\* The wait ends for cancellation, the end of the source, or a new intent,
\* which the receiver may or may not have consumed.
LetGo(n) ==
    /\ Step(n, "held", "releasing")
    /\ closed \/ source[n] # "live" \/ intent[n].epoch # cur[n]
    /\ \E v \in {seen[n], intent[n].epoch} : seen' = [seen EXCEPT ![n] = v]
    /\ unconf' = [unconf EXCEPT ![n] = source[n] = "broken"]
    /\ lost' = IF source[n] = "broken" THEN lost \cup {n} ELSE lost
    /\ UNCHANGED <<intent, status, faulty, cur, delay, opening, source, slept, tried,
                   serviceVars>>

\* release_support returns: the pin is gone, its cleanup is confirmed or not,
\* and the worker takes that for a fault or does not.
Released(n, confirmed, faults) ==
    /\ source' = [source EXCEPT ![n] = "none"]
    /\ lost' = IF confirmed THEN lost ELSE lost \cup {n}
    /\ Fault(n, faults)

\* Variants: a failed release is not a fault; a source that ended is reopened
\* at once.
ReleaseForgives(n) ==
    /\ \E ok \in BOOLEAN :
         /\ ~ok => "failure" \in Events
         /\ Step(n, "releasing",
                 IF closed THEN "finish"
                 ELSE IF intent[n].epoch # cur[n] THEN "top" ELSE "backoff")
         /\ source' = [source EXCEPT ![n] = "none"]
         /\ lost' = IF ok THEN lost ELSE lost \cup {n}
    /\ IF wpc'[n] = "backoff" THEN Retry(n) ELSE UNCHANGED <<status, delay, slept>>
    /\ UNCHANGED <<intent, faulty, cur, seen, unconf, opening, tried, serviceVars>>
ReleaseHot(n) ==
    /\ \E ok \in BOOLEAN :
         /\ ~ok => "failure" \in Events
         /\ Step(n, "releasing", IF closed THEN "finish" ELSE "top")
         /\ Released(n, ok, ~ok \/ unconf[n])
    /\ UNCHANGED <<intent, status, cur, seen, delay, unconf, opening, slept, tried,
                   serviceVars>>

\* What follows the release: finish, the head of the loop, or a retry.
Release(n) ==
    /\ \E ok \in BOOLEAN :
         /\ ~ok => "failure" \in Events
         /\ Step(n, "releasing",
                 IF closed THEN "finish"
                 ELSE IF intent[n].epoch # cur[n] \/ n \in faulty \/ ~ok \/ unconf[n]
                      THEN "top" ELSE "backoff")
         /\ Released(n, ok, ~ok \/ unconf[n])
    /\ IF wpc'[n] = "backoff" THEN Retry(n) ELSE UNCHANGED <<status, delay, slept>>
    /\ UNCHANGED <<intent, cur, seen, unconf, opening, tried, serviceVars>>

DrainRelease(n) ==
    /\ Step(n, "drainRelease", "finish")
    /\ \E ok \in BOOLEAN :
         /\ ~ok => "failure" \in Events
         /\ Released(n, ok, ~ok)
    /\ UNCHANGED <<intent, status, cur, seen, delay, unconf, opening, slept, tried,
                   serviceVars>>

\* desired.changed() ends a rest or a backoff and consumes the change.
Wake(n) ==
    /\ \E p \in {"parked", "backoff"} : Step(n, p, "top")
    /\ ~closed /\ intent[n].epoch # seen[n]
    /\ seen' = [seen EXCEPT ![n] = intent[n].epoch]
    /\ UNCHANGED <<intent, status, faulty, cur, delay, unconf, opening, source, slept,
                   tried, lost, serviceVars>>

SleepEnds(n) ==
    /\ Step(n, "backoff", "top") /\ ~closed
    /\ slept' = [slept EXCEPT ![n] = TRUE]
    /\ UNCHANGED <<intent, status, faulty, cur, seen, delay, unconf, opening, source,
                   tried, lost, serviceVars>>

\* The worker panics while it samples the session; the pin is dropped and the
\* uncertainty recorded before the manager is called.
Panic(n) ==
    /\ "panic" \in Events
    /\ Step(n, "held", "finish")
    /\ Released(n, FALSE, TRUE)
    /\ UNCHANGED <<intent, status, cur, seen, delay, unconf, opening, slept, tried,
                   serviceVars>>

\* finish_worker: clear the intent, then report its epoch.
Finish(n) ==
    /\ Step(n, "finish", "report")
    /\ intent' = [intent EXCEPT ![n] = SetRunning(@, FALSE)]
    /\ UNCHANGED <<status, faulty, workerVars, serviceVars>>

Report(n) ==
    /\ Step(n, "report", "done")
    /\ Publish(n, intent[n].epoch, Resting(n))
    /\ UNCHANGED <<intent, faulty, workerVars, serviceVars>>

\* The service has nothing left to do.
Quiescent == shut \in {"clean", "unclean"} /\ UNCHANGED vars

Worker(n) ==
    \/ Cancelled(n) \/ Park(n) \/ Attempt(n)
    \/ CancelOpening(n) \/ DrainOpening(n) \/ DrainRelease(n)
    \/ Opened(n) \/ FailedStale(n) \/ FailedForGood(n) \/ FailedRetryable(n)
    \/ LetGo(n) \/ Release(n) \/ Wake(n) \/ SleepEnds(n)
    \/ Finish(n) \/ Report(n)

Next ==
    \/ \E n \in Names :
         \/ Stop(n) \/ KeyStopped(n) \/ StartRead(n) \/ StartApply(n)
         \/ Borrow(n)
         \/ ManagerOpens(n) \/ ManagerFails(n) \/ SourceEnds(n)
         \/ Progress(n) \/ Panic(n) \/ Worker(n)
    \/ ShutBegin \/ ShutDone \/ Quiescent

\* The worker's task, the manager's initializer and the owner of the service
\* are always scheduled; operators, readers and the end of a source are not.
Fairness ==
    /\ \A n \in Names : WF_vars(Worker(n)) /\ WF_vars(StartApply(n))
                        /\ WF_vars(ManagerOpens(n) \/ ManagerFails(n))
    /\ WF_vars(ShutDone)

Spec == Init /\ [][Next]_vars
FairSpec == Spec /\ Fairness

-----------------------------------------------------------------------------
(* Properties.                                                             *)

\* Types of the state of support.rs.  The delay between retries never leaves
\* 1..30 seconds, whatever the order of failures, resets and new epochs.
TypeOK ==
    /\ intent \in [Names -> [epoch : Nat, running : BOOLEAN]]
    /\ status \in [Names -> [epoch : Nat, state : States]]
    /\ view \in [Names -> [epoch : Nat, state : States]]
    /\ faulty \subseteq Names /\ lost \subseteq Names
    /\ wpc \in [Names -> Pcs]
    /\ cur \in [Names -> Nat] /\ seen \in [Names -> Nat] /\ tried \in [Names -> Nat]
    /\ delay \in [Names -> 1..30]
    /\ unconf \in [Names -> BOOLEAN] /\ slept \in [Names -> BOOLEAN]
    /\ opening \in [Names -> {"none", "pending", "ok"} \cup Failures]
    /\ source \in [Names -> {"none", "live", "complete", "broken"}]
    /\ admission \in [name : Names \cup {"none"}, epoch : Nat, state : States]
    /\ closed \in BOOLEAN
    /\ shut \in {"no", "draining", "clean", "unclean"}

\* A reader that is told "stopped", with no transition pending, is told of a
\* declaration that holds no pin and has no attempt in flight, though the
\* status, the intent and the fault flag are read one after the other.
StoppedIsReleased ==
    \A n \in Names : View(n) = [state |-> "stopped", pending |-> FALSE] =>
                       source[n] = "none" /\ opening[n] = "none"

\* shutdown() answers true only when every worker returned its pin, no
\* cleanup was left unconfirmed and no declaration is still meant to run.
ShutdownIsClean ==
    shut = "clean" => \A n \in Names :
        /\ source[n] = "none" /\ opening[n] = "none" /\ n \notin lost
        /\ ~intent[n].running

\* Nothing is left open behind an answer that says so, of status() or shutdown().
NothingIsLeft == StoppedIsReleased /\ ShutdownIsClean

\* Where a worker has dealt with whatever it was told
Settled == {"top", "parked", "opening", "held", "backoff", "report", "done"}

\* A cleanup that was not confirmed is never lost sight of.  Whether the bad
\* news is the answer to an attempt, the end of the source, the result of a
\* release or a panic, and however the intent moved meanwhile, the worker that
\* is through with it reports the declaration as in error and opens no source
\* for it again, in any later epoch.
LossIsRemembered ==
    [][\A n \in lost : wpc'[n] # wpc[n] =>
         /\ wpc'[n] # "opening"
         /\ wpc'[n] \in Settled => View(n)'.state = "error"]_vars

\* A second attempt for the same epoch only follows a backoff that ran to its
\* end: no change of the intent, stale or consumed, turns the loop hot.
RetriesAreDelayed ==
    [][\A n \in Names : wpc[n] = "top" /\ wpc'[n] = "opening" =>
         tried'[n] # tried[n] \/ slept[n]]_vars

\* A stop takes effect: the worker ends up with no pin and reports the epoch
\* of the stop, unless the intent changes again; a faulty declaration ends up
\* with no pin and status() reports its fault.
StopIsApplied ==
    \A n \in Names : \A e \in 2..MaxEpoch :
        intent[n] = [epoch |-> e, running |-> FALSE] ~>
            \/ intent[n].epoch # e
            \/ source[n] = "none" /\ (n \in faulty \/
                 status[n] \in [epoch : {e}, state : {"stopped", "error"}])

\* A start is never lost: an intent to run is attempted, unless it changes,
\* the cleanup is unconfirmed or the service closes.
StartIsAttempted ==
    \A n \in Names : \A e \in 1..MaxEpoch :
        intent[n] = [epoch |-> e, running |-> TRUE] ~>
            tried[n] = e \/ intent[n].epoch # e \/ n \in faulty \/ closed

\* Operators are obeyed: stops take effect and starts are attempted.
IntentIsApplied == StopIsApplied /\ StartIsAttempted

\* shutdown() returns whatever the workers were doing.
ShutdownReturns == shut = "draining" ~> shut \in {"clean", "unclean"}

\* Operators are obeyed and shutdown() is answered.
SupportProgresses == IntentIsApplied /\ ShutdownReturns
=============================================================================
