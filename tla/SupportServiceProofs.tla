------------------------ MODULE SupportServiceProofs ------------------------
(***************************************************************************)
(* Theorems about the support supervisor, for every set of declarations    *)
(* and every bound on the epochs.                                          *)
(*                                                                         *)
(* The published status is trustworthy because of three facts that only    *)
(* hold together: where the worker is decides whether a pin or an attempt  *)
(* can exist (WorkerInv); a finished worker's intent stays down since a    *)
(* closed service admits no start (EndInv); and a status "stopped" of the  *)
(* current epoch means that the intent is down and nothing is open         *)
(* (RestInv), for the status just published and for one borrowed earlier.  *)
(***************************************************************************)
EXTENDS SupportService, TLAPS

USE SupportAssumption DEF SupportAssumption

-----------------------------------------------------------------------------
(* Types                                                                   *)

\* The doubled delay of a retry stays within 1..30 seconds.
LEMMA DelayBounded == ASSUME NEW d \in 1..30 PROVE Doubled(d) \in 1..30
  BY DEF Doubled

\* A change of the intent is an intent again.
LEMMA IntentTyped ==
    ASSUME NEW i \in [epoch : Nat, running : BOOLEAN], NEW b \in BOOLEAN, NEW e \in Nat
    PROVE  /\ SetRunning(i, b) \in [epoch : Nat, running : BOOLEAN]
           /\ RestartIfEpoch(i, e) \in [epoch : Nat, running : BOOLEAN]
  BY DEF SetRunning, RestartIfEpoch

\* Every step of the service, its workers and the manager keeps the types; the
\* retry delay of run() stays between one and thirty seconds.
LEMMA TypeStep == TypeOK /\ [Next]_vars => TypeOK'
  <1> SUFFICES ASSUME TypeOK, [Next]_vars PROVE TypeOK'
    OBVIOUS
  <1> USE DEF TypeOK, Pcs, States, Failures, workerVars, serviceVars
  <1>1. ASSUME NEW n \in Names, KeyStopped(n) PROVE TypeOK'
    BY <1>1, IntentTyped DEF KeyStopped
  <1>2. ASSUME NEW n \in Names, StartRead(n) PROVE TypeOK'
    BY <1>2 DEF StartRead
  <1>3. ASSUME NEW n \in Names, StartApply(n) PROVE TypeOK'
    BY <1>3, IntentTyped DEF StartApply, Idle
  <1>4. ASSUME NEW n \in Names, Borrow(n) PROVE TypeOK'
    BY <1>4 DEF Borrow
  <1>5. ASSUME NEW n \in Names, ManagerOpens(n) \/ ManagerFails(n) \/ SourceEnds(n)
        PROVE TypeOK'
    <2>1. CASE ManagerOpens(n)
      BY <2>1 DEF ManagerOpens
    <2>2. CASE ManagerFails(n)
      BY <2>2 DEF ManagerFails
    <2>3. CASE SourceEnds(n)
      BY <2>3 DEF SourceEnds
    <2> QED BY <1>5, <2>1, <2>2, <2>3
  <1>6. ASSUME NEW n \in Names, Progress(n) \/ Panic(n) PROVE TypeOK'
    <2>1. CASE Progress(n)
      BY <2>1 DEF Progress
    <2>2. CASE Panic(n)
      BY <2>2 DEF Panic, Step, Released, Fault
    <2> QED BY <1>6, <2>1, <2>2
  <1>7. ASSUME NEW n \in Names, Worker(n) PROVE TypeOK'
    <2>1. CASE Cancelled(n)
      BY <2>1 DEF Cancelled, Step
    <2>2. CASE Park(n)
      BY <2>2 DEF Park, Step, Publish, Resting
    <2>3. CASE Attempt(n)
      BY <2>3 DEF Attempt, Step, Publish
    <2>4. CASE CancelOpening(n)
      BY <2>4, IntentTyped DEF CancelOpening, Step
    <2>15. CASE Finish(n)
      BY <2>15, IntentTyped DEF Finish, Step
    <2>5. CASE DrainOpening(n)
      BY <2>5 DEF DrainOpening, Step, Fault
    <2>6. CASE DrainRelease(n)
      BY <2>6 DEF DrainRelease, Step, Released, Fault
    <2>7. CASE Opened(n)
      BY <2>7 DEF Opened, Step, Publish
    <2>8. CASE FailedStale(n)
      BY <2>8 DEF FailedStale, Step, Fault
    <2>9. CASE FailedForGood(n)
      BY <2>9 DEF FailedForGood, Step, Fault, Publish
    <2>10. CASE FailedRetryable(n)
      BY <2>10, DelayBounded DEF FailedRetryable, Step, Retry, Publish
    <2>11. CASE LetGo(n)
      BY <2>11 DEF LetGo, Step
    <2>12. CASE Release(n)
      <3>1. CASE wpc'[n] = "backoff"
        <4>1. Doubled(delay[n]) \in 1..30
          BY DelayBounded
        <4>2. /\ status' = [status EXCEPT ![n] = [epoch |-> cur[n], state |-> "retrying"]]
              /\ delay' = [delay EXCEPT ![n] = Doubled(delay[n])]
              /\ slept' = [slept EXCEPT ![n] = FALSE]
          BY <2>12, <3>1 DEF Release, Retry, Publish
        <4> QED BY <2>12, <4>1, <4>2 DEF Release, Step, Released, Fault
      <3>2. CASE wpc'[n] # "backoff"
        BY <2>12, <3>2 DEF Release, Step, Released, Fault
      <3> QED BY <3>1, <3>2
    <2>13. CASE Wake(n)
      BY <2>13 DEF Wake, Step
    <2>16. CASE SleepEnds(n)
      BY <2>16 DEF SleepEnds, Step
    <2>14. CASE Report(n)
      BY <2>14 DEF Report, Step, Publish, Resting
    <2> QED
      BY <1>7, <2>1, <2>2, <2>3, <2>4, <2>5, <2>6, <2>7, <2>8, <2>9, <2>10, <2>11,
         <2>12, <2>13, <2>14, <2>15, <2>16 DEF Worker
  <1>8. CASE ShutBegin \/ ShutDone
    BY <1>8 DEF ShutBegin, ShutDone
  <1>9. CASE UNCHANGED vars
    BY <1>9 DEF vars
  <1> QED
    BY <1>1, <1>2, <1>3, <1>4, <1>5, <1>6, <1>7, <1>8, <1>9 DEF Next, Quiescent, Stop

\* The service is type correct, and the delay between retries is bounded.
THEOREM SupportTypes == Spec => []TypeOK
  <1>1. Init => TypeOK
    <2> SUFFICES ASSUME Init PROVE TypeOK
      OBVIOUS
    <2>1. status \in [Names -> [epoch : Nat, state : States]]
      BY DEF Init, States
    <2>2. admission \in [name : Names \cup {"none"}, epoch : Nat, state : States]
      BY DEF Init, Idle, States
    <2>3. /\ intent \in [Names -> [epoch : Nat, running : BOOLEAN]]
          /\ delay \in [Names -> 1..30]
          /\ cur \in [Names -> Nat] /\ seen \in [Names -> Nat] /\ tried \in [Names -> Nat]
      BY DEF Init
    <2>4. /\ wpc \in [Names -> Pcs]
          /\ opening \in [Names -> {"none", "pending", "ok"} \cup Failures]
          /\ source \in [Names -> {"none", "live", "complete", "broken"}]
      BY DEF Init, Pcs
    <2>5. unconf \in [Names -> BOOLEAN] /\ slept \in [Names -> BOOLEAN]
      BY DEF Init
    <2> QED BY <2>1, <2>2, <2>3, <2>4, <2>5 DEF Init, TypeOK
  <1> QED
    BY <1>1, TypeStep, PTL DEF Spec

-----------------------------------------------------------------------------
(* The inductive invariant                                                 *)

\* Where the worker is decides what can be open: an attempt is in flight only
\* while its answer is awaited, a pin exists only until its release returns.
WorkerInv ==
    \A n \in Names :
        /\ opening[n] # "none" => wpc[n] \in {"opening", "drainOpening"}
        /\ source[n] # "none" =>
             wpc[n] \in {"held", "releasing", "drainRelease"} \/ opening[n] = "ok"

\* A worker only leaves for a closed service or after a fault; a closed
\* service admits no start, so the intent of a worker that left stays down.
EndInv ==
    /\ closed => admission = Idle
    /\ \A n \in Names :
         /\ wpc[n] \in {"drainOpening", "drainRelease", "finish", "report", "done"}
              => closed \/ n \in faulty
         /\ wpc[n] \in {"report", "done"} => n \in faulty \/ ~intent[n].running
    /\ shut # "no" => closed
    /\ shut = "clean" => faulty = {} /\ \A n \in Names : wpc[n] = "done"

\* A status st of n that says "stopped" for the current epoch is true.
Truthful(n, st) ==
    st.state = "stopped" =>
        /\ st.epoch <= intent[n].epoch
        /\ st.epoch = intent[n].epoch =>
             ~intent[n].running /\ source[n] = "none" /\ opening[n] = "none"

RestInv == \A n \in Names : Truthful(n, status[n]) /\ Truthful(n, view[n])

\* A cleanup known to be unconfirmed is recorded, or the worker still has the
\* news in hand: as the answer to its attempt, or as the dropped completion it
\* saw when it let go of the source.
LossInv ==
    \A n \in lost :
        \/ n \in faulty
        \/ wpc[n] \in {"opening", "drainOpening"} /\ opening[n] = "unconfirmed"
        \/ wpc[n] = "releasing" /\ unconf[n]

SupportInv == WorkerInv /\ EndInv /\ RestInv /\ LossInv

\* A change of the intent that is not a no-op takes a larger epoch.
LEMMA IntentGrows ==
    ASSUME NEW i \in [epoch : Nat, running : BOOLEAN], NEW b \in BOOLEAN, NEW e \in Nat
    PROVE  /\ SetRunning(i, b) = i \/ SetRunning(i, b).epoch > i.epoch
           /\ RestartIfEpoch(i, e) = i \/ RestartIfEpoch(i, e).epoch > i.epoch
           /\ ~SetRunning(i, FALSE).running
  BY DEF SetRunning, RestartIfEpoch

\* What a reader is told of n stays true when the intent moves up, nothing is
\* opened and no new "stopped" is published.
LEMMA TruthKept ==
    ASSUME TypeOK, TypeOK', RestInv, NEW n \in Names,
           intent'[n] = intent[n] \/ intent'[n].epoch > intent[n].epoch,
           source'[n] = source[n] \/ source'[n] = "none",
           opening'[n] = opening[n] \/ opening'[n] = "none",
           status'[n] = status[n] \/ status'[n].state # "stopped",
           view'[n] \in {view[n], status[n]}
    PROVE  (Truthful(n, status[n]) /\ Truthful(n, view[n]))'
  <1>1. /\ intent[n] \in [epoch : Nat, running : BOOLEAN]
        /\ intent'[n] \in [epoch : Nat, running : BOOLEAN]
        /\ status[n] \in [epoch : Nat, state : States]
        /\ view[n] \in [epoch : Nat, state : States]
    BY DEF TypeOK
  <1>2. ASSUME NEW st \in {status[n], view[n]}
        PROVE  st.state = "stopped" =>
                 /\ st.epoch <= intent'[n].epoch
                 /\ st.epoch = intent'[n].epoch =>
                      ~intent'[n].running /\ source'[n] = "none" /\ opening'[n] = "none"
    <2>1. CASE intent'[n] = intent[n]
      BY <1>1, <1>2, <2>1 DEF RestInv, Truthful
    <2>2. CASE intent'[n].epoch > intent[n].epoch
      BY <1>1, <1>2, <2>2 DEF RestInv, Truthful
    <2> QED BY <2>1, <2>2
  <1> QED BY <1>2 DEF Truthful

\* Every step leaves a pin or an attempt only where the worker can return it.
LEMMA WorkerStep == TypeOK /\ WorkerInv /\ [Next]_vars => WorkerInv'
  <1> SUFFICES ASSUME TypeOK, WorkerInv, [Next]_vars PROVE WorkerInv'
    OBVIOUS
  <1> USE DEF TypeOK, WorkerInv, workerVars, serviceVars, Failures
  <1>1. ASSUME NEW n \in Names, KeyStopped(n) PROVE WorkerInv'
    BY <1>1 DEF KeyStopped
  <1>2. ASSUME NEW n \in Names, StartRead(n) PROVE WorkerInv'
    BY <1>2 DEF StartRead
  <1>3. ASSUME NEW n \in Names, StartApply(n) PROVE WorkerInv'
    BY <1>3 DEF StartApply
  <1>4. ASSUME NEW n \in Names, Borrow(n) PROVE WorkerInv'
    BY <1>4 DEF Borrow
  <1>5. ASSUME NEW n \in Names, ManagerOpens(n) PROVE WorkerInv'
    BY <1>5 DEF ManagerOpens
  <1>6. ASSUME NEW n \in Names, ManagerFails(n) PROVE WorkerInv'
    BY <1>6 DEF ManagerFails
  <1>7. ASSUME NEW n \in Names, SourceEnds(n) PROVE WorkerInv'
    BY <1>7 DEF SourceEnds
  <1>8. ASSUME NEW n \in Names, Progress(n) PROVE WorkerInv'
    BY <1>8 DEF Progress
  <1>9. ASSUME NEW n \in Names, Panic(n) PROVE WorkerInv'
    BY <1>9 DEF Panic, Step, Released, Fault
  <1>10. ASSUME NEW n \in Names, Cancelled(n) PROVE WorkerInv'
    BY <1>10 DEF Cancelled, Step
  <1>11. ASSUME NEW n \in Names, Park(n) PROVE WorkerInv'
    BY <1>11 DEF Park, Step
  <1>12. ASSUME NEW n \in Names, Attempt(n) PROVE WorkerInv'
    BY <1>12 DEF Attempt, Step
  <1>13. ASSUME NEW n \in Names, CancelOpening(n) PROVE WorkerInv'
    BY <1>13 DEF CancelOpening, Step
  <1>14. ASSUME NEW n \in Names, DrainOpening(n) PROVE WorkerInv'
    BY <1>14 DEF DrainOpening, Step, Fault
  <1>15. ASSUME NEW n \in Names, DrainRelease(n) PROVE WorkerInv'
    BY <1>15 DEF DrainRelease, Step, Released, Fault
  <1>16. ASSUME NEW n \in Names, Opened(n) PROVE WorkerInv'
    BY <1>16 DEF Opened, Step
  <1>17. ASSUME NEW n \in Names, FailedStale(n) PROVE WorkerInv'
    BY <1>17 DEF FailedStale, Step, Fault
  <1>18. ASSUME NEW n \in Names, FailedForGood(n) PROVE WorkerInv'
    BY <1>18 DEF FailedForGood, Step, Fault
  <1>19. ASSUME NEW n \in Names, FailedRetryable(n) PROVE WorkerInv'
    BY <1>19 DEF FailedRetryable, Step
  <1>20. ASSUME NEW n \in Names, LetGo(n) PROVE WorkerInv'
    BY <1>20 DEF LetGo, Step
  <1>21. ASSUME NEW n \in Names, Release(n) PROVE WorkerInv'
    BY <1>21 DEF Release, Step, Released, Fault
  <1>22. ASSUME NEW n \in Names, Wake(n) PROVE WorkerInv'
    BY <1>22 DEF Wake, Step
  <1>23. ASSUME NEW n \in Names, SleepEnds(n) PROVE WorkerInv'
    BY <1>23 DEF SleepEnds, Step
  <1>24. ASSUME NEW n \in Names, Finish(n) PROVE WorkerInv'
    BY <1>24 DEF Finish, Step
  <1>25. ASSUME NEW n \in Names, Report(n) PROVE WorkerInv'
    BY <1>25 DEF Report, Step
  <1>26. CASE ShutBegin
    BY <1>26 DEF ShutBegin
  <1>27. CASE ShutDone
    BY <1>27 DEF ShutDone
  <1>28. CASE UNCHANGED vars
    BY <1>28 DEF vars
  <1> QED
    BY <1>1, <1>2, <1>3, <1>4, <1>5, <1>6, <1>7, <1>8, <1>9, <1>10, <1>11,
       <1>12, <1>13, <1>14, <1>15, <1>16, <1>17, <1>18, <1>19, <1>20, <1>21,
       <1>22, <1>23, <1>24, <1>25, <1>26, <1>27, <1>28 DEF Next, Worker,
       Quiescent, Stop

\* Every step keeps the intent of a departed worker down.
LEMMA EndStep == TypeOK /\ EndInv /\ [Next]_vars => EndInv'
  <1> SUFFICES ASSUME TypeOK, EndInv, [Next]_vars PROVE EndInv'
    OBVIOUS
  <1> USE DEF TypeOK, EndInv, workerVars, serviceVars, Idle
  <1>1. ASSUME NEW n \in Names, KeyStopped(n) PROVE EndInv'
    <2>1. ~SetRunning(intent[n], FALSE).running
      BY IntentGrows
    <2>2. /\ intent' = [intent EXCEPT ![n] = SetRunning(intent[n], FALSE)]
          /\ ~intent'[n].running /\ \A j \in Names \ {n} : intent'[j] = intent[j]
      BY <1>1, <2>1 DEF KeyStopped
    <2> QED BY <1>1, <2>2 DEF KeyStopped
  <1>2. ASSUME NEW n \in Names, StartRead(n) PROVE EndInv'
    BY <1>2 DEF StartRead
  <1>3. ASSUME NEW n \in Names, StartApply(n) PROVE EndInv'
    <2>1. admission # Idle /\ ~closed
      BY <1>3 DEF StartApply
    <2> QED BY <1>3, <2>1 DEF StartApply
  <1>4. ASSUME NEW n \in Names, Borrow(n) PROVE EndInv'
    BY <1>4 DEF Borrow
  <1>5. ASSUME NEW n \in Names, ManagerOpens(n) PROVE EndInv'
    BY <1>5 DEF ManagerOpens
  <1>6. ASSUME NEW n \in Names, ManagerFails(n) PROVE EndInv'
    BY <1>6 DEF ManagerFails
  <1>7. ASSUME NEW n \in Names, SourceEnds(n) PROVE EndInv'
    BY <1>7 DEF SourceEnds
  <1>8. ASSUME NEW n \in Names, Progress(n) PROVE EndInv'
    BY <1>8 DEF Progress
  <1>9. ASSUME NEW n \in Names, Panic(n) PROVE EndInv'
    BY <1>9 DEF Panic, Step, Released, Fault
  <1>10. ASSUME NEW n \in Names, Cancelled(n) PROVE EndInv'
    BY <1>10 DEF Cancelled, Step
  <1>11. ASSUME NEW n \in Names, Park(n) PROVE EndInv'
    BY <1>11 DEF Park, Step
  <1>12. ASSUME NEW n \in Names, Attempt(n) PROVE EndInv'
    BY <1>12 DEF Attempt, Step
  <1>13. ASSUME NEW n \in Names, CancelOpening(n) PROVE EndInv'
    BY <1>13, IntentGrows DEF CancelOpening, Step
  <1>14. ASSUME NEW n \in Names, DrainOpening(n) PROVE EndInv'
    BY <1>14 DEF DrainOpening, Step, Fault
  <1>15. ASSUME NEW n \in Names, DrainRelease(n) PROVE EndInv'
    BY <1>15 DEF DrainRelease, Step, Released, Fault
  <1>16. ASSUME NEW n \in Names, Opened(n) PROVE EndInv'
    BY <1>16 DEF Opened, Step
  <1>17. ASSUME NEW n \in Names, FailedStale(n) PROVE EndInv'
    BY <1>17 DEF FailedStale, Step, Fault
  <1>18. ASSUME NEW n \in Names, FailedForGood(n) PROVE EndInv'
    BY <1>18 DEF FailedForGood, Step, Fault
  <1>19. ASSUME NEW n \in Names, FailedRetryable(n) PROVE EndInv'
    BY <1>19 DEF FailedRetryable, Step
  <1>20. ASSUME NEW n \in Names, LetGo(n) PROVE EndInv'
    BY <1>20 DEF LetGo, Step
  <1>21. ASSUME NEW n \in Names, Release(n) PROVE EndInv'
    BY <1>21 DEF Release, Step, Released, Fault
  <1>22. ASSUME NEW n \in Names, Wake(n) PROVE EndInv'
    BY <1>22 DEF Wake, Step
  <1>23. ASSUME NEW n \in Names, SleepEnds(n) PROVE EndInv'
    BY <1>23 DEF SleepEnds, Step
  <1>24. ASSUME NEW n \in Names, Finish(n) PROVE EndInv'
    <2>1. ~SetRunning(intent[n], FALSE).running
      BY IntentGrows
    <2>2. /\ intent' = [intent EXCEPT ![n] = SetRunning(intent[n], FALSE)]
          /\ ~intent'[n].running /\ \A j \in Names \ {n} : intent'[j] = intent[j]
      BY <1>24, <2>1 DEF Finish
    <2> QED BY <1>24, <2>2 DEF Finish, Step
  <1>25. ASSUME NEW n \in Names, Report(n) PROVE EndInv'
    BY <1>25 DEF Report, Step
  <1>26. CASE ShutBegin
    BY <1>26 DEF ShutBegin
  <1>27. CASE ShutDone
    BY <1>27 DEF ShutDone
  <1>28. CASE UNCHANGED vars
    BY <1>28 DEF vars
  <1> QED
    BY <1>1, <1>2, <1>3, <1>4, <1>5, <1>6, <1>7, <1>8, <1>9, <1>10, <1>11,
       <1>12, <1>13, <1>14, <1>15, <1>16, <1>17, <1>18, <1>19, <1>20, <1>21,
       <1>22, <1>23, <1>24, <1>25, <1>26, <1>27, <1>28 DEF Next, Worker,
       Quiescent, Stop

\* Every step keeps the bad news until it is recorded in cleanup_failed.
LEMMA LossStep == TypeOK /\ WorkerInv /\ LossInv /\ [Next]_vars => LossInv'
  <1> SUFFICES ASSUME TypeOK, WorkerInv, LossInv, [Next]_vars PROVE LossInv'
    OBVIOUS
  <1> USE DEF TypeOK, WorkerInv, LossInv, workerVars, serviceVars, Failures
  <1>1. ASSUME NEW n \in Names, KeyStopped(n) PROVE LossInv'
    BY <1>1 DEF KeyStopped
  <1>2. ASSUME NEW n \in Names, StartRead(n) PROVE LossInv'
    BY <1>2 DEF StartRead
  <1>3. ASSUME NEW n \in Names, StartApply(n) PROVE LossInv'
    BY <1>3 DEF StartApply
  <1>4. ASSUME NEW n \in Names, Borrow(n) PROVE LossInv'
    BY <1>4 DEF Borrow
  <1>5. ASSUME NEW n \in Names, ManagerOpens(n) PROVE LossInv'
    BY <1>5 DEF ManagerOpens
  <1>6. ASSUME NEW n \in Names, ManagerFails(n) PROVE LossInv'
    BY <1>6 DEF ManagerFails
  <1>7. ASSUME NEW n \in Names, SourceEnds(n) PROVE LossInv'
    BY <1>7 DEF SourceEnds
  <1>8. ASSUME NEW n \in Names, Progress(n) PROVE LossInv'
    BY <1>8 DEF Progress
  <1>9. ASSUME NEW n \in Names, Panic(n) PROVE LossInv'
    BY <1>9 DEF Panic, Step, Released, Fault
  <1>10. ASSUME NEW n \in Names, Cancelled(n) PROVE LossInv'
    BY <1>10 DEF Cancelled, Step
  <1>11. ASSUME NEW n \in Names, Park(n) PROVE LossInv'
    BY <1>11 DEF Park, Step
  <1>12. ASSUME NEW n \in Names, Attempt(n) PROVE LossInv'
    BY <1>12 DEF Attempt, Step
  <1>13. ASSUME NEW n \in Names, CancelOpening(n) PROVE LossInv'
    BY <1>13 DEF CancelOpening, Step
  <1>14. ASSUME NEW n \in Names, DrainOpening(n) PROVE LossInv'
    BY <1>14 DEF DrainOpening, Step, Fault
  <1>15. ASSUME NEW n \in Names, DrainRelease(n) PROVE LossInv'
    BY <1>15 DEF DrainRelease, Step, Released, Fault
  <1>16. ASSUME NEW n \in Names, Opened(n) PROVE LossInv'
    BY <1>16 DEF Opened, Step
  <1>17. ASSUME NEW n \in Names, FailedStale(n) PROVE LossInv'
    BY <1>17 DEF FailedStale, Step, Fault
  <1>18. ASSUME NEW n \in Names, FailedForGood(n) PROVE LossInv'
    BY <1>18 DEF FailedForGood, Step, Fault
  <1>19. ASSUME NEW n \in Names, FailedRetryable(n) PROVE LossInv'
    BY <1>19 DEF FailedRetryable, Step, Retryable
  <1>20. ASSUME NEW n \in Names, LetGo(n) PROVE LossInv'
    <2>1. /\ wpc' = [wpc EXCEPT ![n] = "releasing"] /\ wpc[n] = "held"
          /\ opening' = opening /\ faulty' = faulty
          /\ lost' = IF source[n] = "broken" THEN lost \cup {n} ELSE lost
      BY <1>20 DEF LetGo, Step
    <2>2. /\ source[n] = "broken" => unconf'[n]
          /\ \A j \in Names \ {n} : unconf'[j] = unconf[j]
      <3>1. /\ unconf \in [Names -> BOOLEAN]
            /\ unconf' = [unconf EXCEPT ![n] = source[n] = "broken"]
        BY <1>20 DEF LetGo
      <3> QED BY ONLY <3>1, n \in Names, Zenon
    <2>3. n \in lost => n \in faulty
      BY <2>1
    <2> QED BY <2>1, <2>2, <2>3
  <1>21. ASSUME NEW n \in Names, Release(n) PROVE LossInv'
    BY <1>21 DEF Release, Step, Released, Fault
  <1>22. ASSUME NEW n \in Names, Wake(n) PROVE LossInv'
    BY <1>22 DEF Wake, Step
  <1>23. ASSUME NEW n \in Names, SleepEnds(n) PROVE LossInv'
    BY <1>23 DEF SleepEnds, Step
  <1>24. ASSUME NEW n \in Names, Finish(n) PROVE LossInv'
    BY <1>24 DEF Finish, Step
  <1>25. ASSUME NEW n \in Names, Report(n) PROVE LossInv'
    BY <1>25 DEF Report, Step
  <1>26. CASE ShutBegin
    BY <1>26 DEF ShutBegin
  <1>27. CASE ShutDone
    BY <1>27 DEF ShutDone
  <1>28. CASE UNCHANGED vars
    BY <1>28 DEF vars
  <1> QED
    BY <1>1, <1>2, <1>3, <1>4, <1>5, <1>6, <1>7, <1>8, <1>9, <1>10, <1>11,
       <1>12, <1>13, <1>14, <1>15, <1>16, <1>17, <1>18, <1>19, <1>20, <1>21,
       <1>22, <1>23, <1>24, <1>25, <1>26, <1>27, <1>28 DEF Next, Worker,
       Quiescent, Stop

\* Every step keeps what a reader is told true.
LEMMA RestStep == TypeOK /\ TypeOK' /\ SupportInv /\ [Next]_vars => RestInv'
  <1> SUFFICES ASSUME TypeOK, TypeOK', SupportInv, [Next]_vars, NEW n \in Names
               PROVE  (Truthful(n, status[n]) /\ Truthful(n, view[n]))'
    BY DEF RestInv
  <1>t. /\ intent \in [Names -> [epoch : Nat, running : BOOLEAN]]
        /\ intent[n] \in [epoch : Nat, running : BOOLEAN]
        /\ status \in [Names -> [epoch : Nat, state : States]]
        /\ view \in [Names -> [epoch : Nat, state : States]]
        /\ opening \in [Names -> {"none", "pending", "ok"} \cup Failures]
        /\ source \in [Names -> {"none", "live", "complete", "broken"}]
        /\ admission.epoch \in Nat
        /\ RestInv
    BY DEF TypeOK, SupportInv
  <1> USE DEF workerVars, serviceVars
  <1>1. ASSUME NEW j \in Names, KeyStopped(j) \/ CancelOpening(j) \/ Finish(j)
        PROVE (Truthful(n, status[n]) /\ Truthful(n, view[n]))'
    <2>1. intent'[n] = intent[n] \/ intent'[n].epoch > intent[n].epoch
      <3>1. intent' = [intent EXCEPT ![j] = SetRunning(intent[j], FALSE)]
        BY <1>1 DEF KeyStopped, CancelOpening, Finish
      <3>2. \/ SetRunning(intent[n], FALSE) = intent[n]
            \/ SetRunning(intent[n], FALSE).epoch > intent[n].epoch
        BY <1>t, IntentGrows
      <3> QED BY <1>t, <3>1, <3>2
    <2> QED BY <1>1, <1>t, <2>1, TruthKept DEF KeyStopped, CancelOpening, Finish
  <1>2. ASSUME NEW j \in Names, StartApply(j)
        PROVE (Truthful(n, status[n]) /\ Truthful(n, view[n]))'
    <2>1. intent'[n] = intent[n] \/ intent'[n].epoch > intent[n].epoch
      BY <1>2, <1>t, IntentGrows DEF StartApply
    <2> QED BY <1>2, <1>t, <2>1, TruthKept DEF StartApply
  <1>3. ASSUME NEW j \in Names, StartRead(j) \/ Borrow(j) \/ Progress(j) \/ Panic(j)
        PROVE (Truthful(n, status[n]) /\ Truthful(n, view[n]))'
    BY <1>3, <1>t, TruthKept DEF StartRead, Borrow, Progress, Panic, Released
  <1>4. ASSUME NEW j \in Names, ManagerOpens(j)
        PROVE (Truthful(n, status[n]) /\ Truthful(n, view[n]))'
    <2>1. CASE j = n
      BY <1>4, <1>t, <2>1 DEF ManagerOpens, RestInv, Truthful
    <2>2. CASE j # n
      BY <1>4, <1>t, <2>2, TruthKept DEF ManagerOpens
    <2> QED BY <2>1, <2>2
  <1>5. ASSUME NEW j \in Names, ManagerFails(j)
        PROVE (Truthful(n, status[n]) /\ Truthful(n, view[n]))'
    BY <1>5, <1>t DEF ManagerFails, RestInv, Truthful
  <1>6. ASSUME NEW j \in Names, SourceEnds(j)
        PROVE (Truthful(n, status[n]) /\ Truthful(n, view[n]))'
    BY <1>6, <1>t DEF SourceEnds, RestInv, Truthful
  <1>7. ASSUME NEW j \in Names, Park(j)
        PROVE (Truthful(n, status[n]) /\ Truthful(n, view[n]))'
    <2>1. CASE j = n
      <3>1. source[n] = "none" /\ opening[n] = "none"
        BY <1>7, <2>1 DEF Park, Step, SupportInv, WorkerInv
      <3>2. /\ status'[n] = [epoch |-> intent[n].epoch, state |-> Resting(n)]
            /\ Resting(n) = "stopped" => ~intent[n].running
            /\ intent' = intent /\ view' = view /\ source' = source /\ opening' = opening
        BY <1>7, <1>t, <2>1 DEF Park, Publish, Resting
      <3>3. Truthful(n, status[n])'
        BY <1>t, <3>1, <3>2 DEF Truthful
      <3>4. Truthful(n, view[n])'
        BY <1>t, <3>2 DEF RestInv, Truthful
      <3> QED BY <3>3, <3>4
    <2>2. CASE j # n
      BY <1>7, <1>t, <2>2, TruthKept DEF Park, Publish
    <2> QED BY <2>1, <2>2
  <1>8. ASSUME NEW j \in Names, Report(j)
        PROVE (Truthful(n, status[n]) /\ Truthful(n, view[n]))'
    <2>1. CASE j = n
      <3>1. source[n] = "none" /\ opening[n] = "none"
        BY <1>8, <2>1 DEF Report, Step, SupportInv, WorkerInv
      <3>2. /\ status'[n] = [epoch |-> intent[n].epoch, state |-> Resting(n)]
            /\ Resting(n) = "stopped" => ~intent[n].running
            /\ intent' = intent /\ view' = view /\ source' = source /\ opening' = opening
        BY <1>8, <1>t, <2>1 DEF Report, Step, Publish, Resting, SupportInv, EndInv
      <3>3. Truthful(n, status[n])'
        BY <1>t, <3>1, <3>2 DEF Truthful
      <3>4. Truthful(n, view[n])'
        BY <1>t, <3>2 DEF RestInv, Truthful
      <3> QED BY <3>3, <3>4
    <2>2. CASE j # n
      BY <1>8, <1>t, <2>2, TruthKept DEF Report, Publish
    <2> QED BY <2>1, <2>2
  <1>9. ASSUME NEW j \in Names, Attempt(j)
        PROVE (Truthful(n, status[n]) /\ Truthful(n, view[n]))'
    <2>1. CASE j = n
      BY <1>9, <1>t, <2>1 DEF Attempt, Publish, RestInv, Truthful
    <2>2. CASE j # n
      BY <1>9, <1>t, <2>2, TruthKept DEF Attempt, Publish
    <2> QED BY <2>1, <2>2
  <1>10. ASSUME NEW j \in Names,
                Cancelled(j) \/ DrainOpening(j) \/ DrainRelease(j) \/ FailedStale(j)
                  \/ LetGo(j) \/ Wake(j) \/ SleepEnds(j)
         PROVE (Truthful(n, status[n]) /\ Truthful(n, view[n]))'
    BY <1>10, <1>t, TruthKept
       DEF Cancelled, DrainOpening, DrainRelease, FailedStale, LetGo, Wake, SleepEnds, Released
  <1>11. ASSUME NEW j \in Names, Opened(j) \/ FailedForGood(j) \/ FailedRetryable(j)
         PROVE (Truthful(n, status[n]) /\ Truthful(n, view[n]))'
    <2>1. \E st \in [epoch : Nat, state : {"running", "error", "retrying"}] :
            status' = [status EXCEPT ![j] = st]
      BY <1>11 DEF TypeOK, Opened, FailedForGood, FailedRetryable, Retry, Publish
    <2>2. status'[n] = status[n] \/ status'[n].state # "stopped"
      BY <1>t, <2>1
    <2>3. opening'[n] = opening[n] \/ opening'[n] = "none"
      BY <1>11, <1>t DEF Opened, FailedForGood, FailedRetryable
    <2>4. intent'[n] = intent[n] /\ source'[n] = source[n] /\ view'[n] = view[n]
      BY <1>11 DEF Opened, FailedForGood, FailedRetryable
    <2> QED BY <1>t, <2>2, <2>3, <2>4, TruthKept
  <1>12. ASSUME NEW j \in Names, Release(j)
         PROVE (Truthful(n, status[n]) /\ Truthful(n, view[n]))'
    <2>1. status'[n] = status[n] \/ status'[n].state # "stopped"
      BY <1>12, <1>t DEF Release, Retry, Publish
    <2> QED BY <1>12, <1>t, <2>1, TruthKept DEF Release, Released
  <1>13. CASE ShutBegin \/ ShutDone \/ UNCHANGED vars
    BY <1>13, <1>t, TruthKept DEF ShutBegin, ShutDone, vars
  <1> QED
    BY <1>1, <1>2, <1>3, <1>4, <1>5, <1>6, <1>7, <1>8, <1>9, <1>10, <1>11, <1>12,
       <1>13 DEF Next, Worker, Quiescent, Stop

-----------------------------------------------------------------------------
(* The theorems                                                            *)

\* The four parts of the invariant hold together.
THEOREM SupportInvariant == Spec => []SupportInv
  <1>1. Init => SupportInv
    BY DEF Init, SupportInv, WorkerInv, EndInv, RestInv, LossInv, Truthful
  <1>2. TypeOK /\ TypeOK' /\ SupportInv /\ [Next]_vars => SupportInv'
    BY WorkerStep, EndStep, RestStep, LossStep DEF SupportInv
  <1> QED
    BY <1>1, <1>2, SupportTypes, PTL DEF Spec

\* Whoever is told "stopped" by status() can rely on it.
THEOREM StoppedMeansReleased == Spec => []StoppedIsReleased
  <1>1. TypeOK /\ SupportInv => StoppedIsReleased
    BY DEF TypeOK, SupportInv, RestInv, Truthful, StoppedIsReleased, View
  <1> QED
    BY <1>1, SupportTypes, SupportInvariant, PTL

\* A shutdown that answers true left nothing open and nothing unconfirmed.
THEOREM ShutdownMeansClean == Spec => []ShutdownIsClean
  <1>1. SupportInv => ShutdownIsClean
    BY DEF SupportInv, WorkerInv, EndInv, LossInv, ShutdownIsClean
  <1> QED
    BY <1>1, SupportInvariant, PTL

\* Both together: "stopped" and a clean shutdown mean that nothing is left open.
THEOREM NothingLeft == Spec => []NothingIsLeft
  <1>1. StoppedIsReleased /\ ShutdownIsClean => NothingIsLeft
    BY DEF NothingIsLeft
  <1> QED
    BY <1>1, StoppedMeansReleased, ShutdownMeansClean, PTL

\* No unconfirmed cleanup is ever lost sight of: the worker that is through with
\* it reports an error, and no source of that declaration is opened again.
THEOREM LossesAreRemembered == Spec => LossIsRemembered
  <1>1. ASSUME TypeOK, TypeOK', SupportInv, LossInv', Next, NEW n \in lost, wpc'[n] # wpc[n]
        PROVE  /\ wpc'[n] # "opening"
               /\ wpc'[n] \in Settled => View(n)'.state = "error"
    <2> USE DEF TypeOK
    <2>0. n \in Names /\ n \in lost'
      <3>1. ASSUME NEW j \in Names, Worker(j) PROVE lost \subseteq lost'
        BY <3>1 DEF Worker, Cancelled, Park, Attempt, CancelOpening, DrainOpening,
           DrainRelease, Opened, FailedStale, FailedForGood, FailedRetryable, LetGo,
           Release, Wake, SleepEnds, Finish, Report, Released, workerVars
      <3>2. ASSUME NEW j \in Names,
                   Panic(j) \/ ManagerFails(j) \/ ManagerOpens(j) \/ SourceEnds(j)
                   \/ KeyStopped(j) \/ StartRead(j) \/ StartApply(j) \/ Borrow(j)
                   \/ Progress(j)
            PROVE  lost \subseteq lost'
        BY <3>2 DEF Panic, ManagerFails, ManagerOpens, SourceEnds, KeyStopped, StartRead,
           StartApply, Borrow, Progress, Released, workerVars
      <3> QED BY <1>1, <3>1, <3>2 DEF Next, Stop, Quiescent, ShutBegin, ShutDone, vars,
            workerVars
    <2>1. wpc'[n] \notin {"opening", "drainOpening", "releasing"} => n \in faulty'
      BY <1>1, <2>0 DEF LossInv
    <2>2. wpc'[n] # "opening"
      <3> SUFFICES ASSUME wpc'[n] = "opening" PROVE FALSE
        OBVIOUS
      <3>0. wpc[n] # "opening" /\ n \in Names /\ wpc \in [Names -> Pcs]
        BY <1>1, <2>0
      <3>1. ASSUME NEW j \in Names, Worker(j) PROVE j = n /\ Attempt(n)
        BY <3>0, <3>1 DEF Worker, Step, Cancelled, Park, Attempt, CancelOpening,
           DrainOpening, DrainRelease, Opened, FailedStale, FailedForGood, FailedRetryable,
           LetGo, Release, Wake, SleepEnds, Finish, Report
      <3>2. ASSUME NEW j \in Names, Panic(j) PROVE FALSE
        BY <1>1, <2>0, <3>2 DEF Panic, Step
      <3>3. Attempt(n)
        BY <1>1, <3>1, <3>2 DEF Next, Quiescent, vars, Stop, KeyStopped, StartRead,
           StartApply, Borrow, ManagerOpens, ManagerFails, SourceEnds, Progress,
           ShutBegin, ShutDone
      <3> QED BY <1>1, <3>3 DEF Attempt, Step, SupportInv, LossInv
    <2> QED BY <2>0, <2>1, <2>2 DEF Settled, View
  <1>2. TypeOK /\ TypeOK' /\ SupportInv /\ SupportInv' /\ [Next]_vars =>
          [\A n \in lost : wpc'[n] # wpc[n] =>
             /\ wpc'[n] # "opening"
             /\ wpc'[n] \in Settled => View(n)'.state = "error"]_vars
    BY <1>1 DEF SupportInv
  <1> QED
    BY <1>2, SupportTypes, SupportInvariant, PTL DEF Spec, LossIsRemembered

-----------------------------------------------------------------------------
(* Retries                                                                 *)

\* The worker reads, consumes and tries epochs in this order, and at the head
\* of its loop it has an epoch to try for the first time, a backoff behind it
\* that ran to its end, or a fault that keeps it from trying.
Waits(n) ==
    /\ tried[n] <= cur[n] /\ cur[n] <= seen[n] /\ seen[n] <= intent[n].epoch
    /\ wpc[n] = "top" => tried[n] < intent[n].epoch \/ slept[n] \/ n \in faulty

WaitInv == \A n \in Names : Waits(n)

\* What a worker waits for is not disturbed by a step of someone else.
LEMMA WaitKept ==
    ASSUME TypeOK, TypeOK', NEW n \in Names, Waits(n),
           <<tried[n], cur[n], seen[n], slept[n]>>' = <<tried[n], cur[n], seen[n], slept[n]>>,
           intent'[n] = intent[n] \/ intent'[n].epoch > intent[n].epoch,
           wpc'[n] = wpc[n] \/ wpc'[n] # "top",
           n \in faulty => n \in faulty'
    PROVE  Waits(n)'
  <1>1. /\ intent[n].epoch \in Nat /\ intent'[n].epoch \in Nat
        /\ tried[n] \in Nat /\ cur[n] \in Nat /\ seen[n] \in Nat
    BY DEF TypeOK
  <1>2. intent[n].epoch <= intent'[n].epoch
    BY <1>1
  <1> QED BY <1>1, <1>2 DEF Waits

\* Every step of a worker, its manager and its operator keeps the waiting.
LEMMA WaitStep == TypeOK /\ TypeOK' /\ WaitInv /\ [Next]_vars => WaitInv'
  <1> SUFFICES ASSUME TypeOK, TypeOK', WaitInv, [Next]_vars PROVE WaitInv'
    OBVIOUS
  <1> SUFFICES ASSUME NEW n \in Names PROVE Waits(n)'
    BY DEF WaitInv
  <1>0. /\ Waits(n)
        /\ intent[n] \in [epoch : Nat, running : BOOLEAN] /\ intent[n].epoch \in Nat
        /\ tried[n] \in Nat /\ cur[n] \in Nat /\ seen[n] \in Nat
        /\ slept[n] \in BOOLEAN
    BY DEF WaitInv, TypeOK
  <1>1. ASSUME NEW m \in Names,
               KeyStopped(m) \/ StartRead(m) \/ StartApply(m) \/ Borrow(m) \/ ManagerOpens(m)
               \/ ManagerFails(m) \/ SourceEnds(m) \/ Progress(m) \/ Panic(m)
               \/ Cancelled(m) \/ CancelOpening(m) \/ DrainOpening(m) \/ DrainRelease(m)
               \/ Opened(m) \/ FailedForGood(m) \/ Finish(m) \/ Report(m)
        PROVE  Waits(n)'
    <2>1. intent'[n] = intent[n] \/ intent'[n].epoch > intent[n].epoch
      <3>1. /\ SetRunning(intent[n], FALSE) = intent[n]
                  \/ SetRunning(intent[n], FALSE).epoch > intent[n].epoch
            /\ SetRunning(intent[n], TRUE) = intent[n]
                  \/ SetRunning(intent[n], TRUE).epoch > intent[n].epoch
            /\ \A e \in Nat : RestartIfEpoch(intent[n], e) = intent[n]
                  \/ RestartIfEpoch(intent[n], e).epoch > intent[n].epoch
        BY <1>0, IntentGrows
      <3>2. admission.epoch \in Nat
        BY DEF TypeOK
      <3>3. CASE KeyStopped(m) \/ CancelOpening(m) \/ Finish(m)
        <4>1. intent' = [intent EXCEPT ![m] = SetRunning(intent[m], FALSE)]
          BY <3>3 DEF KeyStopped, CancelOpening, Finish
        <4>2. intent'[n] = intent[n] \/ intent'[n] = SetRunning(intent[n], FALSE)
          BY <4>1 DEF TypeOK
        <4> QED BY <3>1, <4>2
      <3>4. CASE StartApply(m)
        BY <3>1, <3>2, <3>4 DEF StartApply, TypeOK
      <3>5. CASE ~(KeyStopped(m) \/ CancelOpening(m) \/ Finish(m) \/ StartApply(m))
        <4>1. intent' = intent
          BY <1>1, <3>5 DEF StartRead, Borrow, ManagerOpens, ManagerFails, SourceEnds,
             Progress, Panic, Cancelled, DrainOpening, DrainRelease, Opened, FailedForGood, Report
        <4> QED BY <4>1
      <3> QED BY <3>3, <3>4, <3>5
    <2>2. <<tried[n], cur[n], seen[n], slept[n]>>' = <<tried[n], cur[n], seen[n], slept[n]>>
      BY <1>1 DEF KeyStopped, StartRead, StartApply, Borrow, ManagerOpens, ManagerFails, SourceEnds,
         Progress, Panic, Cancelled, CancelOpening, DrainOpening, DrainRelease, Opened,
         FailedForGood, Finish, Report, workerVars
    <2>3. wpc'[n] = wpc[n] \/ wpc'[n] # "top"
      BY <1>1, ZenonT(40) DEF KeyStopped, StartRead, StartApply, Borrow, ManagerOpens, ManagerFails, SourceEnds,
         Progress, Panic, Cancelled, CancelOpening, DrainOpening, DrainRelease, Opened,
         FailedForGood, Finish, Report, Step, TypeOK
    <2>4. n \in faulty => n \in faulty'
      BY <1>1 DEF KeyStopped, StartRead, StartApply, Borrow, ManagerOpens, ManagerFails, SourceEnds,
         Progress, Panic, Cancelled, CancelOpening, DrainOpening, DrainRelease, Opened,
         FailedForGood, Finish, Report, Released, Fault
    <2> QED BY <1>0, <2>1, <2>2, <2>3, <2>4, WaitKept
  <1>2. ASSUME NEW m \in Names, Park(m) \/ Attempt(m) PROVE Waits(n)'
    <2>1. CASE m = n
      BY <1>0, <1>2, <2>1 DEF Park, Attempt, Step, Waits, TypeOK
    <2>2. CASE m # n
      BY <1>0, <1>2, <2>2, WaitKept DEF Park, Attempt, Step, TypeOK
    <2> QED BY <2>1, <2>2
  <1>3. ASSUME NEW m \in Names, FailedStale(m) PROVE Waits(n)'
    <2>1. /\ intent' = intent /\ tried' = tried /\ cur' = cur /\ seen' = seen
          /\ slept' = slept /\ (n \in faulty => n \in faulty')
      BY <1>3 DEF FailedStale, Fault
    <2>2. CASE m = n
      BY <1>0, <1>3, <2>1, <2>2 DEF FailedStale, Waits
    <2>3. CASE m # n
      <3>1. wpc'[n] = wpc[n]
        BY <1>3, <2>3 DEF FailedStale, Step, TypeOK
      <3> QED BY <1>0, <2>1, <3>1, WaitKept
    <2> QED BY <2>2, <2>3
  <1>4. ASSUME NEW m \in Names, FailedRetryable(m) PROVE Waits(n)'
    BY <1>0, <1>4 DEF FailedRetryable, Step, Retry, Waits, TypeOK
  <1>5. ASSUME NEW m \in Names, LetGo(m) PROVE Waits(n)'
    BY <1>0, <1>5 DEF LetGo, Step, Waits, TypeOK
  <1>6. ASSUME NEW m \in Names, Release(m) PROVE Waits(n)'
    <2>1. /\ intent' = intent /\ tried' = tried /\ cur' = cur /\ seen' = seen
          /\ n \in faulty => n \in faulty'
      BY <1>6 DEF Release, Released, Fault
    <2>2. CASE m # n
      <3>1. slept'[n] = slept[n] /\ wpc'[n] = wpc[n]
        BY <1>6, <2>2 DEF Release, Step, Retry, TypeOK
      <3> QED BY <1>0, <2>1, <3>1, WaitKept
    <2>3. CASE m = n /\ wpc'[n] # "top"
      BY <1>0, <2>1, <2>3 DEF Waits
    <2>4. CASE m = n /\ wpc'[n] = "top"
      <3>1. intent[n].epoch # cur[n] \/ n \in faulty'
        BY <1>6, <2>4 DEF Release, Step, Released, Fault, TypeOK
      <3> QED BY <1>0, <2>1, <3>1 DEF Waits
    <2> QED BY <2>2, <2>3, <2>4
  <1>7. ASSUME NEW m \in Names, Wake(m) PROVE Waits(n)'
    <2>1. /\ intent' = intent /\ tried' = tried /\ cur' = cur /\ slept' = slept
          /\ faulty' = faulty
      BY <1>7 DEF Wake
    <2>2. CASE m = n
      <3>1. seen'[n] = intent[n].epoch /\ seen[n] # intent[n].epoch
        BY <1>7, <2>2 DEF Wake, TypeOK
      <3> QED BY <1>0, <2>1, <3>1 DEF Waits
    <2>3. CASE m # n
      <3>1. wpc'[n] = wpc[n] /\ seen'[n] = seen[n]
        BY <1>7, <2>3 DEF Wake, Step, TypeOK
      <3> QED BY <1>0, <2>1, <3>1, WaitKept
    <2> QED BY <2>2, <2>3
  <1>8. ASSUME NEW m \in Names, SleepEnds(m) PROVE Waits(n)'
    BY <1>0, <1>8 DEF SleepEnds, Step, Waits, TypeOK
  <1>9. CASE ShutBegin \/ ShutDone \/ UNCHANGED vars
    BY <1>0, <1>9 DEF ShutBegin, ShutDone, vars, workerVars, Waits
  <1> QED
    BY <1>1, <1>2, <1>3, <1>4, <1>5, <1>6, <1>7, <1>8, <1>9 DEF Next, Worker, Quiescent, Stop

\* A second attempt for the same epoch only follows a backoff that ran to its
\* end, for any starts, stops, faults and failures in between (run of support.rs).
THEOREM RetriesWait == Spec => RetriesAreDelayed
  <1>1. Init => WaitInv
    <2> SUFFICES ASSUME Init, NEW n \in Names PROVE Waits(n)
      BY DEF WaitInv
    <2>1. tried[n] = 0 /\ cur[n] = 0 /\ seen[n] = 0 /\ intent[n].epoch = 1
      BY DEF Init
    <2> QED BY <2>1 DEF Waits
  <1>2. TypeOK /\ WaitInv /\ [Next]_vars =>
          [\A n \in Names : wpc[n] = "top" /\ wpc'[n] = "opening" =>
             tried'[n] # tried[n] \/ slept[n]]_vars
    <2> SUFFICES ASSUME TypeOK, WaitInv, Next, NEW n \in Names, wpc[n] = "top",
                        wpc'[n] = "opening"
                 PROVE  tried'[n] # tried[n] \/ slept[n]
      OBVIOUS
    <2>1. Attempt(n)
      <3>1. ASSUME NEW j \in Names, Worker(j) PROVE Attempt(j) /\ j = n
        BY <3>1 DEF TypeOK, Worker, Step, Cancelled, Park, CancelOpening, DrainOpening,
           DrainRelease, Opened, FailedStale, FailedForGood, FailedRetryable, LetGo, Release,
           Wake, SleepEnds, Finish, Report, Attempt
      <3>2. ASSUME NEW j \in Names, Panic(j) PROVE FALSE
        BY <3>2 DEF TypeOK, Panic, Step
      <3>3. wpc' # wpc
        OBVIOUS
      <3> QED BY <3>1, <3>2, <3>3 DEF Next, Quiescent, vars, Stop, KeyStopped, StartRead, StartApply,
            Borrow, ManagerOpens, ManagerFails, SourceEnds, Progress, ShutBegin, ShutDone
    <2>2. tried'[n] = intent[n].epoch /\ n \notin faulty
      BY <2>1 DEF Attempt, TypeOK
    <2> QED BY <2>2 DEF WaitInv, Waits, TypeOK
  <1> QED
    BY <1>1, <1>2, SupportTypes, WaitStep, PTL DEF Spec, RetriesAreDelayed
=============================================================================
