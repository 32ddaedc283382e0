------------------------- MODULE StreamManagerProofs -------------------------
(***************************************************************************)
(* What TLAPS proves of StreamManager for every set of keys, calls and     *)
(* stops and every bound.                                                  *)
(***************************************************************************)
EXTENDS StreamManager, FiniteSetTheorems, TLAPS

USE CallsAssumption, BoundsAssumption

\* The initial state is well typed.
LEMMA InitTypeOK == Init => TypeOK
  BY DEF Init, TypeOK, Owning, Workers, Initializing

\* What record_stop stores for a key are workers.
LEMMA RecordStopType ==
    ASSUME TypeOK, NEW k \in Keys, NEW ws \in SUBSET Workers
    PROVE  RecordStop(k, ws) \in [Keys -> SUBSET Workers]
  BY DEF TypeOK, RecordStop

\* The workers behind the map entries of a key are workers.
LEMMA EntryWorkersType ==
    ASSUME TypeOK, NEW k \in Keys
    PROVE  /\ SessionWorker(k) \in SUBSET Workers
           /\ PackagerWorker(k) \in SUBSET Workers
  BY DEF TypeOK, SessionWorker, PackagerWorker, Workers, Pump, Hls

\* Retiring the entries of a key keeps the types of the maps.
LEMMA RetireType ==
    ASSUME TypeOK, NEW k \in Keys, Retire(k)
    PROVE  /\ sessions' \in [Keys -> Calls \cup {None}]
           /\ pkg' \in [Keys -> Calls \cup {None}]
           /\ cancelled' \subseteq Calls /\ hlsCancel' \subseteq Calls
           /\ stopping' \in [Keys -> SUBSET Workers]
<1>1. stopping' \in [Keys -> SUBSET Workers]
  BY RecordStopType, EntryWorkersType DEF Retire
<1> QED
  BY <1>1 DEF TypeOK, Retire

\* Every step of a call keeps the types.
LEMMA CallStepTypeOK ==
    ASSUME TypeOK, NEW c \in Calls, CallStep(c)
    PROVE  TypeOK'
<1> USE DEF TypeOK, callVars, sourceVars, mapVars, stopVars, reapVars, Initializing,
            Owning, Workers, Pump, Hls
<1>1. CASE DeclareSupport(c)
  BY <1>1 DEF DeclareSupport
<1>2. CASE Begin(c)
  BY <1>2 DEF Begin
<1>3. CASE Refuse(c)
  BY <1>3 DEF Refuse, Return
<1>4. CASE Abort(c)
  BY <1>4 DEF Abort, Return
<1>5. CASE Join(c)
  BY <1>5 DEF Join, Return
<1>6. CASE Queue(c)
  BY <1>6 DEF Queue
<1>7. CASE ReuseSession(c)
  BY <1>7 DEF ReuseSession
<1>8. CASE Reserve(c)
  BY <1>8 DEF Reserve
<1>9. CASE CapacityExhausted(c)
  BY <1>9 DEF CapacityExhausted, Return
<1>10. CASE Opened(c)
  BY <1>10 DEF Opened
<1>11. CASE Discard(c)
  BY <1>11, SMTT(20) DEF Discard, Return
<1>12. CASE Publish(c)
  BY <1>12 DEF Publish, Return
<1>13. CASE Deliver(c)
  BY <1>13 DEF Deliver
<1>14. CASE CallerDrops(c)
  BY <1>14 DEF CallerDrops
<1>15. CASE DropHandle(c)
  BY <1>15 DEF DropHandle
<1>16. CASE ReleaseSupport(c)
  <2> DEFINE s == held[c]
             k == c.key
  <2>1. k \in Keys /\ s \in Calls
    BY <1>16 DEF ReleaseSupport
  <2>2. CASE s \notin cancelled /\ ~ReleaseKeeps(c, s)
    <3>1. /\ Retire(k)
          /\ relWait' = [relWait EXCEPT ![c] = SessionWorker(k) \cup PackagerWorker(k)]
          /\ pc' = [pc EXCEPT ![c] = "releasing"]
      BY <1>16, <2>2 DEF ReleaseSupport
    <3>2. relWait' \in [Calls -> SUBSET Workers]
      BY <3>1, <2>1, EntryWorkersType
    <3> QED
      BY <1>16, <2>1, <3>1, <3>2, RetireType DEF ReleaseSupport
  <2>3. CASE ~(s \notin cancelled /\ ~ReleaseKeeps(c, s))
    <3>1. /\ relWait' = [relWait EXCEPT ![c] = IF s \in cancelled THEN {Pump(s)} ELSE {}]
          /\ pc' = [pc EXCEPT ![c] = IF s \in cancelled THEN "releasing" ELSE "over"]
          /\ UNCHANGED <<sessions, pkg, cancelled, hlsCancel, stopping>>
      BY <1>16, <2>3 DEF ReleaseSupport
    <3>2. (IF s \in cancelled THEN {Pump(s)} ELSE {}) \in SUBSET Workers
      BY <2>1
    <3>3. relWait' \in [Calls -> SUBSET Workers]
      BY <3>1, <3>2
    <3>4. pc' \in [Calls -> Initializing \cup {"idle", "declared", "returned", "done",
                                             "releasing", "over"}]
      BY <3>1
    <3>5. held' \in [Calls -> Calls \cup {None}]
      BY <1>16 DEF ReleaseSupport
    <3> QED
      BY <1>16, <3>1, <3>3, <3>4, <3>5 DEF ReleaseSupport
  <2> QED
    BY <2>2, <2>3
<1>17. CASE ReleaseReturns(c)
  BY <1>17 DEF ReleaseReturns, RecordStop
<1>18. CASE OpenFailed(c)
  BY <1>18 DEF OpenFailed, Return
<1>19. CASE Dispose(c)
  BY <1>19 DEF Dispose, Return
<1>20. CASE DisposeFails(c)
  BY <1>20 DEF DisposeFails, Return
<1> QED
  BY <1>1, <1>2, <1>3, <1>4, <1>5, <1>6, <1>7, <1>8, <1>9, <1>10, <1>11, <1>12, <1>13,
     <1>14, <1>15, <1>16, <1>17, <1>18, <1>19, <1>20 DEF CallStep

\* Every step of a worker, of the environment and of the manager's own
\* operations keeps the types.
LEMMA OtherStepTypeOK ==
    ASSUME TypeOK, [Next]_vars, ~\E c \in Calls : CallStep(c)
    PROVE  TypeOK'
<1> USE DEF TypeOK, callVars, sourceVars, mapVars, stopVars, reapVars, Owning
<1>1. CASE \E c \in Calls : WorkerStep(c)
  <2> PICK c \in Calls : WorkerStep(c)
    BY <1>1
  <2> USE DEF Workers, Pump, Hls
  <2>1. CASE PumpEnds(c)
    BY <2>1 DEF PumpEnds
  <2>2. CASE SourceCloses(c)
    BY <2>2 DEF SourceCloses
  <2>3. CASE SourceFails(c)
    BY <2>3 DEF SourceFails
  <2>4. CASE JoinPump(c)
    BY <2>4 DEF JoinPump
  <2>5. CASE JoinHls(c)
    BY <2>5 DEF JoinHls
  <2>6. CASE GraceExpires(c)
    BY <2>6 DEF GraceExpires
  <2> QED
    BY <2>1, <2>2, <2>3, <2>4, <2>5, <2>6 DEF WorkerStep
<1>2. ASSUME NEW t \in Stops, StopBegin(t)
      PROVE  TypeOK'
  <2> DEFINE k == t.key
  <2>1. k \in Keys /\ Retire(k)
    BY <1>2 DEF StopBegin
  <2>2. /\ stopping' \in [Keys -> SUBSET Workers]
        /\ SessionWorker(k) \cup PackagerWorker(k) \cup stopping'[k] \in SUBSET Workers
    BY <2>1, RetireType, EntryWorkersType
  <2>3. stopWait' \in [Stops -> SUBSET Workers]
    BY <1>2, <2>2 DEF StopBegin
  <2>4. intent' \in [Keys -> [epoch : Nat, running : BOOLEAN]]
    BY <1>2 DEF StopBegin, SetRunning
  <2>5. owed' \in [Stops -> SUBSET Calls] /\ doomed' \subseteq Calls
    BY <1>2 DEF StopBegin, Unsettled
  <2>6. stopPc' \in [Stops -> {"idle", "wait", "stopped", "absent", "unconfirmed"}]
    BY <1>2 DEF StopBegin
  <2> HIDE DEF k
  <2>7. fenced' \subseteq Calls /\ existed' \subseteq Stops
    BY <1>2 DEF StopBegin
  <2> QED
    BY <1>2, <2>1, <2>2, <2>3, <2>4, <2>5, <2>6, <2>7, RetireType DEF StopBegin
<1>3. ASSUME NEW t \in Stops, StopReturns(t)
      PROVE  TypeOK'
  BY <1>3, RecordStopType DEF StopReturns
<1>4. ASSUME NEW k \in Keys, \/ HlsAccess(k) \/ RestartSupport(k)
                             \/ \E b \in BOOLEAN : SetSupport(k, b)
      PROVE  TypeOK'
  <2>1. CASE HlsAccess(k)
    BY <2>1 DEF HlsAccess
  <2>2. CASE RestartSupport(k)
    BY <2>2 DEF RestartSupport, Unsettled
  <2>3. ASSUME NEW b \in BOOLEAN, SetSupport(k, b)
        PROVE  TypeOK'
    BY <2>3 DEF SetSupport, SetRunning, Unsettled
  <2> QED
    BY <1>4, <2>1, <2>2, <2>3
<1>5. CASE ReapSnapshot
  BY <1>5 DEF ReapSnapshot
<1>6. CASE ReapRetire
  BY <1>6, EntryWorkersType DEF ReapRetire, IdleKeys
<1>7. CASE ReapDone
  BY <1>7 DEF ReapDone
<1>8. CASE ShutBegin
  BY <1>8 DEF ShutBegin, SetRunning
<1>9. CASE ShutDone
  BY <1>9 DEF ShutDone
<1>10. CASE Over \/ UNCHANGED vars
  BY <1>10 DEF Over, vars
<1> QED
  BY <1>1, <1>2, <1>3, <1>4, <1>5, <1>6, <1>7, <1>8, <1>9, <1>10 DEF Next

\* Type correctness of the registry: every map, set and counter keeps its type.
THEOREM TypeCorrect == Spec => []TypeOK
<1>1. TypeOK /\ [Next]_vars => TypeOK'
  BY CallStepTypeOK, OtherStepTypeOK
<1> QED
  BY InitTypeOK, <1>1, PTL DEF Spec

-----------------------------------------------------------------------------
(* The protocol of the registry.                                           *)

\* The start lock of a key is held exactly by the call past the queue.
LockInv ==
    /\ \A c \in Calls : pc[c] \in LockHolding => startLock[c.key] = c
    /\ \A k \in Keys : startLock[k] # None =>
          startLock[k].key = k /\ pc[startLock[k]] \in LockHolding

\* Where a call is determines what source it can own.
SourceInv ==
    \A c \in Calls :
        /\ pc[c] \in {"idle", "declared", "begun", "locking"} => src[c] = "none"
        /\ pc[c] = "opening" => src[c] = "opening"
        /\ pc[c] = "final" => src[c] \in {"none", "opened"} /\ (src[c] = "none" => IsHls(c))
        /\ pc[c] = "dispose" => src[c] = "opened"
        /\ src[c] \in {"opening", "opened"} => pc[c] \in LockHolding

\* A generation stays registered until its finalization.
PendingInv ==
    /\ \A c \in Calls : pc[c] \in {"begun", "locking", "opening", "final"} => c \in pending
    /\ reapPc = "retiring" => \A c \in pending : c.key \in reapPending

\* A published session has a source, and a key being opened has no session.
MapInv ==
    /\ \A k \in Keys : sessions[k] # None =>
          sessions[k].key = k /\ src[sessions[k]] \in Live \cup {"closed", "failed"}
    /\ \A c \in Calls : src[c] \in {"opening", "opened"} => sessions[c.key] = None

\* A packager belongs to its key, and its session to the same key.
PackagerInv ==
    \A k \in Keys : pkg[k] # None =>
        pkg[k].key = k /\ hlsSession[pkg[k]] = sessions[k] /\ sessions[k] # None

RegistryInv ==
    LockInv /\ SourceInv /\ PendingInv /\ MapInv /\ PackagerInv /\ FinalizeHasSource
    /\ NothingAfterShutdown

\* The empty registry satisfies the protocol.
LEMMA InitRegistry == Init => RegistryInv
  BY DEF Init, RegistryInv, LockInv, SourceInv, PendingInv, MapInv, PackagerInv,
         FinalizeHasSource, NothingAfterShutdown, LockHolding

\* Every step of a call preserves the protocol of the registry.
LEMMA CallStepRegistry ==
    ASSUME TypeOK, RegistryInv, NEW c \in Calls, CallStep(c)
    PROVE  RegistryInv'
<1> USE DEF TypeOK, RegistryInv, LockInv, SourceInv, PendingInv, MapInv, PackagerInv,
            FinalizeHasSource, NothingAfterShutdown, LockHolding, Initializing, Live,
            Aborted, Current, IsHls, Free, callVars, sourceVars, mapVars, stopVars, reapVars
<1>1. CASE DeclareSupport(c)
  BY <1>1 DEF DeclareSupport
<1>2. CASE Begin(c)
  BY <1>2 DEF Begin
<1>3. CASE Refuse(c)
  BY <1>3 DEF Refuse, Return
<1>4. CASE Abort(c)
  BY <1>4 DEF Abort, Return, Entered
<1>5. CASE Join(c)
  BY <1>5 DEF Join, Return, Entered
<1>6. CASE Queue(c)
  BY <1>6 DEF Queue
<1>7. CASE ReuseSession(c)
  BY <1>7 DEF ReuseSession, Entered
<1>8. CASE Reserve(c)
  BY <1>8 DEF Reserve, Entered
<1>9. CASE CapacityExhausted(c)
  BY <1>9 DEF CapacityExhausted, Return, Entered
<1>10. CASE Opened(c)
  BY <1>10 DEF Opened
<1>11. CASE OpenFailed(c)
  BY <1>11 DEF OpenFailed, Return
<1>12. CASE Discard(c)
  <2>1. CASE src[c] = "opened"
    <3>1. /\ pc' = [pc EXCEPT ![c] = "dispose"]
          /\ pending' \in {pending, pending \ {c}} /\ fenced' \in {fenced, fenced \ {c}}
          /\ UNCHANGED <<gone, startLock, attempt>>
      BY <1>12, <2>1 DEF Discard
    <3> QED
      BY <1>12, <2>1, <3>1 DEF Discard
  <2>2. CASE src[c] # "opened"
    <3>1. Return(c)
      BY <1>12, <2>2 DEF Discard
    <3> QED
      BY <1>12, <2>2, <3>1 DEF Discard, Return
  <2> QED
    BY <2>1, <2>2
<1>13. CASE Dispose(c)
  BY <1>13 DEF Dispose, Return
<1>14. CASE DisposeFails(c)
  BY <1>14 DEF DisposeFails, Return
<1>15. CASE Publish(c)
  <2> DEFINE k == c.key
             s == IF sessions[k] = None THEN c ELSE sessions[k]
             p == IF pkg[k] = None THEN c ELSE pkg[k]
  <2>1. /\ k \in Keys /\ pc[c] = "final" /\ ~Aborted(c)
        /\ startLock[k] = c /\ shut = "no" /\ Free
    BY <1>15 DEF Publish
  <2>2. \/ sessions[k] = None /\ src[c] = "opened"
        \/ sessions[k] # None /\ src[c] = "none" /\ IsHls(c)
    BY <2>1
  <2>3. /\ src' = [src EXCEPT ![c] = IF s = c THEN "pumping" ELSE @]
        /\ sessions' = [sessions EXCEPT ![k] = s]
        /\ pkg' = IF IsHls(c) THEN [pkg EXCEPT ![k] = p] ELSE pkg
        /\ hlsSession' = IF IsHls(c) /\ p = c THEN [hlsSession EXCEPT ![c] = s]
                         ELSE hlsSession
        /\ Return(c)
        /\ UNCHANGED <<reapVars, intent, shut>>
    BY <1>15 DEF Publish
  <2>4. LockInv' /\ SourceInv' /\ PendingInv'
    BY <2>1, <2>2, <2>3 DEF Return
  <2>5. s \in Calls /\ s.key = k /\ (s = c <=> sessions[k] = None)
    <3>1. src[c] \notin Live \cup {"closed", "failed"}
      BY <2>2
    <3>2. sessions[k] # None => /\ sessions[k] \in Calls /\ sessions[k].key = k
                                /\ src[sessions[k]] \in Live \cup {"closed", "failed"}
      BY <2>1
    <3>3. None # c
      OBVIOUS
    <3> HIDE DEF Live, k
    <3> QED
      BY <2>1, <3>1, <3>2, <3>3 DEF k
  <2>6. \A d \in Calls : d # c /\ d.key = k => src[d] \notin {"opening", "opened"}
    BY <2>1
  <2>7. MapInv'
    BY <2>1, <2>2, <2>3, <2>5, <2>6
  <2>8. PackagerInv'
    <3>1. \A j \in Keys : j # k => pkg[j] # c
      OBVIOUS
    <3>2. CASE sessions[k] = None
      BY <2>1, <2>2, <2>3, <2>5, <3>1, <3>2
    <3>3. CASE sessions[k] # None
      BY <2>1, <2>2, <2>3, <2>5, <3>1, <3>3
    <3> QED
      BY <3>2, <3>3
  <2>9. FinalizeHasSource'
    BY <2>1, <2>2, <2>3, <2>5 DEF Return
  <2>10. NothingAfterShutdown'
    BY <2>1, <2>3
  <2> QED
    BY <2>4, <2>7, <2>8, <2>9, <2>10
<1>16. CASE Deliver(c)
  BY <1>16 DEF Deliver
<1>17. CASE CallerDrops(c)
  BY <1>17 DEF CallerDrops
<1>18. CASE DropHandle(c)
  BY <1>18 DEF DropHandle
<1>19. CASE ReleaseSupport(c)
  <2> DEFINE s == held[c]
             k == c.key
  <2>1. /\ k \in Keys /\ s \in Calls /\ Free /\ pc[c] = "done"
        /\ UNCHANGED <<gone, pending, fenced, startLock, attempt, src, hlsSession, reapVars,
                       intent, shut>>
    BY <1>19 DEF ReleaseSupport
  <2>2. CASE s \notin cancelled /\ ~ReleaseKeeps(c, s)
    <3>1. /\ sessions' = [sessions EXCEPT ![k] = None]
          /\ pkg' = [pkg EXCEPT ![k] = None]
          /\ pc' = [pc EXCEPT ![c] = "releasing"]
          /\ \A d \in pending : d.key # k
      BY <1>19, <2>2 DEF ReleaseSupport, Retire, ReleaseKeeps
    <3> QED
      BY <2>1, <3>1
  <2>3. CASE ~(s \notin cancelled /\ ~ReleaseKeeps(c, s))
    <3>1. /\ pc' = [pc EXCEPT ![c] = IF s \in cancelled THEN "releasing" ELSE "over"]
          /\ UNCHANGED <<sessions, pkg>>
      BY <1>19, <2>3 DEF ReleaseSupport
    <3> QED
      BY <2>1, <3>1
  <2> QED
    BY <2>2, <2>3
<1>20. CASE ReleaseReturns(c)
  BY <1>20 DEF ReleaseReturns
<1> QED
  BY <1>1, <1>2, <1>3, <1>4, <1>5, <1>6, <1>7, <1>8, <1>9, <1>10, <1>11, <1>12, <1>13, <1>14, <1>15, <1>16, <1>17, <1>18, <1>19, <1>20 DEF CallStep

\* The steps of workers, stops, declarations, the reaper and shutdown preserve
\* the protocol: what they retire is fenced or spared for pending generations.
LEMMA OtherStepRegistry ==
    ASSUME TypeOK, RegistryInv, [Next]_vars, ~\E c \in Calls : CallStep(c)
    PROVE  RegistryInv'
<1> USE DEF TypeOK, RegistryInv, LockInv, SourceInv, PendingInv, MapInv, PackagerInv,
            FinalizeHasSource, NothingAfterShutdown, LockHolding, Initializing, Live,
            Aborted, Current, IsHls, Free, callVars, sourceVars, mapVars, stopVars, reapVars
<1>1. CASE \E c \in Calls : WorkerStep(c)
  <2> PICK c \in Calls : WorkerStep(c)
    BY <1>1
  <2>1. CASE PumpEnds(c)
    BY <2>1 DEF PumpEnds
  <2>2. CASE SourceCloses(c)
    BY <2>2 DEF SourceCloses
  <2>3. CASE SourceFails(c)
    BY <2>3 DEF SourceFails
  <2>4. CASE JoinPump(c) \/ JoinHls(c) \/ GraceExpires(c)
    BY <2>4 DEF JoinPump, JoinHls, GraceExpires
  <2> QED
    BY <2>1, <2>2, <2>3, <2>4 DEF WorkerStep
<1>2. ASSUME NEW t \in Stops, StopBegin(t)
      PROVE  RegistryInv'
  <2> DEFINE k == t.key
  <2>1. /\ k \in Keys
        /\ sessions' = [sessions EXCEPT ![k] = None]
        /\ pkg' = [pkg EXCEPT ![k] = None]
        /\ fenced' = fenced \cup {c \in pending : c.key = k}
        /\ UNCHANGED <<pc, gone, pending, startLock, attempt, src, hlsSession, reapVars, shut>>
    BY <1>2 DEF StopBegin, Retire
  <2>2. LockInv' /\ SourceInv' /\ PendingInv' /\ NothingAfterShutdown'
    BY <2>1
  <2>3. MapInv' /\ PackagerInv'
    BY <2>1
  <2>4. FinalizeHasSource'
    BY <2>1
  <2> QED
    BY <2>2, <2>3, <2>4
<1>3. ASSUME NEW t \in Stops, StopReturns(t)
      PROVE  RegistryInv'
  BY <1>3 DEF StopReturns
<1>4. ASSUME NEW k \in Keys, \/ HlsAccess(k) \/ RestartSupport(k)
                             \/ \E b \in BOOLEAN : SetSupport(k, b)
      PROVE  RegistryInv'
  <2>1. /\ UNCHANGED <<callVars, src, sessions, pkg, hlsSession, reapVars, shut>>
    BY <1>4 DEF HlsAccess, RestartSupport, SetSupport
  <2>2. LockInv' /\ SourceInv' /\ PendingInv' /\ MapInv' /\ PackagerInv' /\ NothingAfterShutdown'
    BY <2>1
  <2>3. FinalizeHasSource'
    BY <2>1
  <2> QED
    BY <2>2, <2>3
<1>5. CASE ReapSnapshot
  BY <1>5 DEF ReapSnapshot
<1>6. CASE ReapRetire
  BY <1>6 DEF ReapRetire, IdleKeys
<1>7. CASE ReapDone
  BY <1>7 DEF ReapDone
<1>8. CASE ShutBegin
  BY <1>8 DEF ShutBegin
<1>9. CASE ShutDone
  BY <1>9 DEF ShutDone
<1>10. CASE Over \/ UNCHANGED vars
  BY <1>10 DEF Over, vars
<1> QED
  BY <1>1, <1>2, <1>3, <1>4, <1>5, <1>6, <1>7, <1>8, <1>9, <1>10 DEF Next

\* The registry protocol holds in every reachable state.
THEOREM RegistryCorrect == Spec => [](TypeOK /\ RegistryInv)
<1>1. Init => TypeOK /\ RegistryInv
  BY InitTypeOK, InitRegistry
<1>2. TypeOK /\ RegistryInv /\ [Next]_vars => (TypeOK /\ RegistryInv)'
  BY CallStepTypeOK, OtherStepTypeOK, CallStepRegistry, OtherStepRegistry
<1> QED
  BY <1>1, <1>2, PTL DEF Spec

\* The expect of get_or_start_pinned_hls_owned never fires.
THEOREM FinalizationFindsSource == Spec => []FinalizeHasSource
<1>1. RegistryInv => FinalizeHasSource
  BY DEF RegistryInv
<1> QED
  BY RegistryCorrect, <1>1, PTL

\* Direct and HLS callers of one key never own two sources.
THEOREM StartsAreSingle == Spec => []OneSourcePerKey
<1>1. TypeOK /\ RegistryInv => OneSourcePerKey
  BY DEF TypeOK, RegistryInv, OneSourcePerKey, LockInv, SourceInv, MapInv, LockHolding
<1> QED
  BY RegistryCorrect, <1>1, PTL

\* The packager of a key always reads the published session of the key.
THEOREM PackagerFollowsSession == Spec => []PackagerMatchesSession
<1>1. RegistryInv => PackagerMatchesSession
  BY DEF RegistryInv, PackagerInv, PackagerMatchesSession
<1> QED
  BY RegistryCorrect, <1>1, PTL

\* The shutdown fence is final: the maps stay empty.
THEOREM ShutdownFence == Spec => []NothingAfterShutdown
<1>1. RegistryInv => NothingAfterShutdown
  BY DEF RegistryInv
<1> QED
  BY RegistryCorrect, <1>1, PTL

-----------------------------------------------------------------------------
(* Admission: the counter is the number of sources that exist.             *)

\* There are finitely many owners.
LEMMA OwnersFinite == IsFiniteSet(Owners) /\ Cardinality(Owners) \in Nat
<1>1. Owners \subseteq Calls
  BY DEF Owners
<1> QED
  BY <1>1, FS_Subset, FS_CardinalityType

\* A call that starts to own a source adds one, one that stops removes one.
LEMMA OwnersGrow ==
    ASSUME TypeOK, NEW c \in Calls, NEW x \in Owning,
           src[c] \notin Owning, src' = [src EXCEPT ![c] = x]
    PROVE  Cardinality(Owners') = Cardinality(Owners) + 1
<1>1. Owners' = Owners \cup {c} /\ c \notin Owners
  BY DEF Owners, TypeOK
<1> QED
  BY <1>1, OwnersFinite, FS_AddElement

\* A call whose source is destroyed leaves the owners.
LEMMA OwnersShrink ==
    ASSUME TypeOK, NEW c \in Calls, NEW x \in {"none", "closed"},
           src[c] \in Owning, src' = [src EXCEPT ![c] = x]
    PROVE  Cardinality(Owners') = Cardinality(Owners) - 1
<1>1. Owners' = Owners \ {c} /\ c \in Owners
  BY DEF Owners, TypeOK, Owning
<1> QED
  BY <1>1, OwnersFinite, FS_RemoveElement

\* A source that only changes its phase keeps the owners.
LEMMA OwnersKept ==
    ASSUME TypeOK, NEW c \in Calls, NEW x \in Owning,
           src[c] \in Owning, src' = [src EXCEPT ![c] = x]
    PROVE  Owners' = Owners
  BY DEF Owners, TypeOK

\* A step either leaves the owners and the counter alone, or reserves under
\* the limit, or releases the slot of a source that is destroyed.
LEMMA AdmissionStep ==
    ASSUME TypeOK, RegistryInv, [Next]_vars
    PROVE  \/ Owners' = Owners /\ occupied' = occupied
           \/ /\ Cardinality(Owners') = Cardinality(Owners) + 1
              /\ occupied' = occupied + 1 /\ HasRoom
           \/ /\ Cardinality(Owners') = Cardinality(Owners) - 1
              /\ occupied' = occupied - 1
<1> USE DEF RegistryInv, SourceInv, callVars, sourceVars, mapVars, stopVars, reapVars
<1>1. CASE UNCHANGED <<src, occupied>>
  BY <1>1 DEF Owners
<1>2. ASSUME NEW c \in Calls, Reserve(c)
      PROVE  /\ Cardinality(Owners') = Cardinality(Owners) + 1
             /\ occupied' = occupied + 1 /\ HasRoom
  <2>1. src[c] \notin Owning /\ src' = [src EXCEPT ![c] = "opening"]
    BY <1>2 DEF Reserve, Owning
  <2> QED
    BY <1>2, <2>1, OwnersGrow DEF Reserve, Owning
<1>3. ASSUME NEW c \in Calls, Opened(c) \/ DisposeFails(c) \/ PumpEnds(c) \/ SourceFails(c)
      PROVE  Owners' = Owners /\ occupied' = occupied
  <2>1. src[c] \in Owning /\ occupied' = occupied
    BY <1>3 DEF Opened, DisposeFails, PumpEnds, SourceFails, Owning
  <2>2. \E x \in Owning : src' = [src EXCEPT ![c] = x]
    BY <1>3 DEF Opened, DisposeFails, PumpEnds, SourceFails, Owning
  <2> QED
    BY <2>1, <2>2, OwnersKept
<1>4. ASSUME NEW c \in Calls, OpenFailed(c) \/ Dispose(c) \/ SourceCloses(c)
      PROVE  /\ Cardinality(Owners') = Cardinality(Owners) - 1
             /\ occupied' = occupied - 1
  <2>1. src[c] \in Owning /\ occupied' = occupied - 1
    BY <1>4 DEF OpenFailed, Dispose, SourceCloses, Owning
  <2>2. \E x \in {"none", "closed"} : src' = [src EXCEPT ![c] = x]
    BY <1>4 DEF OpenFailed, Dispose, SourceCloses
  <2> QED
    BY <2>1, <2>2, OwnersShrink
<1>5. ASSUME NEW c \in Calls, Publish(c)
      PROVE  Owners' = Owners /\ occupied' = occupied
  <2> DEFINE s == IF sessions[c.key] = None THEN c ELSE sessions[c.key]
  <2>1. CASE s = c
    <3>1. src[c] \in Owning
      BY <1>5, <2>1 DEF Publish, FinalizeHasSource, MapInv, TypeOK, Owning, Live
    <3>2. src' = [src EXCEPT ![c] = "pumping"] /\ occupied' = occupied
      BY <1>5, <2>1 DEF Publish
    <3> QED
      BY <3>1, <3>2, OwnersKept DEF Owning
  <2>2. CASE s # c
    <3>1. src' = src /\ occupied' = occupied
      BY <1>5, <2>2 DEF Publish, TypeOK
    <3> QED
      BY <3>1 DEF Owners
  <2> QED
    BY <2>1, <2>2
<1>6. ASSUME NEW c \in Calls, CallStep(c), ~Reserve(c), ~Opened(c), ~DisposeFails(c),
             ~OpenFailed(c), ~Dispose(c), ~Publish(c)
      PROVE  UNCHANGED <<src, occupied>>
  BY <1>6 DEF CallStep, DeclareSupport, Begin, Refuse, Abort, Join, Queue, ReuseSession,
              CapacityExhausted, Discard, Deliver, CallerDrops, DropHandle,
              ReleaseSupport, ReleaseReturns
<1>7. ASSUME NEW c \in Calls, WorkerStep(c), ~PumpEnds(c), ~SourceCloses(c), ~SourceFails(c)
      PROVE  UNCHANGED <<src, occupied>>
  BY <1>7 DEF WorkerStep, JoinPump, JoinHls, GraceExpires
<1>8. ASSUME ~\E c \in Calls : CallStep(c) \/ WorkerStep(c)
      PROVE  UNCHANGED <<src, occupied>>
  BY <1>8 DEF Next, vars, StopBegin, StopReturns, HlsAccess, RestartSupport, SetSupport,
              ReapSnapshot, ReapRetire, ReapDone, ShutBegin, ShutDone, Over
<1> QED
  BY <1>1, <1>2, <1>3, <1>4, <1>5, <1>6, <1>7, <1>8

\* OUTPACE_MAX_SESSIONS is a true bound on the sources that exist, and the
\* counter never drifts: no path loses or releases a slot twice.
THEOREM AdmissionCorrect == Spec => []AdmissionExact
<1>1. Init => AdmissionExact
  <2> SUFFICES ASSUME Init PROVE AdmissionExact
    OBVIOUS
  <2>1. Owners = {}
    BY DEF Init, Owning, Owners
  <2> QED
    BY <2>1, FS_EmptySet DEF Init, AdmissionExact, BoundsAssumption
<1>2. TypeOK /\ RegistryInv /\ AdmissionExact /\ [Next]_vars => AdmissionExact'
  <2> SUFFICES ASSUME TypeOK, RegistryInv, AdmissionExact, [Next]_vars
               PROVE  AdmissionExact'
    OBVIOUS
  <2>1. occupied \in Nat /\ Cardinality(Owners) \in Nat /\ occupied = Cardinality(Owners)
    BY OwnersFinite DEF AdmissionExact
  <2>2. /\ occupied' \in Int /\ occupied' = Cardinality(Owners')
        /\ occupied' <= occupied \/ (HasRoom /\ occupied' = occupied + 1)
    BY <2>1, AdmissionStep
  <2> QED
    BY <2>1, <2>2 DEF AdmissionExact, HasRoom, BoundsAssumption
<1> QED
  BY <1>1, <1>2, RegistryCorrect, PTL DEF Spec

-----------------------------------------------------------------------------
(* The stop fence.                                                         *)

\* A doomed call holds nothing, and one that could still publish is fenced or
\* acts for an epoch that has passed.
FenceInv ==
    /\ \A c \in Calls : pc[c] \in Initializing \cup {"idle", "declared"} => held[c] = None
    /\ \A c \in Calls : /\ pc[c] = "declared" => c.kind = "support"
                        /\ attempt[c] <= intent[c.key].epoch
    /\ \A c \in doomed :
        /\ pc[c] # "idle"
        /\ pc[c] \in {"declared", "begun", "locking", "opening", "final"} =>
             \/ c \in fenced
             \/ c.kind = "support" /\ (intent[c.key].running => attempt[c] < intent[c.key].epoch)

\* A step of a call never lets a doomed call obtain or publish anything.
LEMMA CallStepFence ==
    ASSUME TypeOK, RegistryInv, FenceInv, FencedNeverPublishes, NEW c \in Calls, CallStep(c)
    PROVE  FenceInv' /\ FencedNeverPublishes'
<1> USE DEF TypeOK, FenceInv, FencedNeverPublishes, Initializing, Aborted, Current,
            callVars, sourceVars, mapVars, stopVars, reapVars
<1>1. CASE DeclareSupport(c)
  BY <1>1 DEF DeclareSupport
<1>2. CASE Begin(c)
  BY <1>2 DEF Begin
<1>3. CASE Refuse(c)
  BY <1>3 DEF Refuse, Return
<1>4. CASE Abort(c)
  BY <1>4 DEF Abort, Return, Entered
<1>5. CASE Join(c)
  BY <1>5 DEF Join, Return, Entered
<1>6. CASE Queue(c)
  BY <1>6 DEF Queue
<1>7. CASE ReuseSession(c)
  BY <1>7 DEF ReuseSession, Entered
<1>8. CASE Reserve(c)
  BY <1>8 DEF Reserve, Entered
<1>9. CASE CapacityExhausted(c)
  BY <1>9 DEF CapacityExhausted, Return, Entered
<1>10. CASE Opened(c)
  BY <1>10 DEF Opened
<1>11. CASE OpenFailed(c)
  BY <1>11 DEF OpenFailed, Return
<1>12. CASE Discard(c)
  BY <1>12, SMTT(20) DEF Discard, Return
<1>13. CASE Dispose(c)
  BY <1>13 DEF Dispose, Return
<1>14. CASE DisposeFails(c)
  BY <1>14 DEF DisposeFails, Return
<1>15. CASE Publish(c)
  BY <1>15 DEF Publish, Return
<1>16. CASE Deliver(c)
  BY <1>16 DEF Deliver
<1>17. CASE CallerDrops(c)
  BY <1>17 DEF CallerDrops
<1>18. CASE DropHandle(c)
  BY <1>18 DEF DropHandle
<1>19. CASE ReleaseSupport(c)
  BY <1>19 DEF ReleaseSupport, Retire
<1>20. CASE ReleaseReturns(c)
  BY <1>20 DEF ReleaseReturns
<1> QED
  BY <1>1, <1>2, <1>3, <1>4, <1>5, <1>6, <1>7, <1>8, <1>9, <1>10, <1>11, <1>12, <1>13, <1>14, <1>15, <1>16, <1>17, <1>18, <1>19, <1>20 DEF CallStep

\* Neither does a step of anyone else; the calls it dooms are fenced by it.
LEMMA OtherStepFence ==
    ASSUME TypeOK, RegistryInv, FenceInv, FencedNeverPublishes, [Next]_vars,
           ~\E c \in Calls : CallStep(c)
    PROVE  FenceInv' /\ FencedNeverPublishes'
<1> USE DEF TypeOK, FenceInv, FencedNeverPublishes, Initializing,
            callVars, sourceVars, mapVars, stopVars, reapVars
<1>1. ASSUME NEW c \in Calls, WorkerStep(c)
      PROVE  FenceInv' /\ FencedNeverPublishes'
  BY <1>1 DEF WorkerStep, PumpEnds, SourceCloses, SourceFails, JoinPump, JoinHls, GraceExpires
\* A call whose start has not settled owns nothing another call could see.
<1>a. \A k \in Keys : \A c \in Unsettled(k) : held[c] = None /\ (\A j \in Keys : sessions[j] # c)
  <2> SUFFICES ASSUME NEW k \in Keys, NEW c \in Unsettled(k)
               PROVE  held[c] = None /\ (\A j \in Keys : sessions[j] # c)
    OBVIOUS
  <2>1. c \in Calls /\ pc[c] \in {"begun", "locking", "opening", "final", "dispose", "declared"}
    BY DEF Unsettled
  <2>2. src[c] \in {"none", "opening", "opened"}
    BY <2>1 DEF RegistryInv, SourceInv
  <2>3. \A j \in Keys : sessions[j] # None => src[sessions[j]] \in {"pumping", "draining", "closed", "failed"}
    BY DEF RegistryInv, MapInv, Live
  <2>4. c # None
    BY <2>1 DEF CallsAssumption
  <2> QED
    BY <2>1, <2>2, <2>3, <2>4
<1>2. ASSUME NEW t \in Stops, StopBegin(t)
      PROVE  FenceInv' /\ FencedNeverPublishes'
  <2> DEFINE k == t.key
  <2>1. /\ k \in Keys
        /\ sessions' = [sessions EXCEPT ![k] = None]
        /\ fenced' = fenced \cup {c \in pending : c.key = k}
        /\ doomed' = doomed \cup Unsettled(k)
        /\ intent' = [intent EXCEPT ![k] = SetRunning(@, FALSE)]
        /\ UNCHANGED <<pc, pending, attempt, held>>
    BY <1>2 DEF StopBegin, Retire
  <2>2. /\ ~intent'[k].running
        /\ \A j \in Keys : /\ intent'[j].epoch \in Nat /\ intent[j].epoch \in Nat
                           /\ intent'[j].epoch >= intent[j].epoch
                           /\ j # k => intent'[j] = intent[j]
    BY <2>1 DEF SetRunning
  <2>3. \A c \in Unsettled(k) : /\ c \in Calls /\ c.key = k /\ pc[c] # "idle"
                                /\ pc[c] \in {"begun", "locking", "opening", "final"} => c \in fenced'
    BY <2>1 DEF Unsettled, RegistryInv, PendingInv
  <2>4. FencedNeverPublishes'
    <3> SUFFICES ASSUME NEW c \in doomed'
                 PROVE  held'[c] = None /\ (\A j \in Keys : sessions'[j] # c)
      OBVIOUS
    <3>1. c \in Calls /\ held[c] = None /\ (\A j \in Keys : sessions[j] # c)
      <4>1. CASE c \in doomed
        BY <4>1
      <4>2. CASE c \in Unsettled(k)
        BY <4>2, <1>a, <2>1, <2>3
      <4> QED
        BY <2>1, <4>1, <4>2
    <3>2. \A j \in Keys : sessions'[j] \in {sessions[j], None}
      BY <2>1
    <3> QED
      BY <2>1, <3>1, <3>2 DEF CallsAssumption
  <2>5. FenceInv'
    <3>1. \A c \in Calls : /\ attempt'[c] = attempt[c] /\ attempt[c] \in Nat /\ c.key \in Keys
                           /\ attempt[c] <= intent[c.key].epoch
      BY <2>1 DEF CallsAssumption
    <3>2. \A c \in Calls : attempt'[c] <= intent'[c.key].epoch
      BY <2>2, <3>1
    <3>3. ASSUME NEW c \in doomed'
          PROVE  /\ pc'[c] # "idle"
                 /\ pc'[c] \in {"declared", "begun", "locking", "opening", "final"} =>
                      \/ c \in fenced'
                      \/ c.kind = "support"
                           /\ (intent'[c.key].running => attempt'[c] < intent'[c.key].epoch)
      <4>1. CASE c \in Unsettled(k)
        BY <4>1, <2>1, <2>2, <2>3
      <4>2. CASE c \in doomed /\ c.key # k
        BY <4>2, <2>1, <2>2, <3>1
      <4>3. CASE c \in doomed /\ c.key = k
        BY <4>3, <2>1, <2>2, <3>1
      <4> QED
        BY <2>1, <4>1, <4>2, <4>3
    <3> QED
      BY <2>1, <3>2, <3>3
  <2> QED
    BY <2>4, <2>5
<1>3. ASSUME NEW t \in Stops, StopReturns(t)
      PROVE  FenceInv' /\ FencedNeverPublishes'
  BY <1>3 DEF StopReturns
<1>4. ASSUME NEW k \in Keys, HlsAccess(k)
      PROVE  FenceInv' /\ FencedNeverPublishes'
  BY <1>4 DEF HlsAccess
<1>5. ASSUME NEW k \in Keys, RestartSupport(k)
      PROVE  FenceInv' /\ FencedNeverPublishes'
  BY <1>5, <1>a DEF RestartSupport, Unsettled
<1>6. ASSUME NEW k \in Keys, NEW b \in BOOLEAN, SetSupport(k, b)
      PROVE  FenceInv' /\ FencedNeverPublishes'
  BY <1>6, <1>a DEF SetSupport, SetRunning, Unsettled
<1>7. CASE ReapSnapshot \/ ReapDone
  BY <1>7 DEF ReapSnapshot, ReapDone
<1>8. CASE ReapRetire
  BY <1>8 DEF ReapRetire, IdleKeys
<1>9. CASE ShutBegin
  BY <1>9 DEF ShutBegin, SetRunning
<1>10. CASE ShutDone
  BY <1>10 DEF ShutDone
<1>11. CASE Over \/ UNCHANGED vars
  BY <1>11 DEF Over, vars
<1> QED
  BY <1>1, <1>2, <1>3, <1>4, <1>5, <1>6, <1>7, <1>8, <1>9, <1>10, <1>11 DEF Next

\* A start or support attempt that a stop overtook never takes effect, in
\* whatever order its registration, its waits and the stop happen.
THEOREM StopFenceHolds == Spec => []FencedNeverPublishes
<1>1. Init => FenceInv /\ FencedNeverPublishes
  BY DEF Init, FenceInv, FencedNeverPublishes
<1>2. TypeOK /\ RegistryInv /\ FenceInv /\ FencedNeverPublishes /\ [Next]_vars
        => FenceInv' /\ FencedNeverPublishes'
  BY CallStepFence, OtherStepFence
<1> QED
  BY <1>1, <1>2, RegistryCorrect, PTL DEF Spec

-----------------------------------------------------------------------------
(* What an answered stop has seen.                                         *)

\* A source that runs is the published one, or a stop of its key would find it.
StopInv ==
    /\ \A s \in Calls : src[s] \in Live \cup {"closed", "failed"} =>
          \/ sessions[s.key] = s \/ shut # "no"
          \/ Pump(s) \in stopping[s.key] \cup Finished
    /\ \A s \in Calls : /\ Pump(s) \in complete => src[s] = "closed"
                        /\ Pump(s) \in broken => src[s] = "failed"
    /\ \A t \in Stops : /\ \A s \in owed[t] : Pump(s) \in stopWait[t]
                        /\ stopPc[t] = "idle" => owed[t] = {}
                        /\ stopPc[t] \in {"stopped", "absent"} =>
                             stopWait[t] \subseteq complete

\* The steps of a call preserve StopInv.
LEMMA StopInvCall ==
    ASSUME TypeOK, RegistryInv, StopInv, NEW c \in Calls, CallStep(c)
    PROVE  StopInv'
<1> USE DEF TypeOK, StopInv, Finished, Live,
            callVars, sourceVars, mapVars, stopVars, reapVars
<1>1. CASE Reserve(c) \/ Opened(c) \/ OpenFailed(c) \/ Dispose(c) \/ DisposeFails(c)
  BY <1>1 DEF Reserve, Opened, OpenFailed, Dispose, DisposeFails, RegistryInv, SourceInv
<1>2. CASE Publish(c)
  BY <1>2 DEF Publish, RegistryInv, SourceInv, MapInv, FinalizeHasSource, Aborted
<1>3. CASE ReleaseReturns(c)
  BY <1>3 DEF ReleaseReturns, RecordStop
<1>4. CASE ReleaseSupport(c)
  BY <1>4 DEF ReleaseSupport, Retire, RecordStop, SessionWorker, RegistryInv, MapInv
<1>5. CASE \/ DeclareSupport(c) \/ Begin(c) \/ Refuse(c) \/ Abort(c) \/ Join(c) \/ Queue(c)
           \/ ReuseSession(c) \/ CapacityExhausted(c) \/ Discard(c) \/ Deliver(c)
           \/ CallerDrops(c) \/ DropHandle(c)
  BY <1>5 DEF DeclareSupport, Begin, Refuse, Abort, Join, Queue, ReuseSession,
              CapacityExhausted, Discard, Deliver, CallerDrops, DropHandle
<1> QED
  BY <1>1, <1>2, <1>3, <1>4, <1>5 DEF CallStep

\* Workers, stops, the reaper and shutdown preserve StopInv.
LEMMA StopInvOther ==
    ASSUME TypeOK, RegistryInv, StopInv, [Next]_vars, ~\E c \in Calls : CallStep(c)
    PROVE  StopInv'
<1> USE DEF TypeOK, StopInv, Finished, Live,
            callVars, sourceVars, mapVars, stopVars, reapVars
<1>1. ASSUME NEW c \in Calls, PumpEnds(c) \/ SourceCloses(c) \/ SourceFails(c)
      PROVE  StopInv'
  BY <1>1 DEF PumpEnds, SourceCloses, SourceFails
<1>2. ASSUME NEW c \in Calls, JoinPump(c) \/ JoinHls(c) \/ GraceExpires(c)
      PROVE  StopInv'
  BY <1>2 DEF JoinPump, JoinHls, GraceExpires, Pump, Hls
<1>3. ASSUME NEW t \in Stops, StopBegin(t)
      PROVE  StopInv'
  <2> DEFINE k == t.key
  <2>1. /\ k \in Keys /\ stopPc[t] = "idle"
        /\ sessions' = [sessions EXCEPT ![k] = None]
        /\ stopping' = RecordStop(k, SessionWorker(k) \cup PackagerWorker(k))
        /\ stopWait' = [stopWait EXCEPT ![t] = SessionWorker(k) \cup PackagerWorker(k) \cup stopping'[k]]
        /\ owed' = [owed EXCEPT ![t] =
                      {s \in Calls : s.key = k /\ src[s] \in Live /\ shut = "no"}]
        /\ stopPc' = [stopPc EXCEPT ![t] = "wait"]
        /\ UNCHANGED <<src, complete, broken, shut>>
    BY <1>3 DEF StopBegin, Retire
  <2> DEFINE ws == SessionWorker(k) \cup PackagerWorker(k)
  <2>2. \A j \in Keys : \A w : w \in stopping'[j] <=>
          (w \in stopping[j] \/ (j = k /\ w \in ws)) /\ w \notin Finished
    BY <2>1 DEF RecordStop
  <2>3. /\ owed'[t] = {s \in Calls : s.key = k /\ src[s] \in Live /\ shut = "no"}
        /\ stopWait'[t] = ws \cup stopping'[k] /\ stopPc'[t] = "wait"
    BY <2>1
  <2>4. \A j \in Keys : j # k => sessions'[j] = sessions[j]
    BY <2>1
  <2>5. \A s \in Calls : s.key \in Keys /\ (sessions[k] = s => Pump(s) \in ws)
    BY DEF SessionWorker, CallsAssumption
  <2> HIDE DEF ws
  <2>6. ASSUME NEW s \in Calls, src[s] \in Live \cup {"closed", "failed"}, shut = "no"
        PROVE  \/ sessions'[s.key] = s
               \/ Pump(s) \in stopping'[s.key] \cup Finished
    <3>1. CASE s.key # k
      BY <2>2, <2>4, <2>5, <2>6, <3>1
    <3>2. CASE s.key = k
      BY <2>1, <2>2, <2>5, <2>6, <3>2
    <3> QED
      BY <3>1, <3>2
  \* A worker that is finished has a source that no longer runs.
  <2>7. ASSUME NEW s \in Calls, s.key = k, src[s] \in Live, shut = "no"
        PROVE  Pump(s) \in stopWait'[t]
    <3>1. Pump(s) \notin Finished
      BY <2>7
    <3>2. sessions[k] = s \/ Pump(s) \in stopping[k]
      BY <2>7, <3>1
    <3> QED
      BY <2>1, <2>2, <2>3, <2>5, <2>7, <3>1, <3>2
  <2>8. \A u \in Stops : u # t => owed'[u] = owed[u] /\ stopWait'[u] = stopWait[u] /\ stopPc'[u] = stopPc[u]
    BY <2>1
  <2>9. \A s \in owed'[t] : Pump(s) \in stopWait'[t]
    BY <2>3, <2>7
  <2>10. \A u \in Stops : /\ \A s \in owed'[u] : Pump(s) \in stopWait'[u]
                          /\ stopPc'[u] = "idle" => owed'[u] = {}
                          /\ stopPc'[u] \in {"stopped", "absent"} => stopWait'[u] \subseteq complete'
    BY <2>1, <2>3, <2>8, <2>9, ZenonT(40)
  <2> QED
    BY <2>1, <2>6, <2>10
<1>4. ASSUME NEW t \in Stops, StopReturns(t)
      PROVE  StopInv'
  BY <1>4 DEF StopReturns, RecordStop
<1>5. ASSUME NEW k \in Keys, \/ HlsAccess(k) \/ RestartSupport(k)
                             \/ \E b \in BOOLEAN : SetSupport(k, b)
      PROVE  StopInv'
  BY <1>5 DEF HlsAccess, RestartSupport, SetSupport
<1>6. CASE ReapSnapshot \/ ReapDone
  BY <1>6 DEF ReapSnapshot, ReapDone
<1>7. CASE ReapRetire
  BY <1>7 DEF ReapRetire, IdleKeys, SessionWorker, RegistryInv, MapInv
<1>8. CASE ShutBegin \/ ShutDone
  BY <1>8 DEF ShutBegin, ShutDone
<1>9. CASE Over \/ UNCHANGED vars
  BY <1>9 DEF Over, vars
<1> QED
  BY <1>1, <1>2, <1>3, <1>4, <1>5, <1>6, <1>7, <1>8, <1>9 DEF Next, WorkerStep

\* What a stop waits for covers what ran, in every reachable state.
THEOREM StopInvariant == Spec => []StopInv
<1>1. Init => StopInv
  BY DEF Init, StopInv, Live
<1>2. TypeOK /\ RegistryInv /\ StopInv /\ [Next]_vars => StopInv'
  BY StopInvCall, StopInvOther
<1> QED
  BY <1>1, <1>2, RegistryCorrect, PTL DEF Spec

\* A DELETE that reports success or absence, and not unconfirmed cleanup, is
\* answered after every source of the key that ran when it began was destroyed.
THEOREM StopAnswersTruthfully == Spec => []StopConfirmed
<1>1. TypeOK /\ StopInv => StopConfirmed
  BY DEF TypeOK, StopInv, StopConfirmed
<1> QED
  BY <1>1, StopInvariant, RegistryCorrect, PTL

\* Both together: a stop takes effect for good, and its answer is true.
THEOREM StopsHold == Spec => []StopsAreTrue
<1>1. FencedNeverPublishes /\ StopConfirmed => StopsAreTrue
  BY DEF StopsAreTrue
<1> QED
  BY <1>1, StopFenceHolds, StopAnswersTruthfully, PTL

-----------------------------------------------------------------------------
(* Shutdown and demand.                                                    *)

\* After shutdown returned no call is being initialized and no source runs.
ShutInv ==
    shut \in {"closed", "unclean"} =>
        \A c \in Calls : /\ pc[c] \notin Initializing
                         /\ src[c] \in {"none", "closed", "failed", "leaked"}
                         /\ shut = "closed" => src[c] \in {"none", "closed"}

\* No step revives anything after shutdown returned.
LEMMA ShutStep ==
    ASSUME TypeOK, RegistryInv, StopInv, ShutInv, [Next]_vars
    PROVE  ShutInv'
<1> USE DEF TypeOK, ShutInv, Initializing, callVars, sourceVars, mapVars, stopVars, reapVars
<1>1. ASSUME NEW c \in Calls, CallStep(c)
      PROVE  ShutInv'
  <2>1. shut' = shut
    BY <1>1 DEF CallStep, DeclareSupport, Begin, Refuse, Abort, Join, Queue, ReuseSession,
                Reserve, CapacityExhausted, Opened, OpenFailed, Discard, Dispose,
                DisposeFails, Publish, Deliver, CallerDrops, DropHandle, ReleaseSupport,
                ReleaseReturns
  <2>2. SUFFICES ASSUME shut \in {"closed", "unclean"}
                 PROVE  UNCHANGED src /\ pc' \in [Calls -> {"idle", "declared", "returned", "done",
                                                           "releasing", "over"}]
    BY <2>1
  <2>3. pc \in [Calls -> {"idle", "declared", "returned", "done", "releasing", "over"}]
    BY <2>2
  <2>4. pc[c] \in {"idle", "declared", "returned", "done", "releasing", "over"}
    BY <2>3
  <2> QED
    BY <1>1, <2>2, <2>3, <2>4
       DEF CallStep, DeclareSupport, Begin, Refuse, Return, Abort, Entered, Join, Queue,
           ReuseSession, Reserve, CapacityExhausted, Opened, OpenFailed, Discard, Dispose,
           DisposeFails, Publish, Deliver, CallerDrops, DropHandle, ReleaseSupport,
           ReleaseReturns
<1>2. ASSUME NEW c \in Calls, WorkerStep(c)
      PROVE  ShutInv'
  BY <1>2 DEF WorkerStep, PumpEnds, SourceCloses, SourceFails, JoinPump, JoinHls, GraceExpires
<1>3. CASE ShutDone
  <2>1. ASSUME NEW c \in Calls
        PROVE  /\ pc[c] \notin Initializing
               /\ src[c] \in {"none", "closed", "failed", "leaked"}
               /\ broken = {} /\ src[c] # "leaked" => src[c] \in {"none", "closed"}
    <3>1. pc[c] \notin Initializing /\ src[c] \notin {"opening", "opened"}
      BY <1>3 DEF ShutDone, Drained, RegistryInv, SourceInv, LockHolding
    <3>2. src[c] \in Live \cup {"closed", "failed"} => Pump(c) \in complete \cup broken
      BY <1>3 DEF ShutDone, Drained, Finished
    <3>3. /\ Pump(c) \in complete => src[c] = "closed"
          /\ Pump(c) \in broken => src[c] = "failed"
      BY DEF StopInv
    <3>4. src[c] \in {"opening", "opened", "pumping", "draining", "failed", "leaked", "none", "closed"}
      BY DEF Owning
    <3> QED
      BY <3>1, <3>2, <3>3, <3>4 DEF Live
  <2> QED
    BY <1>3, <2>1 DEF ShutDone
<1>4. CASE ShutBegin
  BY <1>4 DEF ShutBegin
<1>5. ASSUME ~\E c \in Calls : CallStep(c) \/ WorkerStep(c), ~ShutBegin, ~ShutDone
      PROVE  UNCHANGED <<shut, pc, src>>
  BY <1>5 DEF Next, vars, StopBegin, StopReturns, HlsAccess, RestartSupport, SetSupport,
              ReapSnapshot, ReapRetire, ReapDone, Over
<1> QED
  BY <1>1, <1>2, <1>3, <1>4, <1>5

\* shutdown() that returns true leaves no source, and with it no slot, behind.
THEOREM ShutdownIsTruthful == Spec => []ShutdownConfirmed
<1>1. Init => ShutInv
  BY DEF Init, ShutInv
<1>2. TypeOK /\ RegistryInv /\ StopInv /\ ShutInv /\ [Next]_vars => ShutInv'
  BY ShutStep
<1>3. ShutInv /\ AdmissionExact => ShutdownConfirmed
  <2> SUFFICES ASSUME ShutInv, AdmissionExact
               PROVE  ShutdownConfirmed
    OBVIOUS
  <2>1. shut = "closed" => Owners = {}
    BY DEF ShutInv, Owners, Owning
  <2>2. shut = "closed" => occupied = 0
    BY <2>1, FS_EmptySet DEF AdmissionExact
  <2> QED
    BY <2>2 DEF ShutInv, ShutdownConfirmed
<1> QED
  BY <1>1, <1>2, <1>3, RegistryCorrect, StopInvariant, AdmissionCorrect, PTL DEF Spec

\* Neither the reaper nor the release of a pin takes a session away from
\* anybody who holds it while its source lives.
THEOREM DemandIsRespected == Spec => DemandKeepsSession
<1> DEFINE Kept == \A s \in cancelled' \ cancelled :
                      (\E c \in Calls : held[c] = s /\ held'[c] = s) =>
                         \/ shut' # shut \/ stopPc' # stopPc
                         \/ Pump(s) \in complete
<1>1. TypeOK /\ [Next]_vars => [Kept]_vars
  <2> SUFFICES ASSUME TypeOK, Next
               PROVE  Kept
    OBVIOUS
  <2> USE DEF TypeOK, callVars, sourceVars, mapVars, stopVars, reapVars
  <2>1. CASE cancelled' = cancelled
    BY <2>1
  <2>2. ASSUME NEW c \in Calls, ReleaseSupport(c)
        PROVE  Kept
    <3> SUFFICES ASSUME NEW s \in cancelled' \ cancelled, NEW d \in Calls,
                        held[d] = s, held'[d] = s
                 PROVE  Pump(s) \in complete
      BY Zenon
    <3>1. held' = [held EXCEPT ![c] = None] /\ held[c] # None
      BY <2>2 DEF ReleaseSupport
    <3>2. ~ReleaseKeeps(c, held[c]) /\ s = sessions[c.key]
      BY <2>2 DEF ReleaseSupport, Retire
    <3>3. s = held[c]
      BY <3>2 DEF ReleaseKeeps
    <3>4. d # c
      BY <3>1 DEF CallsAssumption
    <3>5. d \in Subscribers(s) \/ d \in SupportPins(s) \ {c}
      BY <3>4 DEF Subscribers, SupportPins
    <3> QED
      BY <3>2, <3>3, <3>5 DEF ReleaseKeeps
  <2>3. CASE ReapRetire
    <3> SUFFICES ASSUME NEW s \in cancelled' \ cancelled, NEW d \in Calls, held[d] = s
                 PROVE  FALSE
      OBVIOUS
    <3>1. PICK k \in Keys : k \in IdleKeys /\ s = sessions[k]
      BY <2>3 DEF ReapRetire, IdleKeys
    <3>2. d \in Subscribers(s) \/ d \in SupportPins(s)
      BY DEF Subscribers, SupportPins
    <3> QED
      BY <3>1, <3>2 DEF IdleKeys
  <2>4. ASSUME NEW t \in Stops, StopBegin(t)
        PROVE  Kept
    <3>1. stopPc'[t] = "wait" /\ stopPc[t] = "idle"
      BY <2>4 DEF StopBegin
    <3> QED
      BY <3>1
  <2>5. CASE ShutBegin
    BY <2>5 DEF ShutBegin
  <2>6. ASSUME ~\E c \in Calls : ReleaseSupport(c), ~ReapRetire,
               ~\E t \in Stops : StopBegin(t), ~ShutBegin
        PROVE  cancelled' = cancelled
    <3>1. ASSUME NEW c \in Calls, CallStep(c)
          PROVE  cancelled' = cancelled
      BY <2>6, <3>1 DEF CallStep, DeclareSupport, Begin, Refuse, Abort, Join, Queue,
           ReuseSession, Reserve, CapacityExhausted, Opened, OpenFailed, Discard, Dispose,
           DisposeFails, Publish, Deliver, CallerDrops, DropHandle, ReleaseReturns
    <3>2. ASSUME NEW c \in Calls, WorkerStep(c)
          PROVE  cancelled' = cancelled
      BY <3>2 DEF WorkerStep, PumpEnds, SourceCloses, SourceFails, JoinPump, JoinHls,
                  GraceExpires
    <3> QED
      BY <2>6, <3>1, <3>2 DEF Next, vars, StopReturns, HlsAccess, RestartSupport,
           SetSupport, ReapSnapshot, ReapDone, ShutDone, Over
  <2> QED
    BY <2>1, <2>2, <2>3, <2>4, <2>5, <2>6
<1> QED
  BY <1>1, TypeCorrect, PTL DEF Spec, DemandKeepsSession

\* What a start was promised is there when it finalizes, and no second source
\* was opened for it: FinalizationFindsSource and StartsAreSingle together.
THEOREM SingleStart == Spec => []StartIsSingle
<1>1. FinalizeHasSource /\ OneSourcePerKey => StartIsSingle
  BY DEF StartIsSingle
<1> QED
  BY <1>1, FinalizationFindsSource, StartsAreSingle, PTL

\* The shutdown fence holds from the first step of shutdown() to its answer.
THEOREM ShutdownCorrect == Spec => []ShutdownHolds
<1>1. NothingAfterShutdown /\ ShutdownConfirmed => ShutdownHolds
  BY DEF ShutdownHolds
<1> QED
  BY <1>1, ShutdownFence, ShutdownIsTruthful, PTL
=============================================================================
